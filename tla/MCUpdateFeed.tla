----------------------------- MODULE MCUpdateFeed -----------------------------
(* TLC instance of UpdateFeed: windows of one item or of all of them.          *)
EXTENDS UpdateFeed
CONSTANTS a, b
MCItems == {a, b}
MCChanges == {{}, {a, b}}
MCWindows == {{a}}
\* Nothing is left to observe once the last subscription has ended.
Watched == SubsOpen # {} \/ subscribes < MaxSubscribes
=============================================================================
