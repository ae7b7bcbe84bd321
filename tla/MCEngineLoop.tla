---------------------------- MODULE MCEngineLoop ----------------------------
EXTENDS EngineLoop

Says(text, finish, order) == [text |-> text, finish |-> finish, order |-> order]

\* Text, silence and answers that break off; a call alone, twice and around a
\* hosted one; a call that can show progress; a question; control calls alone,
\* beside a tool and with bad arguments; a tool that is not there.
MCReplies ==
  {Says("said", "natural", <<>>), Says("thought", "natural", <<>>),
   Says("none", "natural", <<>>), Says("none", "empty", <<>>),
   Says("said", "cut", <<>>), Says("none", "cut", <<"read">>),
   Says("none", "refused", <<>>), Says("none", "cancelled", <<>>),
   Says("none", "natural", <<"search">>), Says("none", "calls", <<"read">>),
   Says("none", "calls", <<"read", "read">>), Says("none", "calls", <<"read", "search">>),
   Says("none", "calls", <<"poll">>), Says("none", "calls", <<"ask">>),
   Says("none", "calls", <<"note">>), Says("none", "calls", <<"note", "edit">>),
   Says("none", "calls", <<"bad">>), Says("none", "calls", <<"gone">>)}
=============================================================================
