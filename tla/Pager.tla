-------------------------------- MODULE Pager --------------------------------
(***************************************************************************)
(* What a list that is loaded page by page is to its reader: the pages up  *)
(* to some page, each once, of which the next is asked for by one request  *)
(* at a time, or the list from its start again.                            *)
(*                                                                         *)
(* PexelsFeed implements this specification as long as its list is not one *)
(* that was read from the box, and CategoryFeed for each of its topics.    *)
(***************************************************************************)
EXTENDS Integers

CONSTANTS Callers,   \* who may ask
          Pages,     \* the pages the list has room for
          Stock,     \* those that the server has
          Highest    \* no page after this one is asked for

VARIABLES shown,     \* how often each page is in the list
          next,      \* the page to ask for next
          asked      \* the request under way, if any: its caller and its page

vars == <<shown, next, asked>>

UpTo(n) == [p \in Pages |-> IF p <= n /\ p \in Stock THEN 1 ELSE 0]

Init ==
    /\ shown = UpTo(0)
    /\ next = 1
    /\ asked = {}

\* The next page, or the first again.
Ask(c, p) ==
    /\ asked = {}
    /\ p \in {1, next} /\ p <= Highest
    /\ asked' = {<<c, p>>}
    /\ UNCHANGED <<shown, next>>

\* The list ends with the page that was asked for.
Answer ==
    \E r \in asked :
      /\ shown' = UpTo(r[2])
      /\ next' = r[2] + 1
      /\ asked' = {}

\* The list stays as it was.
Fail ==
    /\ asked' = {}
    /\ UNCHANGED <<shown, next>>

\* The list is given up for one from elsewhere, or with the process.
Forget ==
    /\ shown' = UpTo(0)
    /\ next' = 1
    /\ asked' = {} \/ \E c \in Callers : asked' = {<<c, 1>>}

Next ==
    \/ \E c \in Callers, p \in 1 .. Highest : Ask(c, p)
    \/ Answer
    \/ Fail
    \/ Forget

Spec == Init /\ [][Next]_vars
=============================================================================
