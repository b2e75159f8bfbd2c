---------------------------- MODULE TokenStream -----------------------------
(***************************************************************************)
(* The contract between the scheduler and the server: once a request has   *)
(* been added, a stream of at most MaxNew tokens is put on its token_queue *)
(* and then ended by one finish marker that counts.                        *)
(*                                                                         *)
(* Scheduler.tla implements it; Server.tla is built on it.  Nothing is     *)
(* said of how many tokens there are (a stop token or an abort may end a   *)
(* stream at any time) nor of who is served first.                         *)
(***************************************************************************)
EXTENDS Naturals

CONSTANTS Req, MaxNew

VARIABLES asked,     \* has the request been added?
          produced,  \* tokens on its stream
          closed     \* has the stream ended?

stream == <<asked, produced, closed>>

StreamInit ==
    /\ asked = [r \in Req |-> FALSE]
    /\ produced = [r \in Req |-> 0]
    /\ closed = [r \in Req |-> FALSE]

Ask(r) ==
    /\ ~ asked[r]
    /\ asked' = [asked EXCEPT ![r] = TRUE]
    /\ UNCHANGED <<produced, closed>>

\* One more token, which may be the last.
Produce(r, last) ==
    /\ asked[r] /\ ~ closed[r]
    /\ produced[r] < MaxNew[r]
    /\ produced' = [produced EXCEPT ![r] = @ + 1]
    /\ closed' = [closed EXCEPT ![r] = last]
    /\ UNCHANGED asked

\* The stream ends without a further token.
Close(r) ==
    /\ asked[r] /\ ~ closed[r]
    /\ closed' = [closed EXCEPT ![r] = TRUE]
    /\ UNCHANGED <<asked, produced>>

StreamNext ==
    \E r \in Req : Ask(r) \/ Close(r) \/ \E last \in BOOLEAN : Produce(r, last)

StreamSpec == StreamInit /\ [][StreamNext]_stream
=============================================================================
