------------------------------- MODULE Server -------------------------------
(***************************************************************************)
(* src/miniengine/server.py and the end of main() in __main__.py: one      *)
(* coroutine per completion request, which awaits                          *)
(* run_in_executor(None, token_queue.get) once per item, so that a thread  *)
(* of the event loop's default executor blocks in get for it.              *)
(*                                                                         *)
(* The scheduler is TokenStream.tla, which Scheduler.tla implements.       *)
(* uvicorn, asyncio and the executor are external: what is used of them is *)
(*  - SIGINT: uvicorn takes no more requests and waits for the responses   *)
(*    under way; at a second SIGINT it waits no longer and asyncio.run     *)
(*    cancels the coroutines;                                              *)
(*  - the response of a streaming client that disconnects is cancelled;    *)
(*  - cancelling a coroutine cancels a call that has no thread yet, never  *)
(*    one that has;                                                        *)
(*  - asyncio.run returns when every thread of the executor has returned.  *)
(***************************************************************************)
EXTENDS TokenStream, Sequences, FiniteSets

CONSTANTS Streaming,  \* the requests with stream = true
          Workers,    \* threads of the default executor
          StuckSets   \* the sets of requests whose stream may never be ended

ASSUME ServerAssumption ==
    /\ MaxNew \in [Req -> Nat]
    /\ Streaming \subseteq Req
    /\ Workers \in Nat \ {0}
    /\ StuckSets \subseteq SUBSET Req

VARIABLES stuck,    \* requests the scheduler will not answer, one of StuckSets
          up,       \* "serving", "draining", "closing", or "stopped"
          co,       \* the coroutine of each request
          calls,    \* requests whose get waits for a thread, in order
          threads,  \* requests for which a thread is in get
          taken,    \* items taken off each token_queue
          item,     \* what the last get returned and the coroutine has not seen
          got       \* tokens the coroutine has sent on or collected

client == <<co, calls, threads, taken, item, got>>
vars == <<asked, produced, closed, stuck, up, client>>

Init ==
    /\ StreamInit
    /\ stuck \in StuckSets
    /\ up = "serving"
    /\ co = [r \in Req |-> "none"]
    /\ calls = << >> /\ threads = { }
    /\ taken = [r \in Req |-> 0]
    /\ item = [r \in Req |-> "none"]
    /\ got = [r \in Req |-> 0]

Live(r) == co[r] \in {"ready", "waiting"}

-----------------------------------------------------------------------------
(* The coroutines, on the event loop *)

\* chat_completions: the request is added, and read by _stream_response or
\* _collect_full_response.
ChatCompletion(r) ==
    /\ up = "serving"
    /\ Ask(r)
    /\ co' = [co EXCEPT ![r] = "ready"]
    /\ UNCHANGED <<stuck, up, calls, threads, taken, item, got>>

\* Mutant: get is called by the coroutine, so nothing else runs until it returns.
CallGet_OnLoop(r) ==
    /\ co[r] = "ready"
    /\ \A s \in Req : co[s] # "waiting"
    /\ calls' = Append(calls, r)
    /\ co' = [co EXCEPT ![r] = "waiting"]
    /\ UNCHANGED <<stream, stuck, up, threads, taken, item, got>>

\* The top of the loop: await loop.run_in_executor(None, req.token_queue.get).
CallGet(r) ==
    /\ co[r] = "ready"
    /\ calls' = Append(calls, r)
    /\ co' = [co EXCEPT ![r] = "waiting"]
    /\ UNCHANGED <<stream, stuck, up, threads, taken, item, got>>

\* Mutant: the loop goes on after the finish marker.
Resume_NoReturn(r) ==
    /\ co[r] = "waiting" /\ item[r] # "none"
    /\ item' = [item EXCEPT ![r] = "none"]
    /\ got' = IF item[r] = "token" THEN [got EXCEPT ![r] = @ + 1] ELSE got
    /\ co' = [co EXCEPT ![r] = "ready"]
    /\ UNCHANGED <<stream, stuck, up, calls, threads, taken>>

\* The coroutine sees what get returned: a token is sent on or collected, the
\* finish marker ends the response.
Resume(r) ==
    /\ co[r] = "waiting" /\ item[r] # "none"
    /\ item' = [item EXCEPT ![r] = "none"]
    /\ got' = IF item[r] = "token" THEN [got EXCEPT ![r] = @ + 1] ELSE got
    /\ co' = [co EXCEPT ![r] = IF item[r] = "token" THEN "ready" ELSE "done"]
    /\ UNCHANGED <<stream, stuck, up, calls, threads, taken>>

-----------------------------------------------------------------------------
(* The default executor *)

\* A thread takes up the oldest call.
PickUp ==
    /\ calls # << >> /\ Cardinality(threads) < Workers
    /\ threads' = threads \cup {Head(calls)}
    /\ calls' = Tail(calls)
    /\ UNCHANGED <<stream, stuck, up, co, taken, item, got>>

\* Mutant: get_nowait, where an empty queue is taken for the end.
GetReturns_NoWait(r) ==
    /\ r \in threads
    /\ taken' = [taken EXCEPT ![r] = @ + 1]
    /\ item' = [item EXCEPT ![r] = IF co[r] # "waiting" THEN "none"
                                   ELSE IF taken[r] < produced[r] THEN "token" ELSE "end"]
    /\ threads' = threads \ {r}
    /\ UNCHANGED <<stream, stuck, up, co, calls, got>>

\* token_queue.get returns: the next token, or the marker behind the last one.
\* What it returns to a cancelled coroutine is gone.
GetReturns(r) ==
    /\ r \in threads
    /\ taken[r] >= produced[r] => closed[r]
    /\ taken' = [taken EXCEPT ![r] = @ + 1]
    /\ item' = [item EXCEPT ![r] = IF co[r] # "waiting" THEN "none"
                                   ELSE IF taken[r] < produced[r] THEN "token" ELSE "end"]
    /\ threads' = threads \ {r}
    /\ UNCHANGED <<stream, stuck, up, co, calls, got>>

-----------------------------------------------------------------------------
(* Clients that leave, and the end of the process *)

DropCall(i) == [j \in 1 .. Len(calls) - 1 |-> IF j < i THEN calls[j] ELSE calls[j + 1]]

\* Only a streaming response is cancelled; the request itself is not.
Disconnect(r) ==
    /\ r \in Streaming /\ Live(r)
    /\ co' = [co EXCEPT ![r] = "gone"]
    /\ item' = [item EXCEPT ![r] = "none"]
    /\ IF \E i \in 1 .. Len(calls) : calls[i] = r
         THEN \E i \in 1 .. Len(calls) : calls[i] = r /\ calls' = DropCall(i)
         ELSE UNCHANGED calls
    /\ UNCHANGED <<stream, stuck, up, threads, taken, got>>

\* The first SIGINT.
Interrupt ==
    /\ up = "serving"
    /\ up' = "draining"
    /\ UNCHANGED <<stream, stuck, client>>

Leave ==
    /\ up = "draining"
    /\ up' = "closing"
    /\ co' = [r \in Req |-> IF Live(r) THEN "gone" ELSE co[r]]
    /\ item' = [r \in Req |-> "none"]
    /\ calls' = << >>
    /\ UNCHANGED <<stream, stuck, threads, taken, got>>

\* Every response has been sent; or a second SIGINT comes first.
Drained == Leave /\ \A r \in Req : ~ Live(r)
SecondInterrupt == Leave /\ \E r \in Req : Live(r)

\* Mutant: the scheduler is stopped before the server has returned.
Stop_First ==
    /\ up = "closing"
    /\ up' = "stopped"
    /\ UNCHANGED <<stream, stuck, client>>

\* uvicorn.run has returned, and main() calls sched.stop().
Stop ==
    /\ up = "closing" /\ threads = { }
    /\ up' = "stopped"
    /\ UNCHANGED <<stream, stuck, client>>

-----------------------------------------------------------------------------
\* The scheduler thread, which never ends the stream of a stuck request.
Token(r, last) ==
    /\ last => r \notin stuck
    /\ Produce(r, last)
    /\ UNCHANGED <<stuck, up, client>>

End(r) ==
    /\ r \notin stuck
    /\ Close(r)
    /\ UNCHANGED <<stuck, up, client>>

\* Mutant: the scheduler is stopped by the interrupt, before the responses end.
Answer_WhileServing(r) == up = "serving" /\ (End(r) \/ \E last \in BOOLEAN : Token(r, last))

\* What the scheduler puts on a token queue.
Answer(r) == End(r) \/ \E last \in BOOLEAN : Token(r, last)

Next ==
    \/ \E r \in Req : \/ ChatCompletion(r) \/ CallGet(r) \/ Resume(r)
                      \/ GetReturns(r) \/ Disconnect(r) \/ Answer(r)
    \/ PickUp \/ Interrupt \/ Drained \/ SecondInterrupt \/ Stop

Spec == Init /\ [][Next]_vars

\* The event loop runs what is ready and the executor what it is given; until it is
\* stopped the scheduler answers what it can (Scheduler!EveryRequestAnswered).  No
\* client has to come, to leave, or to interrupt the server once or twice.
FairSpec ==
    /\ Spec
    /\ \A r \in Req : /\ WF_vars(CallGet(r)) /\ WF_vars(Resume(r)) /\ WF_vars(GetReturns(r))
                      /\ WF_vars(up # "stopped" /\ r \notin stuck /\ Answer(r))
    /\ WF_vars(PickUp) /\ WF_vars(Drained) /\ WF_vars(Stop)

-----------------------------------------------------------------------------
(* Properties *)

\* Every variable has its type, and no count passes the length of a stream.
ServerTypeOK ==
    /\ asked \in [Req -> BOOLEAN] /\ produced \in [Req -> Nat] /\ closed \in [Req -> BOOLEAN]
    /\ \A r \in Req : produced[r] <= MaxNew[r] /\ taken[r] <= MaxNew[r] + 1 /\ got[r] <= MaxNew[r]
    /\ stuck \in StuckSets
    /\ up \in {"serving", "draining", "closing", "stopped"}
    /\ co \in [Req -> {"none", "ready", "waiting", "done", "gone"}]
    /\ calls \in Seq(Req) /\ threads \subseteq Req
    /\ taken \in [Req -> Nat] /\ got \in [Req -> Nat]
    /\ item \in [Req -> {"none", "token", "end"}]

\* A response that ended has all tokens of its request, whatever the threads and
\* the coroutine did in between, and only a request that was ended has one.
ResponseComplete ==
    \A r \in Req : co[r] = "done" => closed[r] /\ got[r] = produced[r]

\* A get that waits for a thread or has one can still return: the finish marker of
\* its request has not been taken before it, by this coroutine or a cancelled one.
GetsCanReturn ==
    \A r \in Req :
        r \in threads \/ (\E i \in 1 .. Len(calls) : calls[i] = r) => taken[r] <= produced[r]

\* While fewer requests are stuck than there are threads, every other client gets
\* its whole response or leaves: gets of queued, slow or cancelled requests that
\* hold the threads delay it and no more.
EveryClientServed ==
    \A r \in Req :
        Live(r) /\ r \notin stuck /\ Cardinality(stuck) < Workers ~> co[r] \in {"done", "gone"}

\* A thread in the get of a request that is answered returns, also when the client
\* has left and through the shutdown: the scheduler is stopped last.
ThreadsReturn == \A r \in Req : r \in threads /\ r \notin stuck ~> r \notin threads

\* Once interrupted the process ends by itself if every request is answered, and
\* after the second interrupt unless a thread is in the get of one that is not.
ShutdownCompletes ==
    /\ up = "draining" /\ stuck = { } ~> up = "stopped"
    /\ up = "closing" /\ threads \cap stuck = { } ~> up = "stopped"
=============================================================================
