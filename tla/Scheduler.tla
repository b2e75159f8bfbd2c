----------------------------- MODULE Scheduler ------------------------------
(***************************************************************************)
(* src/miniengine/scheduler.py: the queues, the background thread and its  *)
(* three modes, with the server threads that add requests and the main     *)
(* thread that stops it.                                                   *)
(*                                                                         *)
(* The scheduler thread is in one place of step() at a time, named by pc;  *)
(* between two of its steps any other thread may call add_request or stop. *)
(* One turn of a for loop is a step.  The engine is external here: a call  *)
(* to it returns one result per request or raises.  Who reads the token    *)
(* queues is in Server.tla: nothing here waits for it.                     *)
(***************************************************************************)
EXTENDS Integers, Sequences, SequencesExt, FiniteSetsExt

CONSTANTS Req,
          MaxNew,      \* sampling_params.max_new_tokens of each request
          Peaks,       \* the workloads: paged_peak_pages_for_request of each request
          NumPages,    \* capacity of the KV pool
          MaxRunning,  \* --max-running
          Modes,       \* the values of --mode to start with
          MaxChunks,   \* the most prefill steps a prompt can take
          MaxFailures  \* bound on the steps that raise

\* The server turns max_tokens = 0 into 256 and lets negative numbers through.
ASSUME SchedulerAssumption ==
    /\ MaxNew \in [Req -> Int \ {0}]
    /\ Peaks \subseteq [Req -> Int]
    /\ NumPages \in Nat /\ MaxRunning \in Nat \ {0} /\ MaxFailures \in Nat
    /\ Modes \subseteq {"baseline", "batched", "paged"}
    /\ MaxChunks \in Nat \ {0}

VARIABLES mode,       \* engine.mode, one of Modes
          peak,       \* the peaks of the requests, one of Peaks
          waiting, prefilling, running,  \* the lists of the scheduler
          status,     \* RequestStatus, or "new" before add_request
          made,       \* len(req.output_ids)
          kv,         \* req.kv_cache is set
          left,       \* prefill steps until prefill_done
          sent,       \* everything put on req.token_queue
          flag,       \* self._running_flag
          pc,         \* where the scheduler thread is
          todo,       \* what is left of the list a for loop goes through
          result,     \* the results of the engine call, zipped with it
          keep,       \* still_prefilling or still_running
          retracted,  \* the local of that name
          failures,   \* steps that raised, at most MaxFailures
          arrivals    \* the order of the add_request calls

lists == <<waiting, prefilling, running>>
local == <<todo, result, keep, retracted>>
outer == <<flag, arrivals>>
outside == <<mode, peak, failures, outer>>
vars == <<mode, peak, waiting, prefilling, running, status, made, kv, left, sent, flag, pc,
          todo, result, keep, retracted, failures, arrivals>>

Init ==
    /\ mode \in Modes
    /\ peak \in Peaks
    /\ waiting = << >> /\ prefilling = << >> /\ running = << >>
    /\ status = [r \in Req |-> "new"]
    /\ made = [r \in Req |-> 0]
    /\ kv = [r \in Req |-> FALSE]
    /\ left = [r \in Req |-> 0]
    /\ sent = [r \in Req |-> << >>]
    /\ flag = TRUE
    /\ pc = "loop"
    /\ todo = << >> /\ keep = << >> /\ retracted = << >>
    /\ result = [r \in Req |-> "none"]
    /\ failures = 0
    /\ arrivals = << >>

-----------------------------------------------------------------------------
(* The other threads *)

\* add_request, on a server thread, under the lock.
AddRequest(r) ==
    /\ flag /\ status[r] = "new"
    /\ status' = [status EXCEPT ![r] = "waiting"]
    /\ waiting' = Append(waiting, r)
    /\ arrivals' = Append(arrivals, r)
    /\ UNCHANGED <<prefilling, running, made, kv, left, sent, pc, local, mode, peak, failures,
                   flag>>

\* stop, once the server has returned to main(): the flag is cleared, and main()
\* joins the thread for five seconds.
Stop ==
    /\ flag
    /\ flag' = FALSE
    /\ UNCHANGED <<lists, status, made, kv, left, sent, pc, local, mode, peak, failures,
                   arrivals>>

-----------------------------------------------------------------------------
(* Pieces shared by the modes *)

\* Mutant: the flag is not looked at while there is work.
AtLoop_IgnoresFlag == pc = "loop"

\* The loop tests its flag before every step.
AtLoop == pc = "loop" /\ flag

ThreadEnd ==
    /\ pc = "loop" /\ ~ flag
    /\ pc' = "ended"
    /\ UNCHANGED <<lists, status, made, kv, left, sent, local, outside>>

\* The longest answer: is_finished is looked at after each token, the first included.
Longest == [r \in Req |-> IF MaxNew[r] > 0 THEN MaxNew[r] ELSE 1]

\* May the commit of r's pages raise?  PagedEngine.tla shows that a table is only too
\* short when max_tokens is negative.
CommitMayRaise(r) == mode = "paged" /\ MaxNew[r] < 0

\* A request whose commit raised is finished and keeps its kv_cache with the pages.
PagesKept == \E r \in Req : status[r] = "finished" /\ kv[r]

HasWork == waiting # << >> \/ running # << >> \/ prefilling # << >>

\* Mutant: the finish marker overtakes the last token.
FinishRequest_TokenLost(r, run, pre, out) ==
    /\ status' = [status EXCEPT ![r] = "finished"]
    /\ running' = RemoveFirst(run, r)
    /\ prefilling' = RemoveFirst(pre, r)
    /\ kv' = [kv EXCEPT ![r] = FALSE]
    /\ sent' = [sent EXCEPT ![r] = Append(@, "finished")]

\* Mutant: the request stays in self.running.
FinishRequest_StaysRunning(r, run, pre, out) ==
    /\ status' = [status EXCEPT ![r] = "finished"]
    /\ running' = run
    /\ prefilling' = RemoveFirst(pre, r)
    /\ kv' = [kv EXCEPT ![r] = FALSE]
    /\ sent' = [sent EXCEPT ![r] = out \o <<"finished">>]

\* _finish_request: r leaves the lists, gives its KV back and the client is told.
\* `run` and `pre` are the lists it leaves.
FinishRequest(r, run, pre, out) ==
    /\ status' = [status EXCEPT ![r] = "finished"]
    /\ running' = RemoveFirst(run, r)
    /\ prefilling' = RemoveFirst(pre, r)
    /\ kv' = [kv EXCEPT ![r] = FALSE]
    /\ sent' = [sent EXCEPT ![r] = out \o <<"finished">>]

\* One sampled token: recorded, streamed, and _check_finished decides, where a
\* stop token may come at any time.  `go` is what happens to an unfinished r.
TakeToken(r, go) ==
    /\ made' = [made EXCEPT ![r] = @ + 1]
    /\ \E stop \in BOOLEAN :
          IF stop \/ made[r] + 1 >= MaxNew[r]
            THEN /\ FinishRequest(r, running, prefilling, Append(sent[r], "token"))
                 /\ UNCHANGED keep
            ELSE /\ sent' = [sent EXCEPT ![r] = Append(@, "token")]
                 /\ go
                 /\ UNCHANGED prefilling

\* A call in step() raises: step() is left with its locals, and the loop turns to
\* _abort_inflight_requests, which goes through both lists.
StepRaised(inflight) ==
    /\ failures < MaxFailures
    /\ failures' = failures + 1
    /\ pc' = "abort"
    /\ todo' = inflight
    /\ keep' = << >> /\ retracted' = << >>
    /\ result' = [r \in Req |-> "none"]

StepFails ==
    /\ StepRaised(prefilling \o running)
    /\ UNCHANGED <<lists, left, sent, mode, peak, outer>>

\* The engine raises, where the requests of S may have got a kv_cache before it.
EngineRaisesAfterInit(S) ==
    /\ StepFails
    /\ status' = [r \in Req |-> IF r \in S THEN "running" ELSE status[r]]
    /\ \E T \in SUBSET S : kv' = [r \in Req |-> kv[r] \/ r \in T]
    /\ UNCHANGED made

\* decode_token raises in _stream_token: the token is in output_ids and not on the
\* queue, and requests before it in the loop may be in running and still in
\* prefilling as well.
StreamRaises ==
    /\ pc \in {"baseline", "prefill one", "prefilled", "decoded"} /\ todo # << >>
    /\ pc = "prefilled" => result[Head(todo)] = "token"
    /\ StepFails
    /\ made' = [made EXCEPT ![Head(todo)] = @ + 1]
    /\ status' = [status EXCEPT ![Head(todo)] = "running"]
    /\ kv' = [kv EXCEPT ![Head(todo)] = TRUE]

\* A request that was in both lists is finished twice.
AbortOne ==
    /\ pc = "abort" /\ todo # << >>
    /\ FinishRequest(Head(todo), running, prefilling, sent[Head(todo)])
    /\ todo' = Tail(todo)
    /\ UNCHANGED <<waiting, made, left, pc, result, keep, retracted, outside>>

\* Its commit raises, outside of the try of the loop: the thread is gone.
AbortRaises ==
    /\ pc = "abort" /\ todo # << >>
    /\ CommitMayRaise(Head(todo)) /\ kv[Head(todo)]
    /\ status' = [status EXCEPT ![Head(todo)] = "finished"]
    /\ running' = RemoveFirst(running, Head(todo))
    /\ prefilling' = RemoveFirst(prefilling, Head(todo))
    /\ pc' = "died" /\ todo' = << >>
    /\ UNCHANGED <<waiting, made, kv, left, sent, result, keep, retracted, outside>>

AbortEnd ==
    /\ pc = "abort" /\ todo = << >>
    /\ pc' = "loop"
    /\ UNCHANGED <<lists, status, made, kv, left, sent, local, outside>>

-----------------------------------------------------------------------------
(* _step_baseline: one request to completion *)

BaselineStart ==
    /\ AtLoop /\ mode = "baseline" /\ waiting # << >>
    /\ todo' = <<Head(waiting)>>
    /\ waiting' = Tail(waiting)
    /\ status' = [status EXCEPT ![Head(waiting)] = "running"]
    /\ pc' = "baseline"
    /\ UNCHANGED <<prefilling, running, made, kv, left, sent, result, keep, retracted,
                   outside>>

\* Mutant: the request is left as soon as it has a first token.
BaselineToken_NeverEnds ==
    /\ pc = "baseline"
    /\ LET r == Head(todo) IN
         TakeToken(r, UNCHANGED <<running, status, keep>> /\ kv' = [kv EXCEPT ![r] = TRUE])
    /\ pc' = "loop" /\ todo' = << >>
    /\ UNCHANGED <<waiting, left, result, retracted, outside>>

\* engine.prefill, then engine.decode_step, until the request is finished.
BaselineToken ==
    /\ pc = "baseline"
    /\ LET r == Head(todo) IN
         /\ TakeToken(r, UNCHANGED <<running, status, keep>> /\ kv' = [kv EXCEPT ![r] = TRUE])
         /\ IF status'[r] = "finished" THEN pc' = "loop" /\ todo' = << >>
                                       ELSE UNCHANGED <<pc, todo>>
    /\ UNCHANGED <<waiting, left, result, retracted, outside>>

BaselineRaises == pc = "baseline" /\ EngineRaisesAfterInit({Head(todo)})

-----------------------------------------------------------------------------
(* _step_batched *)

\* Phase 1 takes whatever max_running allows off the queue, under the lock.
BatchedAdmit ==
    /\ AtLoop /\ mode = "batched" /\ HasWork
    /\ LET room == IF MaxRunning > Len(running) THEN MaxRunning - Len(running) ELSE 0
           k    == Min({Len(waiting), room})
       IN  /\ todo' = SubSeq(waiting, 1, k)
           /\ waiting' = SubSeq(waiting, k + 1, Len(waiting))
    /\ pc' = "prefill one"
    /\ UNCHANGED <<prefilling, running, status, made, kv, left, sent, result, keep,
                   retracted, outside>>

\* engine.prefill(req) for the next admitted request.
PrefillOne ==
    /\ pc = "prefill one" /\ todo # << >>
    /\ LET r == Head(todo) IN
         TakeToken(r, /\ running' = Append(running, r)
                      /\ status' = [status EXCEPT ![r] = "running"]
                      /\ kv' = [kv EXCEPT ![r] = TRUE]
                      /\ UNCHANGED keep)
    /\ todo' = Tail(todo)
    /\ UNCHANGED <<waiting, left, pc, result, retracted, outside>>

PrefillOneRaises ==
    /\ pc = "prefill one" /\ todo # << >>
    /\ EngineRaisesAfterInit({Head(todo)})

PrefillAllDone ==
    /\ pc = "prefill one" /\ todo = << >>
    /\ pc' = "decode"
    /\ UNCHANGED <<lists, status, made, kv, left, sent, local, outside>>

-----------------------------------------------------------------------------
(* _step_paged, phase 1: admission and one prefill batch *)

Load(s) == FoldSeq(LAMBDA r, n : peak[r] + n, 0, s)

\* Mutant: the requests still prefilling are not counted.
Admissible_RunningOnly(k) ==
    /\ Len(running) + k <= MaxRunning
    /\ Load(running \o SubSeq(waiting, 1, k)) <= NumPages

\* May the first k waiting requests join, by the peaks and by max_running?
Admissible(k) ==
    /\ Len(running) + Len(prefilling) + k <= MaxRunning
    /\ Load(running \o prefilling \o SubSeq(waiting, 1, k)) <= NumPages

\* The admission loop stops at the first request that does not fit.  The engine
\* may refuse more than the peaks do (free and evictable pages), but not the
\* head of the queue when no request holds pages.
PagedAdmit ==
    /\ AtLoop /\ mode = "paged" /\ HasWork
    /\ \E k \in 0 .. Len(waiting) :
         /\ \A j \in 1 .. k : Admissible(j)
         /\ k = 0 /\ waiting # << >> /\ running \o prefilling = << >> =>
               PagesKept \/ ~ Admissible(1)
         /\ prefilling' = prefilling \o SubSeq(waiting, 1, k)
         /\ waiting' = SubSeq(waiting, k + 1, Len(waiting))
         /\ status' = [r \in Req |-> IF r \in ToSet(SubSeq(waiting, 1, k)) THEN "running"
                                                                          ELSE status[r]]
    /\ pc' = "prefill batch"
    /\ UNCHANGED <<running, made, kv, left, sent, local, outside>>

\* prefill_batch.  A request without kv_cache gets one, and with it the number of
\* steps its uncached prompt takes, or is flagged needs_retract because others
\* hold the pages; the rest advance by a chunk.  The result is a token once the
\* prompt is through and None before.  That a lone request is not refused is taken
\* for granted here; PagedServing.tla shows over the real pool when it is.
PrefillBatch ==
    /\ pc = "prefill batch" /\ prefilling # << >>
    /\ \E failed \in SUBSET {r \in ToSet(prefilling) : ~ kv[r]} :
         /\ failed # { } => running # << >> \/ failed # ToSet(prefilling) \/ PagesKept
         /\ kv' = [r \in Req |-> kv[r] \/ r \in ToSet(prefilling) \ failed]
         /\ \E steps \in [ToSet(prefilling) -> 1 .. MaxChunks] :
              left' = [r \in Req |-> IF r \notin ToSet(prefilling) \ failed THEN left[r]
                                    ELSE IF kv[r] THEN left[r] - 1 ELSE steps[r] - 1]
         /\ result' = [r \in Req |-> IF r \in failed THEN "retract"
                                    ELSE IF left'[r] > 0 THEN "chunk" ELSE "token"]
    /\ todo' = prefilling
    /\ pc' = "prefilled"
    /\ UNCHANGED <<lists, status, made, sent, keep, retracted, outside>>

PrefillBatchRaises ==
    /\ pc = "prefill batch" /\ prefilling # << >>
    /\ EngineRaisesAfterInit(ToSet(prefilling))

NothingToPrefill ==
    /\ pc = "prefill batch" /\ prefilling = << >>
    /\ pc' = "decode"
    /\ UNCHANGED <<lists, status, made, kv, left, sent, local, outside>>

\* One turn of the loop over the snapshot of self.prefilling.
RetractOne(r) ==
    /\ result[r] = "retract"
    /\ status' = [status EXCEPT ![r] = "waiting"]
    /\ retracted' = Append(retracted, r)
    /\ UNCHANGED <<running, prefilling, made, kv, sent, keep>>

ChunkOne(r) ==
    /\ result[r] = "chunk"
    /\ keep' = Append(keep, r)
    /\ UNCHANGED <<running, prefilling, status, made, kv, sent, retracted>>

FirstToken(r) ==
    /\ result[r] = "token"
    /\ TakeToken(r, running' = Append(running, r) /\ UNCHANGED <<status, kv, keep>>)
    /\ UNCHANGED retracted

\* The first token ends the request, and its commit raises in the step: it is out of
\* the lists when the others are aborted, and nobody tells its client.
FirstCommitRaises ==
    /\ pc = "prefilled" /\ todo # << >>
    /\ LET r == Head(todo) IN
         /\ result[r] = "token" /\ CommitMayRaise(r)
         /\ made' = [made EXCEPT ![r] = @ + 1]
         /\ sent' = [sent EXCEPT ![r] = Append(@, "token")]
         /\ status' = [status EXCEPT ![r] = "finished"]
         /\ running' = RemoveFirst(running, r)
         /\ prefilling' = RemoveFirst(prefilling, r)
    /\ StepRaised(prefilling' \o running')
    /\ UNCHANGED <<waiting, kv, left, mode, peak, outer>>

\* Mutant: the loop goes over the live list, which a finish shortens.
PrefilledOne_LiveList ==
    /\ pc = "prefilled" /\ todo # << >>
    /\ RetractOne(Head(todo)) \/ ChunkOne(Head(todo)) \/ FirstToken(Head(todo))
    /\ todo' = SubSeq(todo, IF status'[Head(todo)] = "finished" THEN 3 ELSE 2, Len(todo))
    /\ UNCHANGED <<waiting, left, pc, result, outside>>

PrefilledOne ==
    /\ pc = "prefilled" /\ todo # << >>
    /\ RetractOne(Head(todo)) \/ ChunkOne(Head(todo)) \/ FirstToken(Head(todo))
    /\ todo' = Tail(todo)
    /\ UNCHANGED <<waiting, left, pc, result, outside>>

\* Mutant: append where the code has appendleft.
PrefilledEnd_ToTheBack ==
    /\ pc = "prefilled" /\ todo = << >>
    /\ prefilling' = keep
    /\ waiting' = waiting \o retracted
    /\ keep' = << >> /\ retracted' = << >>
    /\ result' = [r \in Req |-> "none"]
    /\ pc' = "decode"
    /\ UNCHANGED <<running, status, made, kv, left, sent, todo, outside>>

\* self.prefilling = still_prefilling, and the retracted requests go back to the
\* front of the queue in their order.
PrefilledEnd ==
    /\ pc = "prefilled" /\ todo = << >>
    /\ prefilling' = keep
    /\ waiting' = retracted \o waiting
    /\ keep' = << >> /\ retracted' = << >>
    /\ result' = [r \in Req |-> "none"]
    /\ pc' = "decode"
    /\ UNCHANGED <<running, status, made, kv, left, sent, todo, outside>>

-----------------------------------------------------------------------------
(* Phase 2 of the batched and the paged step *)

\* batched_decode returns a token for every running request.
Decode ==
    /\ pc = "decode" /\ running # << >>
    /\ todo' = running
    /\ pc' = "decoded"
    /\ UNCHANGED <<lists, status, made, kv, left, sent, result, keep, retracted, outside>>

DecodeRaises ==
    /\ pc = "decode" /\ running # << >>
    /\ StepFails
    /\ UNCHANGED <<status, kv, made>>

NothingToDecode ==
    /\ pc = "decode" /\ running = << >>
    /\ pc' = "loop"
    /\ UNCHANGED <<lists, status, made, kv, left, sent, local, outside>>

\* Mutant: a request already in the batch is kept twice.
DecodedEnd_Appends ==
    /\ pc = "decoded" /\ todo = << >>
    /\ running' = running \o keep
    /\ keep' = << >>
    /\ pc' = "loop"
    /\ UNCHANGED <<waiting, prefilling, status, made, kv, left, sent, todo, result,
                   retracted, outside>>

\* One turn of the loop over the snapshot of self.running.
DecodedOne ==
    /\ pc = "decoded" /\ todo # << >>
    /\ LET r == Head(todo) IN
         TakeToken(r, keep' = Append(keep, r) /\ UNCHANGED <<running, status, kv>>)
    /\ todo' = Tail(todo)
    /\ UNCHANGED <<waiting, left, pc, result, retracted, outside>>

\* self.running = still_running.
DecodedEnd ==
    /\ pc = "decoded" /\ todo = << >>
    /\ running' = keep
    /\ keep' = << >>
    /\ pc' = "loop"
    /\ UNCHANGED <<waiting, prefilling, status, made, kv, left, sent, todo, result,
                   retracted, outside>>

-----------------------------------------------------------------------------
SchedulerStep ==
    \/ BaselineStart \/ BaselineToken \/ BaselineRaises
    \/ BatchedAdmit \/ PrefillOne \/ PrefillOneRaises \/ PrefillAllDone
    \/ PagedAdmit \/ PrefillBatch \/ PrefillBatchRaises \/ NothingToPrefill
    \/ PrefilledOne \/ FirstCommitRaises \/ PrefilledEnd
    \/ Decode \/ DecodeRaises \/ NothingToDecode \/ DecodedOne \/ DecodedEnd
    \/ StreamRaises \/ AbortOne \/ AbortRaises \/ AbortEnd
    \/ ThreadEnd

Next ==
    \/ \E r \in Req : AddRequest(r)
    \/ Stop
    \/ SchedulerStep

Spec == Init /\ [][Next]_vars

\* The scheduler thread loops with a bounded sleep and no lock is held for long.
\* Nobody has to send a request or to stop the scheduler.
FairSpec == Spec /\ WF_vars(SchedulerStep)

-----------------------------------------------------------------------------
(* Properties *)

Places == {"loop", "baseline", "prefill one", "prefill batch", "prefilled", "decode",
           "decoded", "abort", "ended", "died"}

\* Every variable has its type.
TypeOK ==
    /\ mode \in Modes /\ peak \in Peaks
    /\ waiting \in Seq(Req) /\ prefilling \in Seq(Req) /\ running \in Seq(Req)
    /\ status \in [Req -> {"new", "waiting", "running", "finished"}]
    /\ made \in [Req -> Nat]
    /\ kv \in [Req -> BOOLEAN]
    /\ left \in [Req -> Nat]
    /\ sent \in [Req -> Seq({"token", "finished"})]
    /\ flag \in BOOLEAN
    /\ pc \in Places
    /\ todo \in Seq(Req) /\ keep \in Seq(Req) /\ retracted \in Seq(Req)
    /\ result \in [Req -> {"none", "token", "chunk", "retract"}]
    /\ failures \in 0 .. MaxFailures
    /\ arrivals \in Seq(Req)

\* The requests the scheduler thread can still reach, from its lists or from the
\* locals of the step it is in.
Reachable == ToSet(waiting \o prefilling \o running \o todo \o retracted)

\* A request that was added and not yet finished is never dropped from the lists:
\* nobody else would send its client the finish marker.  In paged mode that holds
\* through failing steps, too.
NoRequestLost ==
    mode = "paged" \/ failures = 0 =>
        \A r \in Req : status[r] \in {"waiting", "running"} => r \in Reachable

\* Between two steps a request is in one list, once, and in none when finished,
\* although _finish_request edits the lists the loops go through.
OneListEach ==
    pc = "loop" =>
        LET all == waiting \o prefilling \o running
        IN  /\ IsInjective(all)
            /\ \A r \in ToSet(all) : status[r] # "finished"
            /\ \A r \in ToSet(waiting) : status[r] = "waiting" /\ ~ kv[r]

Tokens(r) == Cardinality({i \in DOMAIN sent[r] : sent[r][i] = "token"})

\* The tokens of a request are on its queue once each and before any finish marker;
\* a marker is there when the request is finished, whether it ran out, met a stop
\* token or was aborted, unless its commit raised; only a failed step can leave a
\* token out or finish a request twice.
StreamOrder ==
    \A r \in Req :
        LET n == Len(sent[r])
        IN  /\ \A i \in 1 .. n : sent[r][i] = "token" <=> i <= Tokens(r)
            /\ n > Tokens(r) => status[r] = "finished"
            /\ status[r] = "finished" => n > Tokens(r) \/ (CommitMayRaise(r) /\ kv[r])
            /\ Tokens(r) <= made[r] /\ made[r] <= Longest[r]
            /\ failures = 0 => made[r] = Tokens(r) /\ n <= made[r] + 1

\* At most max_running requests are in flight, and in paged mode their worst case
\* fits the pool, retracts and aborts included, as long as no peak is negative.
InFlightBounded ==
    LET inflight == ToSet(prefilling \o running)
    IN  /\ Cardinality(inflight) <= MaxRunning
        /\ mode = "paged" /\ (\A r \in Req : peak[r] >= 0) =>
               MapThenSumSet(LAMBDA r : peak[r], inflight) <= NumPages

Position(r) == CHOOSE i \in 1 .. Len(arrivals) : arrivals[i] = r

\* The queue stays in arrival order: requests put back by a retract are ahead of
\* the later ones, and in their own order.
QueueInArrivalOrder ==
    \A i, j \in 1 .. Len(waiting) : i < j => Position(waiting[i]) < Position(waiting[j])

\* Can the scheduler answer r?  Not if a step failed in a mode that keeps requests
\* in locals of the step, nor if r is a request larger than the pool or was added
\* after one: the head of the queue is not passed over.  Nor if the commit of a
\* request raised, which keeps pages or ends the thread.
Answerable(r) ==
    /\ mode = "paged" \/ failures = 0
    /\ mode = "paged" => \A i \in 1 .. Position(r) : peak[arrivals[i]] <= NumPages
    /\ pc # "died" /\ ~ PagesKept

Closed(r) == "finished" \in ToSet(sent[r])

\* Every added request that can be answered is: a finish marker is put on its queue,
\* whatever the engine refuses, retracts or fails, unless the scheduler is stopped.
EveryRequestAnswered ==
    \A r \in Req : status[r] = "waiting" ~>
        Closed(r) \/ ~ flag \/ (status[r] # "new" /\ ~ Answerable(r))

\* The thread ends after a stop, in whatever step and with however much work it
\* finds it: main() joins it.
StopEnds == ~ flag ~> pc \in {"ended", "died"}

\* Every request that is in flight when the abort begins gets its finish marker from it,
\* in every mode, as the docstring of _abort_inflight_requests says.  The code does not
\* keep it: the thread may die of a commit that raises there.
AbortUnblocksClients ==
    \A r \in Req : (pc = "abort" /\ r \in ToSet(prefilling \o running)) ~> Closed(r)

\* What TokenStream.tla promises to the server.
Stream == INSTANCE TokenStream WITH
    MaxNew <- Longest,
    asked <- [r \in Req |-> status[r] # "new"],
    produced <- [r \in Req |-> Tokens(r)],
    closed <- [r \in Req |-> Closed(r)]
TokenStreamSpec == Stream!StreamSpec
=============================================================================
