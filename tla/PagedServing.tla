---------------------------- MODULE PagedServing -----------------------------
(***************************************************************************)
(* _step_paged of src/miniengine/scheduler.py driving the engine of        *)
(* PagedEngine.tla: the same steps on pages and tree, but in the order in  *)
(* which the scheduler thread takes them, so that what it does again and   *)
(* again under memory pressure shows.  Scheduler.tla has the same loop     *)
(* with chunks, failing steps, clients and the other modes, but takes the  *)
(* results of the engine as given; here they follow from the pool.         *)
(* Prompts are prefilled in one shot (--prefill-chunk-size 0).             *)
(***************************************************************************)
EXTENDS PagedEngine

\* No step fails here, so no max_tokens is negative.
ASSUME ServingAssumption == ~ StepsFail

VARIABLES waiting, prefilling, running,  \* the lists of the scheduler
          arrived,    \* the requests given to add_request
          phase,      \* where step() is
          todo,       \* what is left of the list a for loop goes through
          retracted   \* the local of that name

lists == <<waiting, prefilling, running>>
servingVars == <<vars, lists, arrived, phase, todo, retracted>>

ServingInit ==
    /\ Init
    /\ waiting = << >> /\ prefilling = << >> /\ running = << >>
    /\ arrived = {}
    /\ phase = "admit"
    /\ todo = << >> /\ retracted = << >>

\* add_request, on a server thread.
AddRequest(r) ==
    /\ r \notin arrived
    /\ arrived' = arrived \cup {r}
    /\ waiting' = Append(waiting, r)
    /\ UNCHANGED <<vars, prefilling, running, phase, todo, retracted>>

-----------------------------------------------------------------------------
(* Admission and prefill *)

\* The test of the admission loop for the head of the queue.
MayJoin(r) == Cardinality(Active) < MaxRunning /\ CanAdmit(Active, r)

AdmitHead ==
    /\ phase = "admit" /\ waiting # << >>
    /\ Admit(Head(waiting))
    /\ waiting' = Tail(waiting)
    /\ prefilling' = Append(prefilling, Head(waiting))
    /\ UNCHANGED <<running, arrived, phase, todo, retracted>>

\* The loop stops at the first request that does not fit.
AdmitEnd ==
    /\ phase = "admit" /\ pc = "idle"
    /\ waiting # << >> => ~ MayJoin(Head(waiting))
    /\ prefilling # << >> \/ running # << >>
    /\ phase' = "init" /\ todo' = prefilling
    /\ UNCHANGED <<vars, lists, arrived, retracted>>

\* prefill_batch gives every new request its pages before the model runs.
InitNext ==
    /\ phase = "init" /\ todo # << >>
    /\ PrefillInit(Head(todo))
    /\ todo' = Tail(todo)
    /\ UNCHANGED <<lists, arrived, phase, retracted>>

AllocateStep ==
    /\ phase = "init"
    /\ AllocDone \/ AllocFail \/ \E n \in Nodes : AllocEvict(n)
    /\ UNCHANGED <<lists, arrived, phase, todo, retracted>>

InitEnd ==
    /\ phase = "init" /\ pc = "idle" /\ todo = << >>
    /\ phase' = "first token" /\ todo' = prefilling
    /\ UNCHANGED <<vars, lists, arrived, retracted>>

\* The turn of the loop for a request flagged needs_retract.
Retract ==
    /\ phase = "first token" /\ pc = "idle"
    /\ todo # << >> /\ status[Head(todo)] = "waiting"
    /\ retracted' = Append(retracted, Head(todo))
    /\ todo' = Tail(todo)
    /\ UNCHANGED <<vars, lists, arrived, phase>>

-----------------------------------------------------------------------------
(* Tokens: the first one after prefill, the others by batched_decode *)

\* r gets its next token.
Sample(from, to) ==
    /\ phase = from /\ todo # << >>
    /\ \E t \in Gen[Head(todo)] : Generate(Head(todo), t)
    /\ phase' = to
    /\ UNCHANGED <<lists, arrived, todo, retracted>>

\* Mutant: a request that finishes with its first token still joins running.
Finish_StaysPrefilling(from, to) ==
    /\ phase = from
    /\ Retire(Head(todo))
    /\ running' = IF from = "decode check" THEN RemoveFirst(running, Head(todo))
                                           ELSE Append(running, Head(todo))
    /\ prefilling' = prefilling
    /\ todo' = Tail(todo)
    /\ phase' = to
    /\ UNCHANGED <<waiting, arrived, retracted>>

\* _check_finished and _finish_request, whose commit takes the steps after it.
Finish(from, to) ==
    /\ phase = from
    /\ Retire(Head(todo))
    /\ running' = RemoveFirst(running, Head(todo))
    /\ prefilling' = RemoveFirst(prefilling, Head(todo))
    /\ todo' = Tail(todo)
    /\ phase' = to
    /\ UNCHANGED <<waiting, arrived, retracted>>

FirstToken == Sample("first token", "first check")
FirstFinish == Finish("first check", "first token")

FirstKeep ==
    /\ phase = "first check" /\ ~ Done(Head(todo))
    /\ running' = Append(running, Head(todo))
    /\ todo' = Tail(todo)
    /\ phase' = "first token"
    /\ UNCHANGED <<vars, waiting, prefilling, arrived, retracted>>

\* Mutant: the retracted requests are not put back.
FirstEnd_Dropped ==
    /\ phase = "first token" /\ pc = "idle" /\ todo = << >>
    /\ prefilling' = << >>
    /\ waiting' = waiting
    /\ retracted' = << >>
    /\ phase' = "decode" /\ todo' = running
    /\ UNCHANGED <<vars, running, arrived>>

\* self.prefilling := still_prefilling, which is empty, and the retracted requests
\* go to the front of the queue.
FirstEnd ==
    /\ phase = "first token" /\ pc = "idle" /\ todo = << >>
    /\ prefilling' = << >>
    /\ waiting' = retracted \o waiting
    /\ retracted' = << >>
    /\ phase' = "decode" /\ todo' = running
    /\ UNCHANGED <<vars, running, arrived>>

NextToken == Sample("decode", "decode check")
NextFinish == Finish("decode check", "decode")

NextKeep ==
    /\ phase = "decode check" /\ ~ Done(Head(todo))
    /\ todo' = Tail(todo)
    /\ phase' = "decode"
    /\ UNCHANGED <<vars, lists, arrived, retracted>>

StepEnd ==
    /\ phase = "decode" /\ pc = "idle" /\ todo = << >>
    /\ phase' = "admit"
    /\ UNCHANGED <<vars, lists, arrived, todo, retracted>>

\* The turns of insert_and_return for the request that was just retired.
CommitStep ==
    /\ \E r \in Req : CommitLeaf(r) \/ CommitFullEdge(r) \/ CommitSplit(r) \/ CommitEnd(r)
    /\ UNCHANGED <<lists, arrived, phase, todo, retracted>>

-----------------------------------------------------------------------------
ThreadStep ==
    \/ AdmitHead \/ AdmitEnd
    \/ InitNext \/ AllocateStep \/ InitEnd \/ Retract
    \/ FirstToken \/ FirstFinish \/ FirstKeep \/ FirstEnd
    \/ NextToken \/ NextFinish \/ NextKeep \/ StepEnd
    \/ CommitStep

ServingNext ==
    \/ \E r \in Req : AddRequest(r)
    \/ ThreadStep
    \/ Terminated /\ UNCHANGED servingVars

ServingSpec == ServingInit /\ [][ServingNext]_servingVars

\* The scheduler thread loops without end.
FairServingSpec == ServingSpec /\ WF_servingVars(ThreadStep)

-----------------------------------------------------------------------------
(* Properties *)

\* The lists hold requests, and a check of a token has a request to check.
ServingTypeOK ==
    /\ waiting \in Seq(Req) /\ prefilling \in Seq(Req) /\ running \in Seq(Req)
    /\ arrived \subseteq Req
    /\ phase \in {"admit", "init", "first token", "first check", "decode", "decode check"}
    /\ todo \in Seq(Req) /\ retracted \in Seq(Req)
    /\ phase \in {"first check", "decode check"} => todo # << >>

\* No finished request is in the batch that decodes, although requests finish while
\* the loops go on; between two steps a request that arrived and is not finished is
\* in exactly one list, the one of its status.
ListsMatchStatus ==
    /\ \A r \in ToSet(running) : status[r] = "running"
    /\ phase = "admit" =>
        /\ arrived = ToSet(waiting \o prefilling \o running)
                       \cup {r \in Req : status[r] = "finished"}
        /\ IsInjective(waiting \o prefilling \o running)
        /\ \A r \in ToSet(waiting) : status[r] = "waiting"
        /\ \A r \in ToSet(prefilling) : status[r] = "admitted"

\* Every request that arrives is finished: a request that was sent back for want
\* of pages gets them once running requests finish and free pages.
RetriesSucceed == \A r \in Req : r \in arrived ~> status[r] = "finished"
=============================================================================
