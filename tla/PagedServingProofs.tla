------------------------- MODULE PagedServingProofs -------------------------
(***************************************************************************)
(* The scheduler of PagedServing makes only calls that PagedEngine allows, *)
(* so what is proved of the engine under every order of its calls holds    *)
(* of the engine under its scheduler; and between two steps its lists and  *)
(* the status of the requests say the same, none lost and none twice.      *)
(***************************************************************************)
EXTENDS PagedServing, PagedEngineProofs

\* list.remove leaves a list over the same elements.
LEMMA RemoveFirstType ==
    ASSUME NEW S, NEW s \in Seq(S), NEW e
    PROVE  RemoveFirst(s, e) \in Seq(S)
<1>. DEFINE I == {i \in 1 .. Len(s) : s[i] = e}
<1>. Len(s) \in Nat /\ \A i \in 1 .. Len(s) : s[i] \in S
  BY LenProperties, ElementOfSeq
<1>1. CASE I = {}
  BY <1>1 DEF RemoveFirst
<1>2. CASE I # {}
  <2>1. I \in SUBSET Nat
    OBVIOUS
  <2>2. PICK m \in I : \A i \in I : m <= i
    BY <1>2, <2>1, LeastNatural
  <2>3. Min(I) \in I
    BY <2>2 DEF Min
  <2>4. RemoveFirst(s, e) = SubSeq(s, 1, Min(I) - 1) \o SubSeq(s, Min(I) + 1, Len(s))
    BY <1>2 DEF RemoveFirst, RemoveAt, SelectInSeq
  <2>5. ASSUME NEW a \in 1 .. Len(s)
        PROVE  SubSeq(s, 1, a - 1) \in Seq(S) /\ SubSeq(s, a + 1, Len(s)) \in Seq(S)
    <3>1. /\ \A i \in 1 .. a - 1 : s[i] \in S
          /\ \A i \in a + 1 .. Len(s) : s[i] \in S
      OBVIOUS
    <3>2. a - 1 \in Int /\ a + 1 \in Int /\ Len(s) \in Int /\ 1 \in Int
      OBVIOUS
    <3>. QED  BY <3>1, <3>2, SubSeqProperties
  <2>. QED  BY <2>3, <2>4, <2>5, ConcatProperties
<1>. QED  BY <1>1, <1>2

-----------------------------------------------------------------------------
\* The engine's part of a step does not touch the lists, and the types of the
\* lists survive every step.
LEMMA ServingTypeStep ==
    ASSUME ServingTypeOK, [ServingNext]_servingVars
    PROVE  ServingTypeOK'
<1>. USE DEF ServingTypeOK, lists
<1>1. ASSUME NEW r \in Req, AddRequest(r)
      PROVE  ServingTypeOK'
  BY <1>1, AppendProperties DEF AddRequest
<1>2. CASE AdmitHead
  BY <1>2, HeadTailProperties, AppendProperties DEF AdmitHead
<1>3. CASE AdmitEnd \/ InitEnd \/ AllocateStep
  BY <1>3 DEF AdmitEnd, InitEnd, AllocateStep
<1>4. CASE InitNext
  BY <1>4, HeadTailProperties DEF InitNext
<1>5. CASE Retract
  BY <1>5, HeadTailProperties, AppendProperties DEF Retract
<1>6. CASE FirstToken \/ NextToken
  BY <1>6 DEF FirstToken, NextToken, Sample
<1>7. CASE FirstFinish \/ NextFinish
  BY <1>7, HeadTailProperties, RemoveFirstType DEF FirstFinish, NextFinish, Finish
<1>8. CASE FirstKeep \/ NextKeep
  <2>1. Head(todo) \in Req /\ Tail(todo) \in Seq(Req)
    BY <1>8, HeadTailProperties DEF FirstKeep, NextKeep
  <2>2. Append(running, Head(todo)) \in Seq(Req)
    BY <2>1, AppendProperties
  <2>3. CASE FirstKeep
    BY <2>1, <2>2, <2>3 DEF FirstKeep
  <2>4. CASE NextKeep
    BY <2>1, <2>4 DEF NextKeep
  <2>. QED  BY <1>8, <2>3, <2>4
<1>9. CASE FirstEnd
  BY <1>9, EmptySeq, ConcatProperties DEF FirstEnd
<1>10. CASE StepEnd \/ CommitStep
  BY <1>10 DEF StepEnd, CommitStep
<1>11. CASE UNCHANGED servingVars
  BY <1>11 DEF servingVars
<1>. QED
  BY <1>1, <1>2, <1>3, <1>4, <1>5, <1>6, <1>7, <1>8, <1>9, <1>10, <1>11
     DEF ServingNext, ThreadStep

\* A step of the serving loop is a step of the engine or leaves it alone.
LEMMA ServingStepIsEngineStep ==
    ASSUME ServingTypeOK, [ServingNext]_servingVars
    PROVE  [Next]_vars
<1>1. ASSUME NEW r \in Req, AddRequest(r)
      PROVE  UNCHANGED vars
  BY <1>1 DEF AddRequest
<1>2. CASE AdmitHead
  BY <1>2, HeadTailProperties DEF AdmitHead, ServingTypeOK, Next
<1>3. CASE AdmitEnd \/ InitEnd \/ Retract \/ FirstKeep \/ FirstEnd \/ NextKeep \/ StepEnd
  BY <1>3 DEF AdmitEnd, InitEnd, Retract, FirstKeep, FirstEnd, NextKeep, StepEnd
<1>4. CASE InitNext
  BY <1>4, HeadTailProperties DEF InitNext, ServingTypeOK, Next
<1>5. CASE AllocateStep
  BY <1>5 DEF AllocateStep, Next
<1>6. CASE FirstToken \/ NextToken
  BY <1>6, HeadTailProperties DEF FirstToken, NextToken, Sample, ServingTypeOK, Next
<1>7. CASE FirstFinish \/ NextFinish
  BY <1>7, HeadTailProperties DEF FirstFinish, NextFinish, Finish, ServingTypeOK, Next
<1>8. CASE CommitStep
  BY <1>8 DEF CommitStep, Next
<1>9. CASE UNCHANGED servingVars
  BY <1>9 DEF servingVars
<1>10. CASE Terminated
  BY <1>10 DEF Terminated
<1>. QED
  BY <1>1, <1>2, <1>3, <1>4, <1>5, <1>6, <1>7, <1>8, <1>9, <1>10
     DEF ServingNext, ThreadStep

-----------------------------------------------------------------------------
\* The lists of the serving loop keep their types.
THEOREM ServingTypeCorrect == ServingSpec => []ServingTypeOK
<1>1. ServingInit => ServingTypeOK
  BY EmptySeq DEF ServingInit, ServingTypeOK
<1>. QED  BY <1>1, ServingTypeStep, PTL DEF ServingSpec

\* The serving loop implements the engine of PagedEngine.tla.
THEOREM ServingImplementsEngine == ServingSpec => Spec
<1>1. ServingInit => Init
  BY DEF ServingInit
<1>. QED  BY <1>1, ServingTypeCorrect, ServingStepIsEngineStep, PTL DEF ServingSpec, Spec

\* Under the scheduler, too, ref_count counts exactly the requests that hold a
\* lock at or below a node, however often they are retracted.
THEOREM ServingConservesLocks == ServingSpec => []LockConservation
BY ServingImplementsEngine, LocksConserved, PTL

-----------------------------------------------------------------------------
(* The lists *)

\* The request whose commit is under way.
Committing == {r \in Req : pc = "insert" /\ cur = r}

\* A request is named once in a list, and the lists and the finished requests
\* share the requests that arrived.
QueueInv ==
    /\ IsInjective(waiting) /\ IsInjective(prefilling) /\ IsInjective(running)
    /\ IsInjective(todo) /\ IsInjective(retracted)
    /\ ToSet(waiting) \cap (ToSet(prefilling) \cup ToSet(running)) = {}
    /\ arrived = ToSet(waiting) \cup ToSet(prefilling) \cup ToSet(running) \cup Committing
                     \cup {r \in Req : status[r] = "finished"}
    /\ Committing \cap (ToSet(waiting) \cup ToSet(prefilling) \cup ToSet(running)) = {}

\* What a list says about the status of its requests.
MemberInv ==
    /\ \A r \in ToSet(waiting) : status[r] = "waiting"
    /\ \A r \in ToSet(prefilling) : status[r] # "finished"
    /\ \A r \in ToSet(running) : status[r] = "running"
    /\ \A r \in Req \ arrived : status[r] = "waiting"

\* Where the engine can be in a call.
CallInv ==
    /\ pc = "allocate" => phase = "init" /\ cur \in ToSet(prefilling) \ ToSet(todo)
    /\ pc = "insert" => phase \in {"first token", "decode"}

AdmitInv ==
    phase = "admit" =>
        /\ todo = << >> /\ retracted = << >>
        /\ ToSet(prefilling) \cap ToSet(running) = {}
        /\ \A r \in ToSet(prefilling) : status[r] = "admitted"

\* The loop of prefill_batch: who is not in todo any more has its pages or was sent
\* back, or is in the call.
InitInv ==
    phase = "init" =>
        /\ retracted = << >>
        /\ ToSet(prefilling) \cap ToSet(running) = {}
        /\ ToSet(todo) \subseteq ToSet(prefilling)
        /\ \A r \in ToSet(todo) : status[r] = "admitted"
        /\ \A r \in ToSet(prefilling) \ ToSet(todo) :
              status[r] = "admitted" => pc = "allocate" /\ cur = r

\* The loop over the prefilled requests: who is not in todo any more is in running,
\* in retracted, or finished and in no list.
FirstInv ==
    phase \in {"first token", "first check"} =>
        /\ ToSet(todo) \cup ToSet(retracted) \subseteq ToSet(prefilling)
        /\ ToSet(prefilling) \subseteq ToSet(todo) \cup ToSet(retracted) \cup ToSet(running)
        /\ ToSet(todo) \cap (ToSet(retracted) \cup ToSet(running)) = {}
        /\ \A r \in ToSet(retracted) : status[r] = "waiting"
        /\ phase = "first check" => status[Head(todo)] = "running"

\* The loop of batched_decode goes through running.
DecodeInv ==
    phase \in {"decode", "decode check"} =>
        /\ prefilling = << >> /\ retracted = << >>
        /\ ToSet(todo) \subseteq ToSet(running)

ListsInv == /\ QueueInv /\ MemberInv /\ CallInv
            /\ AdmitInv /\ InitInv /\ FirstInv /\ DecodeInv

-----------------------------------------------------------------------------
(* Its steps *)

\* What the lists are, for the provers.
LEMMA ListTypes ==
    ASSUME ServingTypeOK, IInv
    PROVE  /\ waiting \in Seq(Req) /\ prefilling \in Seq(Req) /\ running \in Seq(Req)
           /\ todo \in Seq(Req) /\ retracted \in Seq(Req)
           /\ ToSet(waiting) \subseteq Req /\ ToSet(prefilling) \subseteq Req
           /\ ToSet(running) \subseteq Req /\ ToSet(todo) \subseteq Req
           /\ ToSet(retracted) \subseteq Req
           /\ status \in [Req -> {"waiting", "admitted", "running", "finished"}]
<1>1. \A s \in Seq(Req) : ToSet(s) \subseteq Req
  BY LenProperties, ElementOfSeq DEF ToSet
<1>. QED  BY <1>1 DEF ServingTypeOK, IInv, TypeOK

\* add_request: the new request is in no list yet.
LEMMA AddRequestLists ==
    ASSUME ServingTypeOK, IInv, ListsInv, NEW r \in Req, AddRequest(r)
    PROVE  ListsInv'
<1>1. /\ r \notin arrived /\ arrived' = arrived \cup {r} /\ waiting' = Append(waiting, r)
      /\ UNCHANGED <<status, pc, cur, prefilling, running, phase, todo, retracted>>
  BY DEF AddRequest, vars
<1>2. /\ r \notin ToSet(waiting) /\ r \notin ToSet(prefilling) /\ r \notin ToSet(running)
      /\ r \notin Committing /\ status[r] = "waiting"
  BY <1>1 DEF ListsInv, QueueInv, MemberInv
<1>3. IsInjective(waiting') /\ ToSet(waiting') = ToSet(waiting) \cup {r}
  <2>1. waiting \in Seq(Req) /\ IsInjective(waiting)
    BY ListTypes DEF ListsInv, QueueInv
  <2>. QED  BY <1>1, <1>2, <2>1, Appended
<1>4. QueueInv'
  BY <1>1, <1>2, <1>3 DEF ListsInv, QueueInv, Committing
<1>5. MemberInv'
  BY <1>1, <1>2, <1>3 DEF ListsInv, MemberInv
<1>6. CallInv' /\ AdmitInv' /\ InitInv' /\ FirstInv' /\ DecodeInv'
  BY <1>1 DEF ListsInv, CallInv, AdmitInv, InitInv, FirstInv, DecodeInv
<1>. QED  BY <1>4, <1>5, <1>6 DEF ListsInv

\* The head of the queue moves to prefilling.
LEMMA AdmitHeadLists ==
    ASSUME ServingTypeOK, IInv, ListsInv, AdmitHead
    PROVE  ListsInv'
<1>. DEFINE h == Head(waiting)
<1>1. /\ phase = "admit" /\ pc = "idle" /\ waiting # << >>
      /\ waiting' = Tail(waiting) /\ prefilling' = Append(prefilling, h)
      /\ status' = [status EXCEPT ![h] = "admitted"]
      /\ UNCHANGED <<pc, cur, arrived, running, phase, todo, retracted>>
  BY DEF AdmitHead, Admit
<1>2. /\ h \in Req /\ ToSet(waiting) = {h} \cup ToSet(waiting') /\ IsInjective(waiting')
      /\ h \notin ToSet(waiting')
  <2>1. waiting \in Seq(Req) /\ IsInjective(waiting)
    BY ListTypes DEF ListsInv, QueueInv
  <2>. QED  BY <1>1, <2>1, HeadAndTail
<1>. HIDE DEF h
<1>3. h \notin ToSet(prefilling) /\ h \notin ToSet(running)
  BY <1>2 DEF ListsInv, QueueInv
<1>4. IsInjective(prefilling') /\ ToSet(prefilling') = ToSet(prefilling) \cup {h}
  <2>1. prefilling \in Seq(Req) /\ IsInjective(prefilling)
    BY ListTypes DEF ListsInv, QueueInv
  <2>. QED  BY <1>1, <1>2, <1>3, <2>1, Appended
<1>5. status'[h] = "admitted" /\ status[h] = "waiting"
      /\ \A r \in Req \ {h} : status'[r] = status[r]
  BY <1>1, <1>2, ListTypes DEF ListsInv, MemberInv
<1>6. QueueInv'
  <2>1. {r \in Req : status'[r] = "finished"} = {r \in Req : status[r] = "finished"}
    BY <1>2, <1>5
  <2>2. Committing' = {} /\ Committing = {}
    BY <1>1 DEF Committing
  <2>. QED  BY <1>1, <1>2, <1>3, <1>4, <2>1, <2>2 DEF ListsInv, QueueInv
<1>7. MemberInv'
  <2>1. h \in arrived
    BY <1>2 DEF ListsInv, QueueInv
  <2>. QED  BY <1>1, <1>2, <1>3, <1>4, <1>5, <2>1, ListTypes DEF ListsInv, MemberInv
<1>8. AdmitInv'
  BY <1>1, <1>3, <1>4, <1>5, ListTypes DEF ListsInv, AdmitInv
<1>9. CallInv' /\ InitInv' /\ FirstInv' /\ DecodeInv'
  BY <1>1 DEF CallInv, InitInv, FirstInv, DecodeInv
<1>. QED  BY <1>6, <1>7, <1>8, <1>9 DEF ListsInv

\* The steps between the loops, and the turns that only move todo on.
LEMMA BetweenLoops ==
    ASSUME ServingTypeOK, IInv, ListsInv, AdmitEnd \/ InitEnd \/ StepEnd
    PROVE  ListsInv'
<1>1. /\ pc = "idle" /\ UNCHANGED <<status, pc, cur, waiting, prefilling, running, arrived, retracted>>
  BY DEF AdmitEnd, InitEnd, StepEnd, vars, lists
<1>2. MemberInv'
  BY <1>1 DEF ListsInv, MemberInv
<1>3. QueueInv'
  BY <1>1 DEF ListsInv, QueueInv, Committing, AdmitEnd, InitEnd, StepEnd
<1>4. CallInv'
  BY <1>1 DEF CallInv
<1>5. CASE AdmitEnd
  BY <1>1, <1>2, <1>3, <1>4, <1>5 DEF AdmitEnd, ListsInv, AdmitInv, InitInv, FirstInv, DecodeInv
<1>6. CASE InitEnd
  <2>1. ToSet(<< >>) = {}
    BY ShortLists
  <2>2. FirstInv'
    BY <1>1, <1>6, <2>1 DEF InitEnd, ListsInv, InitInv, FirstInv
  <2>. QED  BY <1>2, <1>3, <1>4, <1>6, <2>2 DEF InitEnd, ListsInv, AdmitInv, InitInv, DecodeInv
<1>7. CASE StepEnd
  <2>1. ToSet(<< >>) = {}
    BY ShortLists
  <2>2. AdmitInv'
    BY <1>1, <1>7, <2>1 DEF StepEnd, ListsInv, AdmitInv, DecodeInv
  <2>. QED  BY <1>2, <1>3, <1>4, <1>7, <2>2 DEF StepEnd, ListsInv, InitInv, FirstInv, DecodeInv
<1>. QED  BY <1>5, <1>6, <1>7

\* The first of the list a loop goes through.
LEMMA NextTodo ==
    ASSUME ServingTypeOK, IInv, ListsInv, todo # << >>
    PROVE  /\ Head(todo) \in Req /\ Tail(todo) \in Seq(Req)
           /\ ToSet(todo) = {Head(todo)} \cup ToSet(Tail(todo))
           /\ IsInjective(Tail(todo)) /\ Head(todo) \notin ToSet(Tail(todo))
<1>1. todo \in Seq(Req) /\ IsInjective(todo)
  BY ListTypes DEF ListsInv, QueueInv
<1>. QED  BY <1>1, HeadAndTail

\* prefill_batch turns to the next new request.
LEMMA InitNextLists ==
    ASSUME ServingTypeOK, IInv, ListsInv, InitNext
    PROVE  ListsInv'
<1>. DEFINE h == Head(todo)
<1>1. /\ phase = "init" /\ todo # << >> /\ pc = "idle" /\ pc' = "allocate" /\ cur' = h
      /\ todo' = Tail(todo) /\ status[h] = "admitted"
      /\ UNCHANGED <<status, waiting, prefilling, running, arrived, retracted, phase>>
  BY DEF InitNext, PrefillInit, lists
<1>2. /\ h \in Req /\ ToSet(todo) = {h} \cup ToSet(todo')
      /\ IsInjective(todo') /\ h \notin ToSet(todo')
  BY <1>1, NextTodo
<1>. HIDE DEF h
<1>3. QueueInv'
  BY <1>1, <1>2 DEF ListsInv, QueueInv, Committing
<1>4. MemberInv'
  BY <1>1 DEF ListsInv, MemberInv
<1>5. CallInv' /\ InitInv'
  BY <1>1, <1>2 DEF ListsInv, CallInv, InitInv
<1>6. AdmitInv' /\ FirstInv' /\ DecodeInv'
  BY <1>1 DEF AdmitInv, FirstInv, DecodeInv
<1>. QED  BY <1>3, <1>4, <1>5, <1>6 DEF ListsInv

\* allocate gives the request its pages, or the request is flagged.
LEMMA AllocateLists ==
    ASSUME ServingTypeOK, IInv, ListsInv, AllocateStep
    PROVE  ListsInv'
<1>1. /\ phase = "init" /\ pc = "allocate" /\ cur \in Req
      /\ UNCHANGED <<waiting, prefilling, running, arrived, phase, todo, retracted>>
  BY DEF AllocateStep, AllocDone, AllocFail, AllocEvict, IInv, CoreInv, ControlInv, lists
<1>2. CASE \E n \in Nodes : AllocEvict(n)
  <2>1. UNCHANGED <<status, pc, cur>>
    BY <1>2 DEF AllocEvict, reqVars
  <2>. QED  BY <1>1, <2>1 DEF ListsInv, QueueInv, MemberInv, Committing, CallInv, AdmitInv,
                              InitInv, FirstInv, DecodeInv
<1>3. CASE AllocDone \/ AllocFail
  <2>1. PICK v \in {"running", "waiting"} : status' = [status EXCEPT ![cur] = v]
    BY <1>3 DEF AllocDone, AllocFail
  <2>2. /\ status'[cur] = v /\ pc' = "idle" /\ status[cur] = "admitted"
        /\ \A r \in Req \ {cur} : status'[r] = status[r]
    BY <1>1, <1>3, <2>1, ListTypes DEF AllocDone, AllocFail, IInv, CoreInv, ControlInv
  <2>3. cur \in ToSet(prefilling) \ ToSet(todo)
    BY <1>1 DEF ListsInv, CallInv
  <2>4. cur \notin ToSet(waiting) /\ cur \notin ToSet(running) /\ cur \in arrived
    <3>1. ToSet(prefilling) \cap ToSet(running) = {}
      BY <1>1 DEF ListsInv, InitInv
    <3>. QED  BY <2>3, <3>1 DEF ListsInv, QueueInv
  <2>5. QueueInv'
    <3>1. {r \in Req : status'[r] = "finished"} = {r \in Req : status[r] = "finished"}
      BY <2>2
    <3>2. Committing' = {} /\ Committing = {}
      BY <1>1, <2>2 DEF Committing
    <3>. QED  BY <1>1, <3>1, <3>2 DEF ListsInv, QueueInv
  <2>6. MemberInv'
    BY <1>1, <2>2, <2>4, ListTypes DEF ListsInv, MemberInv
  <2>7. InitInv'
    BY <1>1, <2>2, <2>3, ListTypes DEF ListsInv, InitInv
  <2>8. CallInv' /\ AdmitInv' /\ FirstInv' /\ DecodeInv'
    BY <1>1, <2>2 DEF CallInv, AdmitInv, FirstInv, DecodeInv
  <2>. QED  BY <2>5, <2>6, <2>7, <2>8 DEF ListsInv
<1>. QED  BY <1>2, <1>3 DEF AllocateStep

\* A flagged request waits for the end of the loop.
LEMMA RetractLists ==
    ASSUME ServingTypeOK, IInv, ListsInv, Retract
    PROVE  ListsInv'
<1>. DEFINE h == Head(todo)
<1>1. /\ phase = "first token" /\ todo # << >> /\ status[h] = "waiting"
      /\ retracted' = Append(retracted, h) /\ todo' = Tail(todo) /\ pc = "idle"
      /\ UNCHANGED <<status, pc, cur, waiting, prefilling, running, arrived, phase>>
  BY DEF Retract, lists, vars
<1>2. /\ h \in Req /\ ToSet(todo) = {h} \cup ToSet(todo')
      /\ IsInjective(todo') /\ h \notin ToSet(todo')
  BY <1>1, NextTodo
<1>. HIDE DEF h
<1>3. h \notin ToSet(retracted)
  BY <1>1, <1>2 DEF ListsInv, FirstInv
<1>4. IsInjective(retracted') /\ ToSet(retracted') = ToSet(retracted) \cup {h}
  <2>1. retracted \in Seq(Req) /\ IsInjective(retracted) /\ h \in Req
    BY <1>2, ListTypes DEF ListsInv, QueueInv
  <2>2. /\ IsInjective(Append(retracted, h))
        /\ ToSet(Append(retracted, h)) = ToSet(retracted) \cup {h}
    BY <1>3, <2>1, Appended
  <2>. QED  BY <1>1, <2>2
<1>5. QueueInv'
  BY <1>1, <1>2, <1>4 DEF ListsInv, QueueInv, Committing
<1>6. MemberInv'
  BY <1>1 DEF ListsInv, MemberInv
<1>7. FirstInv'
  BY <1>1, <1>2, <1>3, <1>4 DEF ListsInv, FirstInv
<1>8. CallInv' /\ AdmitInv' /\ InitInv' /\ DecodeInv'
  BY <1>1 DEF CallInv, AdmitInv, InitInv, DecodeInv
<1>. QED  BY <1>5, <1>6, <1>7, <1>8 DEF ListsInv

\* A token moves no request.
LEMMA SampleLists ==
    ASSUME ServingTypeOK, IInv, ListsInv, FirstToken \/ NextToken
    PROVE  ListsInv'
<1>1. /\ status[Head(todo)] = "running" /\ pc = "idle"
      /\ UNCHANGED <<status, pc, cur, waiting, prefilling, running, arrived, todo, retracted>>
      /\ \/ phase = "first token" /\ phase' = "first check"
         \/ phase = "decode" /\ phase' = "decode check"
  BY DEF FirstToken, NextToken, Sample, Generate, lists
<1>2. QueueInv' /\ MemberInv'
  BY <1>1 DEF ListsInv, QueueInv, MemberInv, Committing
<1>3. CallInv' /\ AdmitInv' /\ InitInv' /\ FirstInv' /\ DecodeInv'
  BY <1>1 DEF ListsInv, CallInv, AdmitInv, InitInv, FirstInv, DecodeInv
<1>. QED  BY <1>2, <1>3 DEF ListsInv

\* _finish_request takes the request out of both lists.
LEMMA FinishLists ==
    ASSUME ServingTypeOK, IInv, ListsInv, FirstFinish \/ NextFinish
    PROVE  ListsInv'
<1>. DEFINE h == Head(todo)
<1>1. /\ pc = "idle" /\ todo # << >> /\ todo' = Tail(todo) /\ status[h] = "running"
      /\ running' = RemoveFirst(running, h) /\ prefilling' = RemoveFirst(prefilling, h)
      /\ UNCHANGED <<waiting, arrived, retracted>>
      /\ \/ phase = "first check" /\ phase' = "first token"
         \/ phase = "decode check" /\ phase' = "decode"
  BY DEF FirstFinish, NextFinish, Finish, Retire, FreeRequestKv, ServingTypeOK
<1>2. \/ status' = status /\ pc' = "insert" /\ cur' = h
      \/ status' = [status EXCEPT ![h] = "finished"] /\ pc' = "idle"
  BY <1>1 DEF FirstFinish, NextFinish, Finish, Retire, FreeRequestKv, reqVars
<1>3. /\ h \in Req /\ ToSet(todo) = {h} \cup ToSet(todo')
      /\ IsInjective(todo') /\ h \notin ToSet(todo')
  BY <1>1, NextTodo
<1>. HIDE DEF h
<1>4. /\ IsInjective(running') /\ ToSet(running') = ToSet(running) \ {h}
      /\ IsInjective(prefilling') /\ ToSet(prefilling') = ToSet(prefilling) \ {h}
  <2>1. /\ running \in Seq(Req) /\ IsInjective(running)
        /\ prefilling \in Seq(Req) /\ IsInjective(prefilling)
    BY ListTypes DEF ListsInv, QueueInv
  <2>2. /\ ToSet(RemoveFirst(running, h)) = ToSet(running) \ {h}
        /\ IsInjective(RemoveFirst(running, h))
    BY <1>3, <2>1, Removed
  <2>3. /\ ToSet(RemoveFirst(prefilling, h)) = ToSet(prefilling) \ {h}
        /\ IsInjective(RemoveFirst(prefilling, h))
    BY <1>3, <2>1, Removed
  <2>. QED  BY <1>1, <2>2, <2>3
<1>5. h \in ToSet(prefilling) \cup ToSet(running) /\ h \in arrived /\ h \notin ToSet(waiting)
  <2>1. h \in ToSet(prefilling) \cup ToSet(running)
    BY <1>1, <1>3 DEF ListsInv, FirstInv, DecodeInv
  <2>. QED  BY <2>1 DEF ListsInv, QueueInv
<1>6. QueueInv'
  <2>1. Committing' \cup {r \in Req : status'[r] = "finished"}
            = {h} \cup {r \in Req : status[r] = "finished"}
        /\ Committing' \subseteq {h} /\ Committing = {}
    BY <1>1, <1>2, <1>3, ListTypes DEF Committing
  <2>2. arrived = ToSet(waiting) \cup ToSet(prefilling) \cup ToSet(running)
                      \cup {r \in Req : status[r] = "finished"}
    BY <2>1 DEF ListsInv, QueueInv
  <2>3. arrived' = ToSet(waiting') \cup ToSet(prefilling') \cup ToSet(running')
                       \cup Committing' \cup {r \in Req : status'[r] = "finished"}
    BY <1>1, <1>4, <1>5, <2>1, <2>2
  <2>4. Committing' \cap (ToSet(waiting') \cup ToSet(prefilling') \cup ToSet(running')) = {}
    BY <1>1, <1>4, <1>5, <2>1
  <2>5. ToSet(waiting') \cap (ToSet(prefilling') \cup ToSet(running')) = {}
    BY <1>1, <1>4 DEF ListsInv, QueueInv
  <2>6. IsInjective(waiting') /\ IsInjective(retracted')
    BY <1>1 DEF ListsInv, QueueInv
  <2>. QED  BY <1>3, <1>4, <2>3, <2>4, <2>5, <2>6 DEF QueueInv
<1>7. \A r \in Req \ {h} : status'[r] = status[r]
  BY <1>2, <1>3, ListTypes
<1>8. MemberInv'
  BY <1>1, <1>4, <1>5, <1>7, ListTypes DEF ListsInv, MemberInv
<1>9. FirstInv'
  BY <1>1, <1>3, <1>4, <1>7, ListTypes DEF ListsInv, FirstInv
<1>10. DecodeInv'
  <2>1. RemoveFirst(<< >>, h) = << >>
    <3>1. << >> \in Seq(Req) /\ Len(<< >>) = 0
      BY EmptySeq
    <3>. QED  BY <3>1 DEF RemoveFirst
  <2>. QED  BY <1>1, <1>3, <1>4, <2>1 DEF ListsInv, DecodeInv
<1>11. CallInv' /\ AdmitInv' /\ InitInv'
  BY <1>1, <1>2 DEF CallInv, AdmitInv, InitInv
<1>. QED  BY <1>6, <1>8, <1>9, <1>10, <1>11 DEF ListsInv

\* A request with its first token joins running, and stays in prefilling until the
\* loop ends.
LEMMA FirstKeepLists ==
    ASSUME ServingTypeOK, IInv, ListsInv, FirstKeep
    PROVE  ListsInv'
<1>. DEFINE h == Head(todo)
<1>1. /\ phase = "first check" /\ phase' = "first token" /\ todo # << >>
      /\ running' = Append(running, h) /\ todo' = Tail(todo)
      /\ UNCHANGED <<status, pc, cur, waiting, prefilling, arrived, retracted>>
  BY DEF FirstKeep, vars, ServingTypeOK
<1>2. /\ h \in Req /\ ToSet(todo) = {h} \cup ToSet(todo')
      /\ IsInjective(todo') /\ h \notin ToSet(todo')
  BY <1>1, NextTodo
<1>3. status[h] = "running" /\ h \in ToSet(prefilling) /\ h \notin ToSet(running)
  BY <1>1, <1>2 DEF ListsInv, FirstInv
<1>. HIDE DEF h
<1>4. IsInjective(running') /\ ToSet(running') = ToSet(running) \cup {h}
  <2>1. running \in Seq(Req) /\ IsInjective(running) /\ h \in Req
    BY <1>2, ListTypes DEF ListsInv, QueueInv
  <2>2. /\ IsInjective(Append(running, h))
        /\ ToSet(Append(running, h)) = ToSet(running) \cup {h}
    BY <1>3, <2>1, Appended
  <2>. QED  BY <1>1, <2>2
<1>5. QueueInv'
  <2>1. Committing' = Committing /\ h \in ToSet(prefilling)
    BY <1>1, <1>3 DEF Committing
  <2>2. ToSet(prefilling') \cup ToSet(running') = ToSet(prefilling) \cup ToSet(running)
    BY <1>1, <1>3, <1>4
  <2>3. /\ IsInjective(waiting') /\ IsInjective(prefilling') /\ IsInjective(running')
        /\ IsInjective(todo') /\ IsInjective(retracted')
    BY <1>1, <1>2, <1>4 DEF ListsInv, QueueInv
  <2>4. /\ ToSet(waiting') \cap (ToSet(prefilling') \cup ToSet(running')) = {}
        /\ Committing' \cap (ToSet(waiting') \cup ToSet(prefilling') \cup ToSet(running')) = {}
    BY <1>1, <2>1, <2>2 DEF ListsInv, QueueInv
  <2>5. arrived' = ToSet(waiting') \cup ToSet(prefilling') \cup ToSet(running') \cup Committing'
                      \cup {r \in Req : status'[r] = "finished"}
    BY <1>1, <2>1, <2>2 DEF ListsInv, QueueInv
  <2>. QED  BY <2>3, <2>4, <2>5 DEF QueueInv
<1>6. MemberInv'
  BY <1>1, <1>3, <1>4 DEF ListsInv, MemberInv
<1>7. FirstInv'
  BY <1>1, <1>2, <1>3, <1>4 DEF ListsInv, FirstInv
<1>8. CallInv' /\ AdmitInv' /\ InitInv' /\ DecodeInv'
  BY <1>1 DEF ListsInv, CallInv, AdmitInv, InitInv, DecodeInv
<1>. QED  BY <1>5, <1>6, <1>7, <1>8 DEF ListsInv

\* The retracted requests go to the front of the queue, and prefilling is empty.
LEMMA FirstEndLists ==
    ASSUME ServingTypeOK, IInv, ListsInv, FirstEnd
    PROVE  ListsInv'
<1>1. /\ phase = "first token" /\ phase' = "decode" /\ todo = << >> /\ todo' = running
      /\ prefilling' = << >> /\ retracted' = << >> /\ waiting' = retracted \o waiting
      /\ pc = "idle" /\ UNCHANGED <<status, pc, cur, running, arrived>>
  BY DEF FirstEnd, vars
<1>2. ToSet(<< >>) = {} /\ IsInjective(<< >>)
  BY ShortLists
<1>3. /\ ToSet(retracted) \subseteq ToSet(prefilling)
      /\ ToSet(prefilling) \subseteq ToSet(retracted) \cup ToSet(running)
      /\ \A r \in ToSet(retracted) : status[r] = "waiting"
  BY <1>1, <1>2 DEF ListsInv, FirstInv
<1>4. ToSet(retracted) \cap ToSet(running) = {}
  BY <1>3 DEF ListsInv, MemberInv
<1>5. IsInjective(waiting') /\ ToSet(waiting') = ToSet(retracted) \cup ToSet(waiting)
  <2>1. /\ retracted \in Seq(Req) /\ IsInjective(retracted)
        /\ waiting \in Seq(Req) /\ IsInjective(waiting)
    BY ListTypes DEF ListsInv, QueueInv
  <2>2. ToSet(retracted) \cap ToSet(waiting) = {}
    BY <1>3 DEF ListsInv, QueueInv
  <2>3. /\ IsInjective(retracted \o waiting)
        /\ ToSet(retracted \o waiting) = ToSet(retracted) \cup ToSet(waiting)
    BY <2>1, <2>2, Joined
  <2>. QED  BY <1>1, <2>3
<1>6. QueueInv'
  <2>1. ToSet(waiting') \cup ToSet(running) =
            ToSet(waiting) \cup ToSet(prefilling) \cup ToSet(running)
    BY <1>3, <1>5
  <2>2. Committing' = {} /\ Committing = {}
    BY <1>1 DEF Committing
  <2>. QED  BY <1>1, <1>2, <1>4, <1>5, <2>1, <2>2 DEF ListsInv, QueueInv
<1>7. MemberInv'
  BY <1>1, <1>2, <1>3, <1>5 DEF ListsInv, MemberInv
<1>8. CallInv' /\ AdmitInv' /\ InitInv' /\ FirstInv' /\ DecodeInv'
  BY <1>1 DEF CallInv, AdmitInv, InitInv, FirstInv, DecodeInv
<1>. QED  BY <1>6, <1>7, <1>8 DEF ListsInv

\* A request that goes on decoding stays where it is.
LEMMA NextKeepLists ==
    ASSUME ServingTypeOK, IInv, ListsInv, NextKeep
    PROVE  ListsInv'
<1>1. /\ phase = "decode check" /\ phase' = "decode" /\ todo # << >> /\ todo' = Tail(todo)
      /\ UNCHANGED <<status, pc, cur, waiting, prefilling, running, arrived, retracted>>
  BY DEF NextKeep, vars, lists, ServingTypeOK
<1>2. ToSet(todo') \subseteq ToSet(todo) /\ IsInjective(todo')
  BY <1>1, NextTodo
<1>3. QueueInv' /\ MemberInv'
  BY <1>1, <1>2 DEF ListsInv, QueueInv, MemberInv, Committing
<1>4. CallInv' /\ AdmitInv' /\ InitInv' /\ FirstInv' /\ DecodeInv'
  BY <1>1, <1>2 DEF ListsInv, CallInv, AdmitInv, InitInv, FirstInv, DecodeInv
<1>. QED  BY <1>3, <1>4 DEF ListsInv

\* The commit of a request that is in no list, until it is finished.
LEMMA CommitLists ==
    ASSUME ServingTypeOK, IInv, ListsInv, CommitStep
    PROVE  ListsInv'
<1>1. /\ UNCHANGED <<waiting, prefilling, running, arrived, phase, todo, retracted>>
      /\ pc = "insert" /\ cur \in Req
  BY DEF CommitStep, lists, CommitLeaf, CommitFullEdge, CommitSplit, CommitEnd, Inserting,
         IInv, ControlInv
<1>2. CASE UNCHANGED <<status, pc, cur>>
  BY <1>1, <1>2 DEF ListsInv, QueueInv, MemberInv, Committing, CallInv, AdmitInv,
                    InitInv, FirstInv, DecodeInv
<1>3. CASE status' = [status EXCEPT ![cur] = "finished"] /\ pc' = "idle"
  <2>1. /\ status'[cur] = "finished" /\ \A r \in Req \ {cur} : status'[r] = status[r]
        /\ Committing = {cur} /\ Committing' = {}
    BY <1>1, <1>3, ListTypes DEF Committing
  <2>2. /\ cur \notin ToSet(waiting) /\ cur \notin ToSet(prefilling) /\ cur \notin ToSet(running)
        /\ cur \in arrived
    BY <2>1 DEF ListsInv, QueueInv
  <2>3. QueueInv'
    <3>1. {r \in Req : status'[r] = "finished"} = {cur} \cup {r \in Req : status[r] = "finished"}
      BY <1>1, <2>1
    <3>. QED  BY <1>1, <2>1, <2>2, <3>1 DEF ListsInv, QueueInv
  <2>4. MemberInv'
    BY <1>1, <2>1, <2>2, ListTypes DEF ListsInv, MemberInv
  <2>5. phase \in {"first token", "decode"}
    BY <1>1 DEF ListsInv, CallInv
  <2>6. FirstInv'
    BY <1>1, <2>1, <2>2, <2>5, ListTypes DEF ListsInv, FirstInv
  <2>7. CallInv' /\ AdmitInv' /\ InitInv' /\ DecodeInv'
    BY <1>1, <1>3, <2>5 DEF ListsInv, CallInv, AdmitInv, InitInv, DecodeInv
  <2>. QED  BY <2>3, <2>4, <2>6, <2>7 DEF ListsInv
<1>. QED  BY <1>2, <1>3 DEF CommitStep, CommitLeaf, CommitFullEdge, CommitSplit, CommitEnd, reqVars

-----------------------------------------------------------------------------
\* The lists, one step per action.
LEMMA ListsInvInductive ==
    ServingTypeOK /\ IInv /\ ListsInv /\ [ServingNext]_servingVars => ListsInv'
<1>. SUFFICES ASSUME ServingTypeOK, IInv, ListsInv, [ServingNext]_servingVars
              PROVE  ListsInv'
  OBVIOUS
<1>1. ASSUME NEW r \in Req, AddRequest(r) PROVE ListsInv'
  BY <1>1, AddRequestLists
<1>2. CASE AdmitHead
  BY <1>2, AdmitHeadLists
<1>3. CASE AdmitEnd \/ InitEnd \/ StepEnd
  BY <1>3, BetweenLoops
<1>4. CASE InitNext
  BY <1>4, InitNextLists
<1>5. CASE AllocateStep
  BY <1>5, AllocateLists
<1>6. CASE Retract
  BY <1>6, RetractLists
<1>7. CASE FirstToken \/ NextToken
  BY <1>7, SampleLists
<1>8. CASE FirstFinish \/ NextFinish
  BY <1>8, FinishLists
<1>9. CASE FirstKeep
  BY <1>9, FirstKeepLists
<1>10. CASE FirstEnd
  BY <1>10, FirstEndLists
<1>11. CASE NextKeep
  BY <1>11, NextKeepLists
<1>12. CASE CommitStep
  BY <1>12, CommitLists
<1>13. CASE UNCHANGED servingVars
  BY <1>13 DEF servingVars, vars, lists, ListsInv, QueueInv, MemberInv, Committing, CallInv,
               AdmitInv, InitInv, FirstInv, DecodeInv
<1>. QED
  BY <1>1, <1>2, <1>3, <1>4, <1>5, <1>6, <1>7, <1>8, <1>9, <1>10, <1>11, <1>12, <1>13
     DEF ServingNext, ThreadStep

\* What the invariant says about the lists between two steps.
LEMMA ListsInvImplies ==
    ServingTypeOK /\ IInv /\ ListsInv => ListsMatchStatus
<1>. SUFFICES ASSUME ServingTypeOK, IInv, ListsInv
              PROVE  ListsMatchStatus
  OBVIOUS
<1>1. \A r \in ToSet(running) : status[r] = "running"
  BY DEF ListsInv, MemberInv
<1>2. ASSUME phase = "admit"
      PROVE  /\ arrived = ToSet(waiting \o prefilling \o running)
                              \cup {r \in Req : status[r] = "finished"}
             /\ IsInjective(waiting \o prefilling \o running)
             /\ \A r \in ToSet(waiting) : status[r] = "waiting"
             /\ \A r \in ToSet(prefilling) : status[r] = "admitted"
  <2>. DEFINE wp == waiting \o prefilling
  <2>1. /\ waiting \in Seq(Req) /\ prefilling \in Seq(Req) /\ running \in Seq(Req)
        /\ IsInjective(waiting) /\ IsInjective(prefilling) /\ IsInjective(running)
        /\ ToSet(waiting) \cap (ToSet(prefilling) \cup ToSet(running)) = {}
    BY ListTypes DEF ListsInv, QueueInv
  <2>2. ToSet(prefilling) \cap ToSet(running) = {}
    BY <1>2 DEF ListsInv, AdmitInv
  <2>3. /\ wp \in Seq(Req) /\ IsInjective(wp)
        /\ ToSet(wp) = ToSet(waiting) \cup ToSet(prefilling)
    <3>1. ToSet(waiting) \cap ToSet(prefilling) = {}
      BY <2>1
    <3>. QED  BY <2>1, <3>1, Joined
  <2>. HIDE DEF wp
  <2>4. /\ IsInjective(wp \o running)
        /\ ToSet(wp \o running) = ToSet(wp) \cup ToSet(running)
    <3>1. ToSet(wp) \cap ToSet(running) = {}
      BY <2>1, <2>2, <2>3
    <3>. QED  BY <2>1, <2>3, <3>1, Joined
  <2>5. Committing = {}
    BY <1>2 DEF ListsInv, CallInv, Committing
  <2>6. arrived = ToSet(wp \o running) \cup {r \in Req : status[r] = "finished"}
    BY <2>3, <2>4, <2>5 DEF ListsInv, QueueInv
  <2>. QED  BY <1>2, <2>4, <2>6 DEF wp, ListsInv, MemberInv, AdmitInv
<1>. QED  BY <1>1, <1>2 DEF ListsMatchStatus

\* No finished request is left among those that decode, although requests finish
\* while the loops go through the lists; and between two steps every request that
\* arrived is finished or in exactly one list, the one of its status: no admission,
\* retraction or commit loses a request or names it twice.
THEOREM ListsAlwaysMatchStatus == ServingSpec => []ListsMatchStatus
<1>1. ServingInit => ListsInv
  <2>. SUFFICES ASSUME ServingInit PROVE ListsInv
    OBVIOUS
  <2>1. /\ ToSet(<< >>) = {} /\ IsInjective(<< >>)
    BY ShortLists
  <2>. QED  BY <2>1 DEF ServingInit, Init, ListsInv, QueueInv, MemberInv, Committing, CallInv,
                        AdmitInv, InitInv, FirstInv, DecodeInv
<1>2. Spec => []IInv
  BY InitIInv, InvariantIsInductive, PTL DEF Spec
<1>3. ServingSpec => []IInv
  BY ServingImplementsEngine, <1>2, PTL
<1>. QED
  BY <1>1, <1>3, ServingTypeCorrect, ListsInvInductive, ListsInvImplies, PTL DEF ServingSpec
=============================================================================
