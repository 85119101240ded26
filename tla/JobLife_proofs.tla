--------------------------- MODULE JobLife_proofs ---------------------------
(***************************************************************************)
(* The proof that the send jobs (Jobs) implement the life of a job         *)
(* (JobLife): every step of the code is a step of the abstract             *)
(* specification, or none that others see.                                 *)
(***************************************************************************)
EXTENDS Jobs_proofs, FiniteSetTheorems

Lives == [j \in Job |-> LifeOf(j)]

Out == {j \in Job : Ended(j)}

(* The history is never longer than its limit, so that creating a job,     *)
(* which prunes it, finds nothing to prune.                                *)
HistoryFits == \A j \in Out : Cardinality({k \in Out : k > j}) < History

LifeInv == CallInv /\ ForgottenStaysForgotten /\ HistoryFits

-----------------------------------------------------------------------------
LEMMA Fewer ==
  ASSUME NEW S, NEW T \in SUBSET Job, S \subseteq T
  PROVE  /\ Cardinality(S) \in Nat /\ Cardinality(T) \in Nat
         /\ Cardinality(S) <= Cardinality(T)
<1>1. IsFiniteSet(Job)
  BY ConstantsAssumption, FS_Interval DEF Job
<1>2. IsFiniteSet(T)
  BY <1>1, FS_Subset
<1>3. IsFiniteSet(S) /\ Cardinality(S) <= Cardinality(T)
  BY <1>2, FS_Subset
<1> QED  BY <1>2, <1>3, FS_CardinalityType

(* Jobs that leave make room.                                              *)
LEMMA FitsLess ==
  ASSUME HistoryFits, Out' \subseteq Out
  PROVE  HistoryFits'
<1> SUFFICES ASSUME NEW j \in Out'
             PROVE  Cardinality({k \in Out' : k > j}) < History
  BY DEF HistoryFits
<1>1. {k \in Out' : k > j} \subseteq {k \in Out : k > j} /\ {k \in Out : k > j} \in SUBSET Job
  BY DEF Out
<1>2. Cardinality({k \in Out : k > j}) < History
  BY DEF HistoryFits
<1>3. /\ Cardinality({k \in Out' : k > j}) <= Cardinality({k \in Out : k > j})
      /\ Cardinality({k \in Out' : k > j}) \in Nat
      /\ Cardinality({k \in Out : k > j}) \in Nat
  BY <1>1, Fewer
<1> QED  BY <1>2, <1>3, ConstantsAssumption

(* Pruning leaves as many as fit.                                          *)
LEMMA FitsEnter ==
  ASSUME status \in [Job -> Status], NEW j \in Job, NEW s \in Active \cup Terminal,
         NEW att, NEW res, Enter(j, s, att, res)
  PROVE  HistoryFits'
<1> DEFINE st == [status EXCEPT ![j] = s]
<1> DEFINE T == {k \in Job : st[k] \in Terminal}
<1>1. Pruned(st) = {i \in Job : i \in T => Cardinality({k \in T : k > i}) < History}
  BY DEF Pruned
<1>2. status' = [k \in Job |-> IF k \in Pruned(st) THEN st[k] ELSE "absent"]
  BY DEF Enter, Keep
<1>3. "absent" \notin Terminal
  BY DEF Terminal
<1> HIDE DEF st
<1>4. Out' = {i \in T : Cardinality({k \in T : k > i}) < History}
  BY <1>1, <1>2, <1>3 DEF Out, Ended
<1> SUFFICES ASSUME NEW i \in Out'
             PROVE  Cardinality({k \in Out' : k > i}) < History
  BY DEF HistoryFits
<1>5. Cardinality({k \in T : k > i}) < History
  BY <1>4
<1>6. {k \in Out' : k > i} \subseteq {k \in T : k > i} /\ {k \in T : k > i} \in SUBSET Job
  BY <1>4
<1> HIDE DEF T
<1>7. /\ Cardinality({k \in Out' : k > i}) <= Cardinality({k \in T : k > i})
      /\ Cardinality({k \in Out' : k > i}) \in Nat
      /\ Cardinality({k \in T : k > i}) \in Nat
  BY <1>6, Fewer
<1> QED  BY <1>5, <1>7, ConstantsAssumption

(* A restart reads no more sidecars than fit.                              *)
LEMMA FitsRestart ==
  ASSUME TypeOK, NEW jobs \in SUBSET Job, Restart(jobs)
  PROVE  HistoryFits'
<1>1. Out' \subseteq jobs
  <2>1. Listed' = jobs
    BY RestartMove
  <2> QED  BY <2>1 DEF Out, Listed, Ended, Terminal
<1>2. Cardinality(jobs) <= History
  <2>1. Recent(jobs)
    BY DEF Restart
  <2>2. CASE jobs = Written /\ Cardinality(Written) <= History
    BY <2>2
  <2>3. CASE Cardinality(jobs) = History
    BY <2>3, ConstantsAssumption
  <2> QED  BY <2>1, <2>2, <2>3 DEF Recent
<1> SUFFICES ASSUME NEW i \in Out'
             PROVE  Cardinality({k \in Out' : k > i}) < History
  BY DEF HistoryFits
<1>3. {k \in Out' : k > i} \subseteq jobs \ {i} /\ i \in jobs /\ i \in Job
  <2>1. i \in jobs /\ i \in Job
    BY <1>1
  <2>2. ~(i > i)
    BY <2>1, ConstantsAssumption DEF Job
  <2> QED  BY <1>1, <2>1, <2>2
<1>4. /\ Cardinality({k \in Out' : k > i}) <= Cardinality(jobs \ {i})
      /\ Cardinality({k \in Out' : k > i}) \in Nat
      /\ Cardinality(jobs \ {i}) \in Nat
  BY <1>3, Fewer
<1>5. IsFiniteSet(jobs) /\ Cardinality(jobs) \in Nat
  <2>1. IsFiniteSet(Job)
    BY ConstantsAssumption, FS_Interval DEF Job
  <2>2. IsFiniteSet(jobs)
    BY <2>1, FS_Subset
  <2> QED  BY <2>2, FS_CardinalityType
<1>6. Cardinality(jobs \ {i}) = Cardinality(jobs) - 1
  BY <1>3, <1>5, FS_RemoveElement
<1> QED  BY <1>2, <1>4, <1>5, <1>6, ConstantsAssumption

(* The steps that others may see; no other one touches the status.         *)
Seen ==
  \/ \E j \in Job, f \in File, d \in Dir, r \in Run, saved \in BOOLEAN :
       Create(j, f, d, r, saved)
  \/ \E j \in Job, r \in Run, saved \in BOOLEAN : Resume(j, r, saved)
  \/ \E j \in Job, saved \in BOOLEAN : Cancel(j, saved)
  \/ \E j \in Job : Forget(j)
  \/ \E r \in Run, saved \in BOOLEAN : Finish(r, saved)
  \/ \E jobs \in SUBSET Job : Restart(jobs)

Unseen == UNCHANGED <<created, forgotten, status>>

LEMMA SeenOrNot ==
  ASSUME [Next]_vars
  PROVE  Seen \/ Unseen
<1>1. ASSUME NEW j \in Job, NEW saved \in BOOLEAN, Emit(j, saved) PROVE Unseen
  BY <1>1 DEF Emit, Unseen, request
<1>2. ASSUME NEW j \in Job, ForgetFails(j) PROVE Unseen
  BY <1>2 DEF ForgetFails, Unseen, request, details
<1>3. ASSUME NEW r \in Run, Open(r) \/ OpenFails(r) PROVE Unseen
  BY <1>3 DEF Open, OpenFails, Unseen, request, details
<1>4. ASSUME NEW r \in Run, NEW c \in Chunk, NEW saved \in BOOLEAN, Deliver(r, c, saved)
      PROVE  Unseen
  BY <1>4 DEF Deliver, Unseen, request, details
<1>5. ASSUME NEW r \in Run, NEW saved \in BOOLEAN, Returning(r, saved) PROVE Unseen
  BY <1>5 DEF Returning, ReturnOk, ReturnCanceled, ReturnFailed, Return, Unseen,
              request, details
<1>6. ASSUME NEW r \in Run, NEW saved \in BOOLEAN, SetManifest(r, saved) PROVE Unseen
  BY <1>6 DEF SetManifest, Unseen, request
<1>7. ASSUME NEW r \in Run, NEW saved \in BOOLEAN, Clean(r, saved) PROVE Unseen
  BY <1>7 DEF Clean, Unseen, request, details
<1>8. ASSUME NEW f \in File, Lose(f) PROVE Unseen
  BY <1>8 DEF Lose, Unseen, request, details
<1>9. CASE UNCHANGED vars
  BY <1>9 DEF vars, Unseen, request, details
<1> QED
  BY <1>1, <1>2, <1>3, <1>4, <1>5, <1>6, <1>7, <1>8, <1>9, Steps DEF Seen

LEMMA FitsStep ==
  ASSUME TypeOK, HistoryFits, [Next]_vars
  PROVE  HistoryFits'
<1>0. status \in [Job -> Status]
  BY Types
<1>1. ASSUME UNCHANGED status PROVE HistoryFits'
  BY <1>1, FitsLess DEF Out, Ended
<1>2. ASSUME NEW j \in Job, NEW f \in File, NEW d \in Dir, NEW r \in Run,
             NEW saved \in BOOLEAN, Create(j, f, d, r, saved)
      PROVE  HistoryFits'
  <2>1. Enter(j, "running", attached, resumable \cup {j}) /\ "running" \in Active
    BY <1>2 DEF Create, Enter, Active
  <2> QED  BY <1>0, <2>1, FitsEnter
<1>3. ASSUME NEW j \in Job, NEW s \in Active, status' = [status EXCEPT ![j] = s]
      PROVE  HistoryFits'
  <2>1. Out' \subseteq Out
    BY <1>0, <1>3 DEF Out, Ended, Active, Terminal
  <2> QED  BY <2>1, FitsLess
<1>4. ASSUME NEW j \in Job, NEW r \in Run, NEW saved \in BOOLEAN, Resume(j, r, saved)
      PROVE  HistoryFits'
  BY <1>3, <1>4 DEF Resume, Active
<1>5. ASSUME NEW j \in Job, NEW saved \in BOOLEAN, Cancel(j, saved) PROVE HistoryFits'
  BY <1>3, <1>5 DEF Cancel, Active
<1>6. ASSUME NEW j \in Job, Forget(j) PROVE HistoryFits'
  <2>1. status' = [k \in Job |-> IF k \in Job \ {j} THEN status[k] ELSE "absent"]
    BY <1>6 DEF Forget, Keep
  <2>2. Out' \subseteq Out
    BY <2>1 DEF Out, Ended, Terminal
  <2> QED  BY <2>2, FitsLess
<1>7. ASSUME NEW r \in Run, NEW saved \in BOOLEAN, Finish(r, saved)
      PROVE  HistoryFits'
  <2>1. CASE JobOf[r] \in Listed
    <3>1. /\ Enter(JobOf[r], Outcome(r), attached, resumable)
          /\ at[r] \in {"failed", "canceled", "finish"}
      BY <1>7, <2>1 DEF Finish, FinishJob, MayFinish, Enter
    <3>2. Outcome(r) \in Terminal /\ JobOf[r] \in Job
      BY <2>1, <3>1 DEF Outcome, Terminal, Listed
    <3> QED  BY <1>0, <3>1, <3>2, FitsEnter
  <2>2. CASE JobOf[r] \notin Listed
    BY <1>1, <1>7, <2>2, FinishGone DEF details
  <2> QED  BY <2>1, <2>2
<1>8. CASE Unseen
  BY <1>1, <1>8 DEF Unseen
<1>9. ASSUME NEW jobs \in SUBSET Job, Restart(jobs) PROVE HistoryFits'
  BY <1>9, FitsRestart
<1>10. CASE Seen
  BY <1>2, <1>6, <1>7, <1>10, <1>9, <1>4, <1>5 DEF Seen
<1> QED  BY <1>8, <1>10, SeenOrNot

-----------------------------------------------------------------------------
(* The refinement mapping.                                                 *)

(* A job gets another life, and no other job does.                         *)
LEMMA LifeBecomes ==
  ASSUME NEW j \in Job, NEW s, LifeOf(j)' = s,
         \A k \in Job \ {j} : LifeOf(k)' = LifeOf(k)
  PROVE  Life!Becomes(j, s)
BY DEF Life!Becomes

LEMMA LifeSame ==
  ASSUME Unseen
  PROVE  UNCHANGED Lives
BY DEF Unseen, Lives, LifeOf

LEMMA LifeListed ==
  ASSUME TypeOK, ForgottenStaysForgotten, NEW j \in Listed
  PROVE  j \in Job /\ j <= created /\ j \notin forgotten /\ LifeOf(j) = status[j]
<1>1. j \in Job /\ j \in 1..created /\ created \in Nat
  BY ConstantsAssumption DEF Listed, TypeOK
<1>2. j \notin forgotten
  BY DEF ForgottenStaysForgotten
<1> QED  BY <1>1, <1>2 DEF LifeOf

(* Only pruning changes the life of a job on which nothing is done.        *)
LEMMA LifeOther ==
  ASSUME TypeOK, NEW k \in Job, UNCHANGED <<created, forgotten>>,
         status'[k] = status[k] \/ (status[k] \in Terminal /\ status'[k] = "absent")
  PROVE  LifeOf(k)' = LifeOf(k) \/ Life!Pruned(k)
<1>1. CASE k > created \/ k \in forgotten
  BY <1>1 DEF LifeOf
<1>2. CASE ~(k > created) /\ k \notin forgotten
  <2>1. LifeOf(k) = status[k] /\ LifeOf(k)' = status'[k]
    BY <1>2 DEF LifeOf
  <2>2. Terminal = Life!Ended
    BY DEF Terminal, Life!Ended
  <2> QED  BY <2>1, <2>2 DEF Life!Pruned
<1> QED  BY <1>1, <1>2

LEMMA LifeInit == Init => Life!Init
<1> SUFFICES ASSUME Init PROVE Life!Init
  OBVIOUS
<1>1. \A j \in Job : LifeOf(j) = "new"
  BY ConstantsAssumption DEF Init, LifeOf, Job
<1> QED  BY <1>1 DEF Life!Init

LEMMA LifeResume ==
  ASSUME TypeOK, LifeInv, NEW j \in Job, NEW r \in Run, NEW saved \in BOOLEAN,
         Resume(j, r, saved)
  PROVE  Life!Resume(j)
<1>1. /\ j \in Listed /\ status[j] \in {"canceled", "failed"}
      /\ status' = [status EXCEPT ![j] = "running"]
      /\ UNCHANGED <<created, forgotten>>
  BY DEF Resume, MayResume, request
<1>2. LifeOf(j) = status[j] /\ j <= created /\ j \notin forgotten
  BY <1>1, LifeListed DEF LifeInv
<1>3. status'[j] = "running" /\ \A k \in Job \ {j} : status'[k] = status[k]
  BY <1>1, Types
<1>4. LifeOf(j)' = "running"
  BY <1>1, <1>2, <1>3, ConstantsAssumption DEF LifeOf, TypeOK, Job
<1>5. \A k \in Job \ {j} : LifeOf(k)' = LifeOf(k)
  BY <1>1, <1>3 DEF LifeOf
<1>6. Life!Becomes(j, "running")
  BY <1>4, <1>5, LifeBecomes
<1> QED  BY <1>1, <1>2, <1>6 DEF Life!Resume

LEMMA LifeCancel ==
  ASSUME TypeOK, LifeInv, NEW j \in Job, NEW saved \in BOOLEAN, Cancel(j, saved)
  PROVE  Life!Cancel(j)
<1>1. /\ j \in Listed /\ ~Ended(j)
      /\ status' = [status EXCEPT ![j] = "canceling"]
      /\ UNCHANGED <<created, forgotten>>
  BY DEF Cancel, request
<1>2. LifeOf(j) = status[j] /\ j <= created /\ j \notin forgotten
  BY <1>1, LifeListed DEF LifeInv
<1>3. status'[j] = "canceling" /\ \A k \in Job \ {j} : status'[k] = status[k]
  BY <1>1, Types
<1>4. LifeOf(j)' = "canceling"
  BY <1>1, <1>2, <1>3, ConstantsAssumption DEF LifeOf, TypeOK, Job
<1>5. \A k \in Job \ {j} : LifeOf(k)' = LifeOf(k)
  BY <1>1, <1>3 DEF LifeOf
<1>6. Life!Becomes(j, "canceling")
  BY <1>4, <1>5, LifeBecomes
<1>7. status[j] \in Life!Active
  BY <1>1, Types DEF Listed, Ended, Status, Active, Terminal, Life!Active
<1> QED  BY <1>2, <1>6, <1>7 DEF Life!Cancel

LEMMA LifeForget ==
  ASSUME TypeOK, LifeInv, NEW j \in Job, Forget(j)
  PROVE  Life!Forget(j)
<1>1. /\ j \in Listed /\ Ended(j)
      /\ forgotten' = forgotten \cup {j} /\ UNCHANGED created
      /\ \A k \in Job \ {j} : status'[k] = status[k]
  BY DEF Forget, Keep, request
<1>2. LifeOf(j) = status[j] /\ j <= created /\ created \in Nat
  BY <1>1, LifeListed, ConstantsAssumption DEF LifeInv, TypeOK
<1>3. LifeOf(j)' = "gone"
  BY <1>1, <1>2 DEF LifeOf, Job
<1>4. \A k \in Job \ {j} : LifeOf(k)' = LifeOf(k)
  BY <1>1 DEF LifeOf
<1>5. Life!Becomes(j, "gone")
  BY <1>3, <1>4, LifeBecomes
<1> QED  BY <1>1, <1>2, <1>5 DEF Life!Forget, Ended, Terminal, Life!Ended

(* Creating a job prunes nothing.                                          *)
LEMMA LifeCreate ==
  ASSUME TypeOK, LifeInv, NEW j \in Job, NEW f \in File, NEW d \in Dir, NEW r \in Run,
         NEW saved \in BOOLEAN, Create(j, f, d, r, saved)
  PROVE  Life!Create(j)
<1> DEFINE st == [status EXCEPT ![j] = "running"]
<1>1. /\ j = created + 1 /\ created' = j /\ created \in Nat
      /\ status[j] = "absent" /\ status'[j] = "running"
      /\ UNCHANGED forgotten
  <2>1. created \in Nat
    BY ConstantsAssumption DEF TypeOK
  <2> QED  BY <2>1, CreateMove
<1>2. \A k \in Job : st[k] \in Terminal <=> k \in Out
  BY <1>1, Types DEF Out, Ended, Terminal
<1>3. st[j] = "running" /\ \A k \in Job \ {j} : st[k] = status[k]
  BY Types
<1>4. status' = [k \in Job |-> IF k \in Pruned(st) THEN st[k] ELSE "absent"]
  BY DEF Create, Keep
<1> HIDE DEF st
<1>5. {k \in Job : st[k] \in Terminal} = Out
  BY <1>2 DEF Out
<1>6. Pruned(st) = Job
  BY <1>5 DEF Pruned, LifeInv, HistoryFits
<1>7. \A k \in Job \ {j} : status'[k] = status[k]
  BY <1>3, <1>4, <1>6
<1>8. j \notin forgotten
  BY <1>1 DEF TypeOK
<1>9. LifeOf(j) = "new" /\ LifeOf(j)' = "running"
  BY <1>1, <1>8 DEF LifeOf
<1>10. \A k \in Job \ {j} : LifeOf(k)' = LifeOf(k)
  <2> TAKE k \in Job \ {j}
  <2>1. k > created <=> k > created'
    BY <1>1, ConstantsAssumption DEF Job
  <2> QED  BY <1>1, <1>7, <2>1 DEF LifeOf
<1>11. Life!Becomes(j, "running")
  BY <1>9, <1>10, LifeBecomes
<1> QED  BY <1>9, <1>11 DEF Life!Create

LivesShaped == Lives \in [Job -> Life!Lives]

LEMMA LivesTyped == TypeOK => LivesShaped
<1> SUFFICES ASSUME TypeOK, NEW j \in Job PROVE LifeOf(j) \in Life!Lives
  BY DEF LivesShaped, Lives
<1>1. status[j] \in Status
  BY Types
<1> QED  BY <1>1 DEF LifeOf, Life!Lives, Life!Active, Life!Ended, Status, Active, Terminal

(* A call that ends finds its job active, or finds no job.                 *)
LEMMA LifeFinish ==
  ASSUME TypeOK, LivesShaped', LifeInv, NEW r \in Run, NEW saved \in BOOLEAN, Finish(r, saved)
  PROVE  Life!Finish(JobOf[r]) \/ Unseen
<1> DEFINE j == JobOf[r]
<1>1. CASE j \notin Listed
  BY <1>1, FinishGone DEF Unseen, details, request
<1>2. CASE j \in Listed
  <2>1. /\ at[r] \in {"failed", "canceled", "finish"}
        /\ Outcome(r) \in Terminal
        /\ Entered(j, Outcome(r), attached, resumable)
        /\ UNCHANGED <<created, forgotten>>
    BY <1>2, FinishMove DEF request
  <2>2. LifeOf(j) = status[j] /\ j \in Job /\ j <= created /\ j \notin forgotten
    BY <1>2, LifeListed DEF LifeInv
  <2>3. LifeOf(j) \in Life!Active
    <3>1. status[j] \in Active
      BY <2>1 DEF LifeInv, CallInv, Owned, Working
    <3> QED  BY <2>2, <3>1 DEF Active, Life!Active
  <2>4. /\ status'[j] \in {Outcome(r), "absent"}
        /\ \A k \in Job \ {j} :
             status'[k] = status[k] \/ (status[k] \in Terminal /\ status'[k] = "absent")
    BY <2>1 DEF Entered
  <2>5. LifeOf(j)' = status'[j]
    BY <2>1, <2>2, ConstantsAssumption DEF LifeOf, TypeOK, Job
  <2>6. LifeOf(j)' \in Life!Ended \cup {"absent"}
    BY <2>1, <2>4, <2>5 DEF Life!Ended, Terminal
  <2>7. \A k \in Job \ {j} : LifeOf(k)' = LifeOf(k) \/ Life!Pruned(k)
    BY <2>1, <2>4, LifeOther
  <2>8. [k \in Job |-> LifeOf(k)]' \in [Job -> Life!Lives]
    BY DEF LivesShaped, Lives
  <2> HIDE DEF j
  <2>9. Life!Finish(j)
    BY <2>2, <2>3, <2>6, <2>7, <2>8 DEF Life!Finish
  <2> QED  BY <2>9 DEF j
<1> QED  BY <1>1, <1>2

LEMMA LifeRestart ==
  ASSUME TypeOK, LivesShaped', NEW jobs \in SUBSET Job, Restart(jobs)
  PROVE  Life!Restart
<1>1. /\ UNCHANGED <<created, forgotten>>
      /\ \A k \in Job : status'[k] \in Terminal \cup {"absent"}
  BY RestartMove DEF request
<1>2. [k \in Job |-> LifeOf(k)]' \in [Job -> Life!Lives]
  BY DEF LivesShaped, Lives
<1>3. ASSUME NEW j \in Job
      PROVE  IF LifeOf(j) \in {"new", "gone"} THEN LifeOf(j)' = LifeOf(j)
             ELSE LifeOf(j)' \in Life!Ended \cup {"absent"}
  <2>1. CASE j > created \/ j \in forgotten
    BY <1>1, <2>1 DEF LifeOf
  <2>2. CASE ~(j > created) /\ j \notin forgotten
    <3>1. LifeOf(j) = status[j] /\ LifeOf(j)' = status'[j] /\ status[j] \in Status
      BY <1>1, <2>2, Types DEF LifeOf
    <3>2. LifeOf(j) \notin {"new", "gone"}
      BY <3>1 DEF Status, Active, Terminal
    <3> QED  BY <1>1, <3>1, <3>2 DEF Terminal, Life!Ended
  <2> QED  BY <2>1, <2>2
<1> QED  BY <1>2, <1>3 DEF Life!Restart

LEMMA LifeStep ==
  ASSUME TypeOK, LivesShaped', LifeInv, [Next]_vars
  PROVE  Life!Next \/ UNCHANGED Lives
<1>1. ASSUME NEW j \in Job, NEW f \in File, NEW d \in Dir, NEW r \in Run,
             NEW saved \in BOOLEAN, Create(j, f, d, r, saved)
      PROVE  Life!Next
  BY <1>1, LifeCreate DEF Life!Next
<1>2. ASSUME NEW j \in Job, NEW r \in Run, NEW saved \in BOOLEAN, Resume(j, r, saved)
      PROVE  Life!Next
  BY <1>2, LifeResume DEF Life!Next
<1>3. ASSUME NEW j \in Job, NEW saved \in BOOLEAN, Cancel(j, saved) PROVE Life!Next
  BY <1>3, LifeCancel DEF Life!Next
<1>4. ASSUME NEW j \in Job, Forget(j) PROVE Life!Next
  BY <1>4, LifeForget DEF Life!Next
<1>5. ASSUME NEW r \in Run, NEW saved \in BOOLEAN, Finish(r, saved)
      PROVE  Life!Next \/ Unseen
  <2>1. JobOf[r] \in Job
    BY OfRun
  <2> QED  BY <1>5, <2>1, LifeFinish DEF Life!Next
<1>6. ASSUME NEW jobs \in SUBSET Job, Restart(jobs) PROVE Life!Next
  BY <1>6, LifeRestart DEF Life!Next
<1>7. CASE Seen
  BY <1>1, <1>2, <1>3, <1>4, <1>5, <1>6, <1>7, LifeSame DEF Seen
<1> QED  BY <1>7, SeenOrNot, LifeSame

(* Whatever the goroutines, sidecars and restarts do, others see each job  *)
(* go through its life: it ends once for each time it runs, is done for    *)
(* good and gone for good.                                                 *)
THEOREM ImplementsLife == Spec => LifeSpec
<1>1. Init => TypeOK /\ LifeInv
  BY TypeInit, CallInit DEF Init, LifeInv, ForgottenStaysForgotten, HistoryFits, Out, Ended,
     Terminal
<1>2. TypeOK /\ LifeInv /\ [Next]_vars => (TypeOK /\ LifeInv)'
  BY TypeStep, CallStep, ForgottenStep, FitsStep DEF LifeInv
<1>3. TypeOK /\ LivesShaped' /\ LifeInv /\ [Next]_vars => [Life!Next]_Lives
  BY LifeStep
<1>4. Init => Life!Init
  BY LifeInit
<1> QED  BY <1>1, <1>2, <1>3, <1>4, LivesTyped, PTL DEF Spec, LifeSpec, Life!Spec, Lives
=============================================================================
