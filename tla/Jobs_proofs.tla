---------------------------- MODULE Jobs_proofs -----------------------------
(***************************************************************************)
(* Proofs about the send jobs and their history (Jobs), for any number of  *)
(* jobs, any files, directories and chunks, and any limit of the history.  *)
(***************************************************************************)
EXTENDS Jobs, TLAPS

Status == {"absent"} \cup Active \cup Terminal
RunPc == {"off", "open", "send", "ok", "failed", "canceled", "finish", "clean"}
Sidecar == {"none", "bare", "attached"}

-----------------------------------------------------------------------------
(* An entry gets the status s, and others that ended may be pruned.        *)
Enter(j, s, att, res) ==
  LET st == [status EXCEPT ![j] = s] IN Keep(Pruned(st), st, att, res)

Entered(j, s, att, res) ==
  /\ status' \in [Job -> Status]
  /\ Listed' \subseteq Listed \cup {j}
  /\ attached' = att \cap Listed'
  /\ resumable' = res \cap Listed'
  /\ status'[j] \in {s, "absent"}
  /\ s \in Active => status'[j] = s
  /\ \A k \in Job \ {j} :
       status'[k] = status[k] \/ (status[k] \in Terminal /\ status'[k] = "absent")

LEMMA EntryMove ==
  ASSUME status \in [Job -> Status], NEW j \in Job, NEW s \in Active \cup Terminal,
         NEW att, NEW res, att \subseteq Listed \cup {j}, res \subseteq Listed \cup {j},
         Enter(j, s, att, res)
  PROVE  Entered(j, s, att, res)
<1> DEFINE st == [status EXCEPT ![j] = s]
<1> DEFINE P == Pruned(st)
<1>1. st \in [Job -> Status] /\ st[j] = s /\ \A k \in Job \ {j} : st[k] = status[k]
  BY DEF Status
<1>2. P \subseteq Job /\ \A k \in Job : st[k] \notin Terminal => k \in P
  BY DEF Pruned
<1>0. Keep(P, st, att, res)
  BY DEF Enter
<1> HIDE DEF P, st
<1>3. /\ status' = [k \in Job |-> IF k \in P THEN st[k] ELSE "absent"]
      /\ attached' = att \cap P
      /\ resumable' = res \cap P
  BY <1>0 DEF Keep
<1>4. "absent" \in Status /\ "absent" \notin Terminal /\ s # "absent"
  BY DEF Status, Active, Terminal
<1>5. status' \in [Job -> Status]
  BY <1>1, <1>3, <1>4
<1>6. \A k \in Job : status'[k] = IF k \in P THEN st[k] ELSE "absent"
  BY <1>3
<1>7. Listed' = (Listed \cup {j}) \cap P
  BY <1>1, <1>2, <1>4, <1>6 DEF Listed
<1>8. s \in Active => status'[j] = s
  BY <1>1, <1>2, <1>6 DEF Active, Terminal
<1>9. \A k \in Job \ {j} :
         status'[k] = status[k] \/ (status[k] \in Terminal /\ status'[k] = "absent")
  BY <1>1, <1>2, <1>6
<1>10. attached' = att \cap Listed' /\ resumable' = res \cap Listed'
  BY <1>3, <1>7
<1> QED  BY <1>1, <1>5, <1>6, <1>7, <1>8, <1>9, <1>10 DEF Entered

(* A sidecar is written, or trouble noted.                                 *)
LEMMA PersistMove ==
  ASSUME sidecar \in [Job -> Sidecar], NEW j \in Job, NEW saved \in BOOLEAN,
         \/ Persist(j, FALSE, saved) \/ Persist(j, TRUE, saved)
         \/ Persist(j, j \in attached, saved)
  PROVE  /\ sidecar' \in [Job -> Sidecar]
         /\ \A k \in Job \ {j} : sidecar'[k] = sidecar[k]
         /\ Written' \subseteq Written \cup {j}
         /\ trouble' = IF saved THEN trouble ELSE trouble \cup {j}
         /\ IF saved THEN sidecar'[j] # "none" ELSE sidecar'[j] = sidecar[j]
<1>1. CASE saved
  <2>1. \/ sidecar' = [sidecar EXCEPT ![j] = "bare"]
        \/ sidecar' = [sidecar EXCEPT ![j] = "attached"]
    BY <1>1 DEF Persist
  <2> QED  BY <1>1, <2>1 DEF Persist, Sidecar, Written
<1>2. CASE ~saved
  BY <1>2 DEF Persist, Sidecar, Written
<1> QED  BY <1>1, <1>2

LEMMA BeginMove ==
  ASSUME at \in [Run -> RunPc], explicit \in [Run -> BOOLEAN],
         NEW j \in Job, NEW r \in Run, NEW b \in BOOLEAN, Begin(r, j, b)
  PROVE  /\ JobOf[r] = j /\ at[r] = "off" /\ at'[r] = "open"
         /\ at' \in [Run -> RunPc]
         /\ \A q \in Run \ {r} : at'[q] = at[q]
         /\ explicit' \in [Run -> BOOLEAN]
BY DEF Begin, RunPc

LEMMA GoesMove ==
  ASSUME at \in [Run -> RunPc], NEW r \in Run, NEW p \in RunPc, Goes(r, p)
  PROVE  /\ at' \in [Run -> RunPc]
         /\ at'[r] = p
         /\ \A q \in Run \ {r} : at'[q] = at[q]
BY DEF Goes

LEMMA LeaveMove ==
  ASSUME at \in [Run -> RunPc], explicit \in [Run -> BOOLEAN],
         stopped \in [Run -> BOOLEAN], mf \in [Run -> Manifests],
         NEW r \in Run, Leave(r)
  PROVE  /\ at' \in [Run -> RunPc]
         /\ at'[r] = "off"
         /\ \A q \in Run \ {r} : at'[q] = at[q] /\ stopped'[q] = stopped[q] /\ mf'[q] = mf[q]
         /\ explicit' \in [Run -> BOOLEAN]
         /\ stopped' \in [Run -> BOOLEAN]
         /\ mf' \in [Run -> Manifests]
<1>1. NoManifest \in Manifests
  BY ConstantsAssumption DEF Stored, NoManifest, Manifests, Tx, NoTx
<1>2. at' \in [Run -> RunPc] /\ at'[r] = "off" /\ \A q \in Run \ {r} : at'[q] = at[q]
  BY DEF Leave, RunPc
<1>3. explicit' \in [Run -> BOOLEAN]
  BY DEF Leave
<1>4. stopped' \in [Run -> BOOLEAN] /\ \A q \in Run \ {r} : stopped'[q] = stopped[q]
  BY DEF Leave
<1>5. mf' \in [Run -> Manifests] /\ \A q \in Run \ {r} : mf'[q] = mf[q]
  BY <1>1 DEF Leave
<1> QED  BY <1>2, <1>3, <1>4, <1>5

LEMMA ManifestTypes ==
  ASSUME NEW m \in Manifests, NEW j \in Job, NEW c \in Chunk, NEW b \in BOOLEAN,
         NEW x \in BOOLEAN
  PROVE  /\ LoadOrCreate(m, b, j) \in Manifests
         /\ [m EXCEPT !.done = @ \cup {c}] \in Manifests
         /\ [m EXCEPT !.canceled = x] \in Manifests
<1>1. Stored(j, {}, FALSE) \in Manifests
  BY ConstantsAssumption DEF Stored, Manifests, Tx, NoTx, Job
<1>2. [m EXCEPT !.canceled = x] \in Manifests /\ [m EXCEPT !.canceled = FALSE] \in Manifests
  BY DEF Manifests
<1>3. [m EXCEPT !.done = @ \cup {c}] \in Manifests
  BY DEF Manifests
<1> QED  BY <1>1, <1>2, <1>3 DEF LoadOrCreate

-----------------------------------------------------------------------------
LEMMA TypeInit == Init => TypeOK
<1> SUFFICES ASSUME Init PROVE TypeOK
  OBVIOUS
<1>1. /\ (CHOOSE f \in File : TRUE) \in File
      /\ (CHOOSE d \in Dir : TRUE) \in Dir
  BY ConstantsAssumption
<1>2. NoManifest \in Manifests
  BY ConstantsAssumption DEF Stored, NoManifest, Manifests, Tx, NoTx
<1>3. Listed = {} /\ Written = {}
  BY DEF Init, Listed, Written
<1>4. created \in 0..MaxJobs
  BY ConstantsAssumption DEF Init
<1> QED  BY <1>1, <1>2, <1>3, <1>4 DEF Init, TypeOK

(* The types, with names for the sets.                                     *)
LEMMA Types ==
  TypeOK <=>
    /\ created \in 0..MaxJobs /\ file \in [Job -> File] /\ dir \in [Job -> Dir]
    /\ Listed \subseteq 1..created /\ status \in [Job -> Status]
    /\ attached \subseteq Listed /\ resumable \subseteq Listed
    /\ cur \in [Job -> Run \cup {NoRun}] /\ sidecar \in [Job -> Sidecar]
    /\ Written \subseteq 1..created
    /\ present \subseteq File /\ disk \in [File -> Manifests]
    /\ held \in [Tx -> [Dir -> SUBSET Chunk]]
    /\ at \in [Run -> RunPc] /\ \A r \in Run : at[r] # "off" => JobOf[r] <= created
    /\ explicit \in [Run -> BOOLEAN] /\ stopped \in [Run -> BOOLEAN]
    /\ mf \in [Run -> Manifests]
    /\ emitting \subseteq 1..created /\ forgotten \subseteq 1..created
    /\ trouble \subseteq 1..created
BY DEF TypeOK, Status, RunPc, Sidecar

(* The conjuncts of the type invariant that the lemmas above ask for.      *)
LEMMA Shapes ==
  ASSUME TypeOK
  PROVE  /\ sidecar \in [Job -> Sidecar]
         /\ at \in [Run -> RunPc] /\ explicit \in [Run -> BOOLEAN]
BY Types

(* What the API changes.                                                   *)
LEMMA CreateMove ==
  ASSUME TypeOK, NEW j \in Job, NEW f \in File, NEW d \in Dir, NEW r \in Run,
         NEW saved \in BOOLEAN, Create(j, f, d, r, saved)
  PROVE  /\ j = created + 1 /\ created' = j /\ created' \in 0..MaxJobs
         /\ file' = [file EXCEPT ![j] = f] /\ file' \in [Job -> File]
         /\ dir' = [dir EXCEPT ![j] = d] /\ dir' \in [Job -> Dir]
         /\ cur' = [cur EXCEPT ![j] = r] /\ cur' \in [Job -> Run \cup {NoRun}]
         /\ status' \in [Job -> Status]
         /\ status[j] = "absent" /\ status'[j] = "running"
         /\ Listed' \subseteq Listed \cup {j}
         /\ attached' = attached \cap Listed'
         /\ resumable' = (resumable \cup {j}) \cap Listed'
         /\ \A k \in Job \ {j} :
              status'[k] = status[k] \/ (status[k] \in Terminal /\ status'[k] = "absent")
         /\ UNCHANGED <<present, disk, held, stopped, mf, emitting, forgotten>>
<1>1. j = created + 1 /\ created' = j /\ created' \in 0..MaxJobs
  BY ConstantsAssumption DEF Create, Job
<1>2. /\ file' = [file EXCEPT ![j] = f] /\ file' \in [Job -> File]
      /\ dir' = [dir EXCEPT ![j] = d] /\ dir' \in [Job -> Dir]
      /\ cur' = [cur EXCEPT ![j] = r] /\ cur' \in [Job -> Run \cup {NoRun}]
      /\ UNCHANGED <<present, disk, held, stopped, mf, emitting, forgotten>>
  BY DEF Create, TypeOK
<1>3. status[j] = "absent"
  BY <1>1 DEF TypeOK, Listed
<1>4. /\ status \in [Job -> Status]
      /\ attached \subseteq Listed \cup {j}
      /\ resumable \cup {j} \subseteq Listed \cup {j}
      /\ "running" \in Active
  BY Types DEF Active
<1>5. Enter(j, "running", attached, resumable \cup {j})
  BY DEF Create, Enter
<1>6. Entered(j, "running", attached, resumable \cup {j})
  BY <1>4, <1>5, EntryMove
<1> QED  BY <1>1, <1>2, <1>3, <1>4, <1>6 DEF Entered

LEMMA CreateType ==
  ASSUME TypeOK, NEW j \in Job, NEW f \in File, NEW d \in Dir, NEW r \in Run,
         NEW saved \in BOOLEAN, Create(j, f, d, r, saved)
  PROVE  TypeOK'
<1>1. Begin(r, j, FALSE) /\ Persist(j, FALSE, saved)
  BY DEF Create
<1>2. /\ JobOf[r] = j /\ at' \in [Run -> RunPc] /\ explicit' \in [Run -> BOOLEAN]
      /\ \A q \in Run \ {r} : at'[q] = at[q]
  BY <1>1, BeginMove, Shapes
<1>3. /\ Written' \subseteq Written \cup {j} /\ sidecar' \in [Job -> Sidecar] /\ trouble' \subseteq trouble \cup {j}
  BY <1>1, PersistMove, Shapes
<1>4. /\ created' = created + 1 /\ created' = j /\ created' \in 0..MaxJobs
      /\ file' \in [Job -> File] /\ dir' \in [Job -> Dir]
      /\ cur' \in [Job -> Run \cup {NoRun}]
  BY CreateMove
<1>5. /\ status' \in [Job -> Status]
      /\ Listed' \subseteq Listed \cup {j}
      /\ attached' \subseteq Listed' /\ resumable' \subseteq Listed'
  BY CreateMove
<1>6. UNCHANGED <<present, disk, held, stopped, mf, emitting, forgotten>>
  BY CreateMove
<1>7. 1..created \subseteq 1..created' /\ j \in 1..created'
  BY <1>4 DEF TypeOK
<1>8. Listed' \subseteq 1..created'
  BY <1>5, <1>7 DEF TypeOK
<1>9. \A q \in Run : at'[q] # "off" => JobOf[q] <= created'
  <2> TAKE q \in Run
  <2>1. at[q] # "off" => JobOf[q] <= created
    BY DEF TypeOK
  <2>2. JobOf[q] \in Int /\ created \in Int
    BY ConstantsAssumption DEF TypeOK, Job
  <2> QED  BY <1>2, <1>4, <2>1, <2>2
<1>10. /\ emitting' \subseteq 1..created' /\ forgotten' \subseteq 1..created'
       /\ trouble' \subseteq 1..created'
  BY <1>3, <1>6, <1>7 DEF TypeOK
<1>11. /\ present' \subseteq File /\ disk' \in [File -> Manifests]
       /\ held' \in [Tx -> [Dir -> SUBSET Chunk]]
       /\ stopped' \in [Run -> BOOLEAN] /\ mf' \in [Run -> Manifests]
  BY <1>6 DEF TypeOK
<1> QED  BY <1>2, <1>3, <1>4, <1>5, <1>8, <1>9, <1>10, <1>11 DEF TypeOK, Status, RunPc, Sidecar

LEMMA ResumeType ==
  ASSUME TypeOK, NEW j \in Job, NEW r \in Run, NEW saved \in BOOLEAN,
         Resume(j, r, saved)
  PROVE  TypeOK'
<1>1. Begin(r, j, TRUE) /\ Persist(j, j \in attached, saved) /\ j \in Listed
  BY DEF Resume
<1>2. /\ JobOf[r] = j /\ at' \in [Run -> RunPc] /\ explicit' \in [Run -> BOOLEAN]
      /\ \A q \in Run \ {r} : at'[q] = at[q]
  BY <1>1, BeginMove, Shapes
<1>3. /\ Written' \subseteq Written \cup {j} /\ sidecar' \in [Job -> Sidecar] /\ trouble' \subseteq trouble \cup {j}
  BY <1>1, PersistMove, Shapes
<1>4. /\ status' = [status EXCEPT ![j] = "running"]
      /\ UNCHANGED <<request, attached, resumable, present, disk, held, stopped, mf,
                     emitting, forgotten>>
  BY DEF Resume
<1>7. status' \in [Job -> Status]
  BY <1>4 DEF TypeOK, Status, Active
<1>8. cur' \in [Job -> Run \cup {NoRun}]
  BY DEF Resume, TypeOK
<1>5. Listed' = Listed
  BY <1>1, <1>4 DEF Listed, TypeOK
<1>6. j \in 1..created
  BY <1>1 DEF TypeOK
<1> QED
  BY <1>2, <1>3, <1>4, <1>5, <1>6, <1>7, <1>8
  DEF TypeOK, Status, RunPc, Sidecar, request

LEMMA CancelType ==
  ASSUME TypeOK, NEW j \in Job, NEW saved \in BOOLEAN, Cancel(j, saved)
  PROVE  TypeOK'
<1>1. Persist(j, j \in attached, saved) /\ j \in Listed
  BY DEF Cancel
<1>2. /\ Written' \subseteq Written \cup {j} /\ sidecar' \in [Job -> Sidecar] /\ trouble' \subseteq trouble \cup {j}
  BY <1>1, PersistMove, Shapes
<1>3. /\ status' = [status EXCEPT ![j] = "canceling"]
      /\ UNCHANGED <<request, attached, resumable, cur, present, disk, held, call,
                     at, emitting, forgotten>>
  BY DEF Cancel
<1>7. status' \in [Job -> Status]
  BY <1>3 DEF TypeOK, Status, Active
<1>4. stopped' \in [Run -> BOOLEAN]
  BY DEF Cancel, TypeOK
<1>5. Listed' = Listed
  BY <1>1, <1>3 DEF Listed, TypeOK
<1>6. j \in 1..created
  BY <1>1 DEF TypeOK
<1> QED  BY <1>2, <1>3, <1>4, <1>5, <1>6, <1>7 DEF TypeOK, Status, Sidecar, request, call

LEMMA ForgetType ==
  ASSUME TypeOK, NEW j \in Job, Forget(j) \/ ForgetFails(j)
  PROVE  TypeOK'
<1>1. j \in 1..created
  BY DEF Forget, ForgetFails, TypeOK
<1>2. CASE Forget(j)
  <2>1. /\ status' = [k \in Job |-> IF k \in Job \ {j} THEN status[k] ELSE "absent"]
        /\ attached' = attached \cap (Job \ {j})
        /\ resumable' = resumable \cap (Job \ {j})
    BY <1>2 DEF Forget, Keep
  <2>2. status' \in [Job -> Status]
    BY <2>1, Types DEF Status
  <2>3. Listed' = Listed \ {j}
    BY <2>1 DEF Listed
  <2>4. sidecar' \in [Job -> Sidecar] /\ Written' \subseteq Written /\ present' \subseteq File
    BY <1>2 DEF Forget, WithoutStaging, TypeOK, Sidecar, Written
  <2> QED
    BY <1>1, <1>2, <2>1, <2>2, <2>3, <2>4 DEF Forget, TypeOK, request, call, Status, Sidecar
<1>3. CASE ForgetFails(j)
  <2>1. Listed' = Listed /\ Written' = Written
    BY <1>3 DEF ForgetFails, details, Listed, Written
  <2> QED
    BY <1>1, <1>3, <2>1 DEF ForgetFails, WithoutStaging, TypeOK, request, call, details
<1> QED  BY <1>2, <1>3

(* The file of a call, and its job.                                        *)
LEMMA OfRun ==
  ASSUME TypeOK, NEW r \in Run
  PROVE  /\ JobOf[r] \in Job /\ SourceOf(r) \in File /\ dir[JobOf[r]] \in Dir
         /\ mf[r] \in Manifests /\ mf[r].tx \in Tx
         /\ disk[SourceOf(r)] \in Manifests
         /\ at[r] # "off" => JobOf[r] \in 1..created
BY ConstantsAssumption DEF TypeOK, SourceOf, Job, Manifests

LEMMA EmitType ==
  ASSUME TypeOK, NEW j \in Job, NEW saved \in BOOLEAN, Emit(j, saved)
  PROVE  TypeOK'
<1>1. /\ UNCHANGED <<request, status, cur, present, disk, held, call, at, stopped,
                     forgotten>>
      /\ j \in emitting /\ emitting' \subseteq emitting
  BY DEF Emit
<1>2. Listed' = Listed
  BY <1>1 DEF Listed
<1>3. /\ attached' \subseteq Listed /\ resumable' \subseteq Listed
      /\ Written' \subseteq Written \cup {j} /\ sidecar' \in [Job -> Sidecar]
      /\ trouble' \subseteq trouble \cup {j}
  <2>0. sidecar \in [Job -> Sidecar]
    BY Types
  <2>1. CASE Hears(j) /\ j \notin attached
    <3>1. Persist(j, TRUE, saved)
      BY <2>1 DEF Emit
    <3>2. Written' \subseteq Written \cup {j} /\ sidecar' \in [Job -> Sidecar] /\ trouble' \subseteq trouble \cup {j}
      BY <2>0, <3>1, PersistMove
    <3> QED  BY <2>1, <3>2 DEF Emit, Hears, TypeOK
  <2>2. CASE ~(Hears(j) /\ j \notin attached)
    BY <2>0, <2>2 DEF Emit, Hears, TypeOK, Written
  <2> QED  BY <2>1, <2>2
<1> QED  BY <1>1, <1>2, <1>3 DEF TypeOK, request, call, Sidecar

(* The calls of the sender.                                                *)
LEMMA OpenMove ==
  ASSUME TypeOK, NEW r \in Run, Open(r)
  PROVE  /\ at[r] = "open"
         /\ mf' = [mf EXCEPT ![r] = disk'[SourceOf(r)]]
         /\ mf' \in [Run -> Manifests]
         /\ disk' = [disk EXCEPT ![SourceOf(r)] =
                       LoadOrCreate(@, explicit[r], JobOf[r])]
         /\ disk' \in [File -> Manifests]
         /\ emitting' = emitting \cup {JobOf[r]}
         /\ Goes(r, "send")
         /\ UNCHANGED <<request, details, sidecar, present, held, explicit, stopped,
                        forgotten, trouble>>
<1> DEFINE m == LoadOrCreate(disk[SourceOf(r)], explicit[r], JobOf[r])
<1>1. explicit[r] \in BOOLEAN /\ SourceOf(r) \in File
  BY OfRun DEF TypeOK
<1>2. m \in Manifests
  BY <1>1, OfRun, ManifestTypes, ConstantsAssumption
<1>3. mf' = [mf EXCEPT ![r] = m] /\ disk' = [disk EXCEPT ![SourceOf(r)] = m]
  BY DEF Open
<1>4. disk' \in [File -> Manifests] /\ mf' \in [Run -> Manifests]
  BY <1>1, <1>2, <1>3 DEF TypeOK
<1>5. disk'[SourceOf(r)] = m
  BY <1>1, <1>3 DEF TypeOK
<1> QED  BY <1>1, <1>3, <1>4, <1>5 DEF Open

LEMMA DeliverMove ==
  ASSUME TypeOK, NEW r \in Run, NEW c \in Chunk, NEW saved \in BOOLEAN,
         Deliver(r, c, saved)
  PROVE  /\ at[r] = "send"
         /\ mf' \in [Run -> Manifests]
         /\ mf'[r].tx = mf[r].tx /\ mf'[r].done = mf[r].done \cup {c}
         /\ \A q \in Run \ {r} : mf'[q] = mf[q]
         /\ held' = [held EXCEPT ![mf[r].tx] =
                       [held[mf[r].tx] EXCEPT ![dir[JobOf[r]]] = @ \cup {c}]]
         /\ held' \in [Tx -> [Dir -> SUBSET Chunk]]
         /\ disk' \in [File -> Manifests]
         /\ disk' \in {disk, [disk EXCEPT ![SourceOf(r)] = mf'[r]]}
         /\ UNCHANGED <<request, details, sidecar, present, at, explicit, stopped,
                        emitting, forgotten, trouble>>
<1> DEFINE m == [mf[r] EXCEPT !.done = @ \cup {c}]
<1>1. m \in Manifests /\ m.tx = mf[r].tx /\ m.done = mf[r].done \cup {c}
  BY OfRun, ManifestTypes DEF Manifests
<1>2. mf' = [mf EXCEPT ![r] = m] /\ Flush(r, m, saved)
  BY DEF Deliver
<1> HIDE DEF m
<1>3. /\ mf' \in [Run -> Manifests] /\ mf'[r] = m
      /\ \A q \in Run \ {r} : mf'[q] = mf[q]
  BY <1>1, <1>2 DEF TypeOK
<1>4. disk' \in {disk, [disk EXCEPT ![SourceOf(r)] = m]}
  BY <1>2 DEF Flush
<1>5. disk' \in [File -> Manifests]
  BY <1>1, <1>4, OfRun DEF TypeOK
<1>6. held' = [held EXCEPT ![mf[r].tx] =
                 [held[mf[r].tx] EXCEPT ![dir[JobOf[r]]] = @ \cup {c}]]
  BY OfRun DEF Deliver, TypeOK
<1>7. held' \in [Tx -> [Dir -> SUBSET Chunk]]
  <2>1. [held[mf[r].tx] EXCEPT ![dir[JobOf[r]]] = @ \cup {c}] \in [Dir -> SUBSET Chunk]
    BY OfRun DEF TypeOK
  <2> QED  BY <1>6, <2>1, OfRun DEF TypeOK
<1>8. /\ at[r] = "send"
      /\ UNCHANGED <<request, details, sidecar, present, at, explicit, stopped,
                     emitting, forgotten, trouble>>
  BY DEF Deliver
<1> QED  BY <1>1, <1>3, <1>4, <1>5, <1>6, <1>7, <1>8

Returning(r, saved) ==
  ReturnOk(r) \/ ReturnCanceled(r, saved) \/ ReturnFailed(r, saved)

LEMMA ReturnMove ==
  ASSUME TypeOK, NEW r \in Run, NEW saved \in BOOLEAN, Returning(r, saved)
  PROVE  /\ at[r] = "send"
         /\ \/ Goes(r, "ok") \/ Goes(r, "canceled") \/ Goes(r, "failed")
         /\ disk' \in [File -> Manifests]
         /\ \A f \in File :
              \/ disk'[f] = disk[f]
              \/ /\ f = SourceOf(r)
                 /\ disk'[f].tx = mf[r].tx /\ disk'[f].done = mf[r].done
         /\ Goes(r, "ok") => /\ mf[r].done = ChunksOf(SourceOf(r))
                             /\ disk'[SourceOf(r)] = mf[r]
         /\ UNCHANGED <<request, details, sidecar, present, held, call, stopped,
                        emitting, forgotten, trouble>>
<1> DEFINE c == [mf[r] EXCEPT !.canceled = (mf[r].done # ChunksOf(SourceOf(r)))]
<1>1. c \in Manifests /\ c.tx = mf[r].tx /\ c.done = mf[r].done
  BY OfRun DEF Manifests
<1>2. SourceOf(r) \in File /\ mf[r] \in Manifests /\ disk \in [File -> Manifests]
  BY OfRun DEF TypeOK
<1>3. CASE ReturnOk(r)
  BY <1>2, <1>3 DEF ReturnOk, Return, Flush
<1>4. CASE ReturnCanceled(r, saved)
  <2>1. Return(r, "canceled") /\ disk' \in {disk, [disk EXCEPT ![SourceOf(r)] = c]}
    BY <1>4 DEF ReturnCanceled, Flush
  <2>2. ~Goes(r, "ok")
    BY <2>1 DEF Return, Goes, TypeOK
  <2> HIDE DEF c
  <2> QED  BY <1>1, <1>2, <2>1, <2>2 DEF Return
<1>5. CASE ReturnFailed(r, saved)
  <2>1. Return(r, "failed") /\ disk' \in {disk, [disk EXCEPT ![SourceOf(r)] = mf[r]]}
    BY <1>5 DEF ReturnFailed, Flush
  <2>2. ~Goes(r, "ok")
    BY <2>1 DEF Return, Goes, TypeOK
  <2> QED  BY <1>2, <2>1, <2>2 DEF Return
<1> QED  BY <1>3, <1>4, <1>5 DEF Returning

LEMMA SenderType ==
  ASSUME TypeOK, NEW r \in Run, NEW c \in Chunk, NEW saved \in BOOLEAN,
         \/ Open(r) \/ OpenFails(r) \/ Deliver(r, c, saved) \/ Returning(r, saved)
  PROVE  TypeOK'
<1>0. /\ at \in [Run -> RunPc] /\ {"send", "failed", "ok", "canceled"} \subseteq RunPc
      /\ at[r] # "off" => JobOf[r] <= created
      /\ at[r] # "off" => JobOf[r] \in 1..created
  BY Types, OfRun DEF RunPc
<1>1. CASE Open(r)
  <2>1. at' \in [Run -> RunPc] /\ \A q \in Run \ {r} : at'[q] = at[q]
    BY <1>0, <1>1, OpenMove, GoesMove
  <2>2. Listed' = Listed /\ Written' = Written
    BY <1>1 DEF Open, details, Listed, Written
  <2>3. at[r] = "open"
    BY <1>1 DEF Open
  <2>4. /\ mf' \in [Run -> Manifests] /\ disk' \in [File -> Manifests]
        /\ emitting' = emitting \cup {JobOf[r]}
    BY <1>1, OpenMove
  <2>5. \A q \in Run : at'[q] # "off" => JobOf[q] <= created
    BY <1>0, <2>1, <2>3 DEF TypeOK
  <2>6. UNCHANGED <<request, details, sidecar, present, held, explicit, stopped,
                    forgotten, trouble>>
    BY <1>1, OpenMove
  <2> QED
    BY <1>0, <2>1, <2>2, <2>3, <2>4, <2>5, <2>6 DEF TypeOK, RunPc, request, details
<1>2. CASE OpenFails(r)
  <2>1. /\ at' \in [Run -> RunPc] /\ \A q \in Run \ {r} : at'[q] = at[q]
        /\ at[r] = "open"
    BY <1>0, <1>2, GoesMove DEF OpenFails
  <2>2. Listed' = Listed /\ Written' = Written
    BY <1>2 DEF OpenFails, details, Listed, Written
  <2>3. \A q \in Run : at'[q] # "off" => JobOf[q] <= created
    BY <1>0, <2>1 DEF TypeOK
  <2> QED
    BY <1>2, <2>1, <2>2, <2>3 DEF OpenFails, TypeOK, RunPc, request, details, call
<1>3. CASE Deliver(r, c, saved)
  <2>1. /\ mf' \in [Run -> Manifests] /\ disk' \in [File -> Manifests]
        /\ held' \in [Tx -> [Dir -> SUBSET Chunk]]
        /\ UNCHANGED <<request, details, sidecar, present, at, explicit, stopped,
                       emitting, forgotten, trouble>>
    BY <1>3, DeliverMove
  <2>2. Listed' = Listed /\ Written' = Written
    BY <2>1 DEF details, Listed, Written
  <2> QED  BY <2>1, <2>2 DEF TypeOK, request, details
<1>4. CASE Returning(r, saved)
  <2>1. /\ at[r] = "send" /\ disk' \in [File -> Manifests]
        /\ Goes(r, "ok") \/ Goes(r, "canceled") \/ Goes(r, "failed")
        /\ UNCHANGED <<request, details, sidecar, present, held, call, stopped,
                       emitting, forgotten, trouble>>
    BY <1>4, ReturnMove
  <2>2. at' \in [Run -> RunPc] /\ \A q \in Run \ {r} : at'[q] = at[q]
    BY <1>0, <2>1, GoesMove
  <2>3. Listed' = Listed /\ Written' = Written
    BY <2>1 DEF details, Listed, Written
  <2>4. \A q \in Run : at'[q] # "off" => JobOf[q] <= created
    BY <1>0, <2>1, <2>2 DEF TypeOK
  <2> QED  BY <2>1, <2>2, <2>3, <2>4 DEF TypeOK, RunPc, request, details, call
<1> QED  BY <1>1, <1>2, <1>3, <1>4

LEMMA SetManifestMove ==
  ASSUME TypeOK, NEW r \in Run, NEW saved \in BOOLEAN, SetManifest(r, saved)
  PROVE  /\ at[r] = "ok" /\ Goes(r, "finish")
         /\ attached' = attached \cup ({JobOf[r]} \cap Listed)
         /\ sidecar' \in [Job -> Sidecar]
         /\ trouble \subseteq trouble' /\ trouble' \subseteq trouble \cup {JobOf[r]}
         /\ \A k \in Job : \/ sidecar'[k] = sidecar[k]
                           \/ sidecar'[k] = "attached" /\ k \in Listed
         /\ UNCHANGED <<request, status, resumable, cur, present, disk, held, call,
                        stopped, emitting, forgotten>>
<1>1. sidecar \in [Job -> Sidecar] /\ JobOf[r] \in Job
  BY Types, OfRun
<1>2. CASE JobOf[r] \in Listed
  <2>1. Persist(JobOf[r], TRUE, saved) /\ attached' = attached \cup {JobOf[r]}
    BY <1>2 DEF SetManifest
  <2>2. CASE saved
    BY <1>1, <1>2, <2>1, <2>2 DEF Persist, SetManifest, Sidecar
  <2>3. CASE ~saved
    BY <1>1, <1>2, <2>1, <2>3 DEF Persist, SetManifest, Sidecar
  <2> QED  BY <2>2, <2>3
<1>3. CASE JobOf[r] \notin Listed
  BY <1>1, <1>3 DEF SetManifest
<1> QED  BY <1>2, <1>3

(* finishJob for a job that is listed: its entry is written, and others    *)
(* may be pruned.                                                          *)
LEMMA FinishMove ==
  ASSUME TypeOK, NEW r \in Run, NEW saved \in BOOLEAN, Finish(r, saved),
         NEW j \in Listed, j = JobOf[r]
  PROVE  /\ at[r] \in {"failed", "canceled", "finish"}
         /\ Outcome(r) \in Terminal
         /\ Entered(j, Outcome(r), attached, resumable)
         /\ cur' = [cur EXCEPT ![j] = NoRun]
         /\ Persist(j, j \in attached, saved)
         /\ UNCHANGED <<request, present, disk, held, emitting, forgotten>>
<1>1. /\ at[r] \in {"failed", "canceled", "finish"}
      /\ Enter(j, Outcome(r), attached, resumable)
      /\ cur' = [cur EXCEPT ![j] = NoRun]
      /\ Persist(j, j \in attached, saved)
      /\ UNCHANGED <<request, present, disk, held, emitting, forgotten>>
  BY DEF Finish, FinishJob, MayFinish, Enter
<1>2. Outcome(r) \in Terminal
  BY <1>1 DEF Outcome, Terminal
<1>3. /\ j \in Job /\ status \in [Job -> Status]
      /\ attached \subseteq Listed \cup {j} /\ resumable \subseteq Listed \cup {j}
  BY Types DEF Listed
<1>4. Entered(j, Outcome(r), attached, resumable)
  BY <1>1, <1>2, <1>3, EntryMove
<1> QED  BY <1>1, <1>2, <1>4

LEMMA FinishGone ==
  ASSUME TypeOK, NEW r \in Run, NEW saved \in BOOLEAN, Finish(r, saved),
         JobOf[r] \notin Listed
  PROVE  UNCHANGED <<request, details, sidecar, present, disk, held, emitting,
                     forgotten, trouble>>
BY DEF Finish, FinishJob, MayFinish

(* ... and its goroutine ends or goes on to clean up.                      *)
LEMMA FinishPc ==
  ASSUME TypeOK, NEW r \in Run, NEW saved \in BOOLEAN, Finish(r, saved)
  PROVE  /\ at' \in [Run -> RunPc]
         /\ at'[r] = IF Cleans(r) THEN "clean" ELSE "off"
         /\ \A q \in Run \ {r} : at'[q] = at[q] /\ stopped'[q] = stopped[q] /\ mf'[q] = mf[q]
         /\ explicit' \in [Run -> BOOLEAN] /\ stopped' \in [Run -> BOOLEAN]
         /\ mf' \in [Run -> Manifests]
<1>1. /\ at \in [Run -> RunPc] /\ explicit \in [Run -> BOOLEAN]
      /\ stopped \in [Run -> BOOLEAN] /\ mf \in [Run -> Manifests]
      /\ "clean" \in RunPc
  BY Types DEF RunPc
<1>2. CASE Cleans(r)
  <2>1. Goes(r, "clean") /\ UNCHANGED <<explicit, stopped, mf>>
    BY <1>2 DEF Finish
  <2> QED  BY <1>1, <1>2, <2>1, GoesMove
<1>3. CASE ~Cleans(r)
  <2>1. Leave(r)
    BY <1>3 DEF Finish
  <2> QED  BY <1>1, <1>3, <2>1, LeaveMove
<1> QED  BY <1>2, <1>3

LEMMA FinishingType ==
  ASSUME TypeOK, NEW r \in Run, NEW saved \in BOOLEAN,
         SetManifest(r, saved) \/ Finish(r, saved)
  PROVE  TypeOK'
<1>0. /\ at \in [Run -> RunPc] /\ "finish" \in RunPc
      /\ sidecar \in [Job -> Sidecar]
      /\ at[r] # "off" => JobOf[r] \in 1..created
  BY Types, OfRun DEF RunPc
<1>1. CASE SetManifest(r, saved)
  <2>1. /\ at[r] = "ok" /\ Goes(r, "finish")
        /\ attached' = attached \cup ({JobOf[r]} \cap Listed)
        /\ sidecar' \in [Job -> Sidecar] /\ trouble' \subseteq trouble \cup {JobOf[r]}
        /\ \A k \in Job : \/ sidecar'[k] = sidecar[k]
                          \/ sidecar'[k] = "attached" /\ k \in Listed
        /\ UNCHANGED <<request, status, resumable, cur, present, disk, held, call,
                       stopped, emitting, forgotten>>
    BY <1>1, SetManifestMove
  <2>2. at' \in [Run -> RunPc] /\ \A q \in Run \ {r} : at'[q] = at[q]
    BY <1>0, <2>1, GoesMove
  <2>3. Listed' = Listed /\ Written' \subseteq Written \cup Listed
    BY <2>1 DEF Listed, Written
  <2>4. \A q \in Run : at'[q] # "off" => JobOf[q] <= created
    BY <1>0, <2>1, <2>2 DEF TypeOK
  <2> QED
    BY <1>0, <2>1, <2>2, <2>3, <2>4 DEF TypeOK, RunPc, Sidecar, request, call
<1>2. CASE Finish(r, saved)
  <2>1. /\ at' \in [Run -> RunPc]
        /\ \A q \in Run \ {r} : at'[q] = at[q]
        /\ explicit' \in [Run -> BOOLEAN] /\ stopped' \in [Run -> BOOLEAN]
        /\ mf' \in [Run -> Manifests]
    BY <1>2, FinishPc
  <2>2. at[r] # "off" /\ UNCHANGED <<request, present, disk, held, emitting, forgotten>>
    BY <1>2 DEF Finish
  <2>3. \A q \in Run : at'[q] # "off" => JobOf[q] <= created
    BY <1>0, <2>1, <2>2 DEF TypeOK
  <2>4. /\ Listed' \subseteq Listed /\ status' \in [Job -> Status]
        /\ attached' \subseteq Listed' /\ resumable' \subseteq Listed'
        /\ cur' \in [Job -> Run \cup {NoRun}] /\ sidecar' \in [Job -> Sidecar]
        /\ Written' \subseteq 1..created /\ trouble' \subseteq 1..created
    <3>1. CASE JobOf[r] \in Listed
      <4> SUFFICES ASSUME NEW j \in Listed, j = JobOf[r] PROVE
             /\ Listed' \subseteq Listed /\ status' \in [Job -> Status]
             /\ attached' \subseteq Listed' /\ resumable' \subseteq Listed'
             /\ cur' \in [Job -> Run \cup {NoRun}] /\ sidecar' \in [Job -> Sidecar]
             /\ Written' \subseteq 1..created /\ trouble' \subseteq 1..created
        BY <3>1
      <4>1. /\ Entered(j, Outcome(r), attached, resumable)
            /\ cur' = [cur EXCEPT ![j] = NoRun]
            /\ Persist(j, j \in attached, saved)
        BY <1>2, FinishMove
      <4>2. j \in Job /\ j \in 1..created
        BY DEF Listed, TypeOK
      <4>3. /\ Written' \subseteq Written \cup {j} /\ sidecar' \in [Job -> Sidecar]
            /\ trouble' \subseteq trouble \cup {j}
        <5>1. sidecar \in [Job -> Sidecar] /\ Persist(j, j \in attached, saved) /\ j \in Job
          BY <1>0, <4>1, <4>2
        <5> QED  BY ONLY <5>1, PersistMove, saved \in BOOLEAN
      <4>4. /\ status' \in [Job -> Status] /\ Listed' \subseteq Listed
            /\ attached' \subseteq Listed' /\ resumable' \subseteq Listed'
        BY <4>1, <4>2 DEF Entered
      <4>5. cur' \in [Job -> Run \cup {NoRun}]
        BY <4>1 DEF TypeOK
      <4> QED  BY <4>2, <4>3, <4>4, <4>5 DEF TypeOK
    <3>2. CASE JobOf[r] \notin Listed
      <4>1. UNCHANGED <<details, sidecar, trouble>>
        BY <1>2, <3>2, FinishGone
      <4>2. Listed' = Listed /\ Written' = Written
        BY <4>1 DEF details, Listed, Written
      <4> QED  BY <4>1, <4>2 DEF details, TypeOK, Status, Sidecar
    <3> QED  BY <3>1, <3>2
  <2> QED
    BY <2>1, <2>2, <2>3, <2>4 DEF TypeOK, RunPc, Status, Sidecar, request
<1> QED  BY <1>1, <1>2

LEMMA CleanType ==
  ASSUME TypeOK, NEW r \in Run, NEW removed \in BOOLEAN, Clean(r, removed)
  PROVE  TypeOK'
<1>1. /\ at' \in [Run -> RunPc] /\ at'[r] = "off"
      /\ \A q \in Run \ {r} : at'[q] = at[q]
      /\ explicit' \in [Run -> BOOLEAN] /\ stopped' \in [Run -> BOOLEAN]
      /\ mf' \in [Run -> Manifests]
  <2>1. /\ at \in [Run -> RunPc] /\ explicit \in [Run -> BOOLEAN]
        /\ stopped \in [Run -> BOOLEAN] /\ mf \in [Run -> Manifests]
    BY Types
  <2>2. Leave(r)
    BY DEF Clean
  <2> QED  BY <2>1, <2>2, LeaveMove
<1>2. /\ present' \subseteq File
      /\ UNCHANGED <<request, details, sidecar, disk, held, emitting, forgotten, trouble>>
  BY DEF Clean, TypeOK
<1>3. Listed' = Listed /\ Written' = Written
  BY <1>2 DEF details, Listed, Written
<1>4. \A q \in Run : at'[q] # "off" => JobOf[q] <= created
  BY <1>1 DEF TypeOK
<1> QED  BY <1>1, <1>2, <1>3, <1>4 DEF TypeOK, RunPc, request, details

(* What is read again when the agent starts.                               *)
LEMMA RestartMove ==
  ASSUME TypeOK, NEW jobs \in SUBSET Job, Restart(jobs)
  PROVE  /\ status' \in [Job -> Status]
         /\ \A k \in Job : status'[k] = IF k \in jobs THEN Restored(k) ELSE "absent"
         /\ \A k \in Job : Restored(k) \in Terminal
         /\ Listed' = jobs
         /\ \A k \in jobs : sidecar[k] # "none"
         /\ attached' = {k \in jobs : sidecar[k] = "attached"}
         /\ resumable' = {k \in jobs : Restored(k) = "canceled"}
         /\ cur' = [k \in Job |-> NoRun] /\ at' = [r \in Run |-> "off"]
         /\ UNCHANGED <<request, sidecar, present, disk, held, forgotten, trouble>>
<1>1. \A k \in Job : Restored(k) \in Terminal
  BY DEF Restored, Terminal
<1>2. /\ status' = [k \in Job |-> IF k \in jobs THEN Restored(k) ELSE "absent"]
      /\ attached' = {k \in jobs : sidecar[k] = "attached"}
      /\ resumable' = {k \in jobs : Restored(k) = "canceled"}
  BY DEF Restart, Keep
<1>3. "absent" \notin Terminal
  BY DEF Terminal
<1>4. status' \in [Job -> Status]
  BY <1>1, <1>2 DEF Status
<1>5. Listed' = jobs
  BY <1>1, <1>2, <1>3 DEF Listed
<1>6. \A k \in jobs : sidecar[k] # "none"
  BY DEF Restart, Recent, Written
<1> QED  BY <1>1, <1>2, <1>4, <1>5, <1>6 DEF Restart

LEMMA RestartType ==
  ASSUME TypeOK, NEW jobs \in SUBSET Job, Restart(jobs)
  PROVE  TypeOK'
<1>1. /\ status' \in [Job -> Status] /\ Listed' = jobs
      /\ \A k \in jobs : sidecar[k] # "none"
      /\ attached' = {k \in jobs : sidecar[k] = "attached"}
      /\ resumable' = {k \in jobs : Restored(k) = "canceled"}
      /\ UNCHANGED <<request, sidecar, present, disk, held, forgotten, trouble>>
  BY RestartMove
<1>2. Listed' \subseteq 1..created /\ Written' = Written
  BY <1>1 DEF TypeOK, Written
<1>3. NoManifest \in Manifests
  BY ConstantsAssumption DEF Stored, NoManifest, Manifests, Tx, NoTx
<1>4. /\ cur' \in [Job -> Run \cup {NoRun}] /\ at' \in [Run -> RunPc]
      /\ explicit' \in [Run -> BOOLEAN] /\ stopped' \in [Run -> BOOLEAN]
      /\ mf' \in [Run -> Manifests] /\ emitting' = {}
      /\ \A r \in Run : at'[r] = "off"
  BY <1>3 DEF Restart, RunPc
<1> QED  BY <1>1, <1>2, <1>4 DEF TypeOK, Status, Sidecar, RunPc, request

(* The steps, one action each.                                             *)
LEMMA Steps ==
  ASSUME [Next]_vars
  PROVE  \/ \E j \in Job, f \in File, d \in Dir, r \in Run, saved \in BOOLEAN :
              Create(j, f, d, r, saved)
         \/ \E j \in Job, r \in Run, saved \in BOOLEAN : Resume(j, r, saved)
         \/ \E j \in Job, saved \in BOOLEAN : Cancel(j, saved) \/ Emit(j, saved)
         \/ \E j \in Job : Forget(j) \/ ForgetFails(j)
         \/ \E r \in Run : Open(r) \/ OpenFails(r)
         \/ \E r \in Run, c \in Chunk, saved \in BOOLEAN : Deliver(r, c, saved)
         \/ \E r \in Run, saved \in BOOLEAN :
              \/ Returning(r, saved) \/ SetManifest(r, saved) \/ Finish(r, saved)
              \/ Clean(r, saved)
         \/ \E f \in File : Lose(f)
         \/ \E jobs \in SUBSET Job : Restart(jobs)
         \/ UNCHANGED vars
<1>1. \A j \in Job : Saving(j) \subseteq BOOLEAN
  BY DEF Saving
<1>2. \A r \in Run : Saving(JobOf[r]) \subseteq BOOLEAN
  BY <1>1, ConstantsAssumption
<1>3. ASSUME NEW j \in Job, API(j)
      PROVE  \/ \E f \in File, d \in Dir, r \in Run, saved \in BOOLEAN :
                  Create(j, f, d, r, saved)
             \/ \E r \in Run, saved \in BOOLEAN : Resume(j, r, saved)
             \/ \E saved \in BOOLEAN : Cancel(j, saved)
             \/ Forget(j) \/ ForgetFails(j)
  BY <1>1, <1>3 DEF API
<1>4. ASSUME NEW r \in Run, Go(r)
      PROVE  \/ Open(r) \/ OpenFails(r)
             \/ \E c \in Chunk, saved \in BOOLEAN : Deliver(r, c, saved)
             \/ \E saved \in BOOLEAN :
                  \/ Returning(r, saved) \/ SetManifest(r, saved) \/ Finish(r, saved)
                  \/ Clean(r, saved)
  BY <1>2, <1>4 DEF Go, Returning
<1>5. CASE \E j \in Job : API(j) \/ \E saved \in Saving(j) : Emit(j, saved)
  BY <1>1, <1>3, <1>5
<1>6. CASE \E r \in Run : Go(r)
  BY <1>4, <1>6
<1> QED  BY <1>5, <1>6 DEF Next

LEMMA TypeStep == TypeOK /\ [Next]_vars => TypeOK'
<1> SUFFICES ASSUME TypeOK, [Next]_vars PROVE TypeOK'
  OBVIOUS
<1>1. CASE \/ \E r \in Run : Open(r) \/ OpenFails(r)
           \/ \E r \in Run, c \in Chunk, saved \in BOOLEAN : Deliver(r, c, saved)
           \/ \E r \in Run, saved \in BOOLEAN : Returning(r, saved)
  BY <1>1, SenderType, ConstantsAssumption
<1>2. ASSUME NEW f \in File, Lose(f) PROVE TypeOK'
  <2>1. /\ present' \subseteq File
        /\ UNCHANGED <<request, details, sidecar, disk, held, call, at, stopped,
                       emitting, forgotten, trouble>>
    BY <1>2 DEF Lose, TypeOK
  <2>2. Listed' = Listed /\ Written' = Written
    BY <2>1 DEF details, Listed, Written
  <2> QED  BY <2>1, <2>2 DEF TypeOK, request, details, call
<1>3. CASE UNCHANGED vars
  <2>1. UNCHANGED <<request, details, sidecar, present, disk, held, call, at,
                    stopped, emitting, forgotten, trouble>>
    BY <1>3 DEF vars
  <2>2. Listed' = Listed /\ Written' = Written
    BY <2>1 DEF details, Listed, Written
  <2> QED  BY <2>1, <2>2 DEF TypeOK, request, details, call
<1> QED
  BY <1>1, <1>2, <1>3, Steps, CreateType, ResumeType, CancelType, ForgetType,
     EmitType, FinishingType, CleanType, RestartType

(* The variables always have their shape: what is listed, written, waited  *)
(* for or removed is a job that was created.                               *)
THEOREM TypeCorrect == Spec => []TypeOK
<1>1. Init => TypeOK
  BY TypeInit
<1> QED  BY <1>1, TypeStep, PTL DEF Spec

-----------------------------------------------------------------------------
(* Jobs and their calls.  A goroutine that has not reported yet belongs to *)
(* an active job, which knows it; what an active job knows is such a       *)
(* goroutine, and it was stopped when the job was canceled.                *)
Working(r) == at[r] \notin {"off", "clean"}

Owned ==
  \A r \in Run : Working(r) => status[JobOf[r]] \in Active /\ cur[JobOf[r]] = r

Known ==
  \A j \in Job : status[j] \in Active =>
    /\ cur[j] \in Run
    /\ JobOf[cur[j]] = j
    /\ Working(cur[j])
    /\ status[j] = "canceling" => stopped[cur[j]]

CallInv == Owned /\ Known

LEMMA CallInit == Init => CallInv
BY DEF Init, CallInv, Owned, Known, Working, Active

(* A call begins for a job that had none.                                  *)
LEMMA CallBegins ==
  ASSUME TypeOK, CallInv, NEW j \in Job, NEW r \in Run, NEW b \in BOOLEAN,
         Begin(r, j, b), status[j] \notin Active, status'[j] = "running",
         cur' = [cur EXCEPT ![j] = r], UNCHANGED stopped,
         \A k \in Job \ {j} :
           status'[k] = status[k] \/ (status[k] \in Terminal /\ status'[k] = "absent")
  PROVE  CallInv'
<1>1. /\ JobOf[r] = j /\ at[r] = "off" /\ at'[r] = "open"
      /\ \A q \in Run \ {r} : at'[q] = at[q]
  BY BeginMove, Shapes
<1>2. \A k \in Job : cur'[k] = IF k = j THEN r ELSE cur[k]
  BY DEF TypeOK
<1>3. \A k \in Job \ {j} : /\ status[k] \in Active => status'[k] = status[k]
                           /\ status'[k] \in Active => status[k] \in Active
  BY DEF Active, Terminal
<1>4. \A q \in Run : JobOf[q] \in Job
  BY ConstantsAssumption
<1>5. Owned'
  <2> SUFFICES ASSUME NEW q \in Run, at'[q] \notin {"off", "clean"}
               PROVE  status'[JobOf[q]] \in Active /\ cur'[JobOf[q]] = q
    BY DEF Owned, Working
  <2>1. CASE q = r
    BY <1>1, <1>2, <1>4, <2>1 DEF Active
  <2>2. CASE q # r
    <3>1. status[JobOf[q]] \in Active /\ cur[JobOf[q]] = q
      BY <1>1, <2>2 DEF CallInv, Owned, Working
    <3>2. JobOf[q] \in Job \ {j}
      BY <1>4, <3>1
    <3>3. /\ status'[JobOf[q]] = status[JobOf[q]]
          /\ cur'[JobOf[q]] = cur[JobOf[q]]
      BY <1>2, <1>3, <3>1, <3>2
    <3> QED  BY <3>1, <3>3
  <2> QED  BY <2>1, <2>2
<1>6. Known'
  <2> SUFFICES ASSUME NEW k \in Job, (status[k] \in Active)'
               PROVE  /\ cur'[k] \in Run /\ JobOf[cur'[k]] = k /\ (Working(cur[k]))'
                      /\ status'[k] = "canceling" => stopped'[cur'[k]]
    BY DEF Known
  <2>1. CASE k = j
    BY <1>1, <1>2, <2>1 DEF Working
  <2>2. CASE k # j
    BY <1>1, <1>2, <1>3, <2>2 DEF CallInv, Known, Working, Active
  <2> QED  BY <2>1, <2>2
<1> QED  BY <1>5, <1>6 DEF CallInv

LEMMA CallCreate ==
  ASSUME TypeOK, CallInv, NEW j \in Job, NEW f \in File, NEW d \in Dir, NEW r \in Run,
         NEW saved \in BOOLEAN, Create(j, f, d, r, saved)
  PROVE  CallInv'
<1>1. /\ cur' = [cur EXCEPT ![j] = r]
      /\ status[j] = "absent" /\ status'[j] = "running"
      /\ UNCHANGED stopped
      /\ \A k \in Job \ {j} :
           status'[k] = status[k] \/ (status[k] \in Terminal /\ status'[k] = "absent")
  BY CreateMove
<1>2. status[j] \notin Active
  BY <1>1 DEF Active
<1>3. Begin(r, j, FALSE)
  BY DEF Create
<1> QED  BY <1>1, <1>2, <1>3, CallBegins

LEMMA CallResume ==
  ASSUME TypeOK, CallInv, NEW j \in Job, NEW r \in Run, NEW saved \in BOOLEAN,
         Resume(j, r, saved)
  PROVE  CallInv'
<1>1. /\ cur' = [cur EXCEPT ![j] = r] /\ status'[j] = "running"
      /\ UNCHANGED stopped
      /\ \A k \in Job \ {j} : status'[k] = status[k]
      /\ Begin(r, j, TRUE)
  BY DEF Resume, TypeOK
<1>2. status[j] \notin Active
  BY DEF Resume, MayResume, Active
<1> QED  BY <1>1, <1>2, CallBegins

LEMMA CallCancel ==
  ASSUME TypeOK, CallInv, NEW j \in Job, NEW saved \in BOOLEAN, Cancel(j, saved)
  PROVE  CallInv'
<1>1. /\ j \in Listed /\ ~Ended(j)
      /\ status' = [status EXCEPT ![j] = "canceling"]
      /\ stopped' = [r \in Run |-> stopped[r] \/ r = cur[j]]
      /\ UNCHANGED <<cur, at>>
  BY DEF Cancel
<1>2. status[j] \in Active
  BY <1>1, Types DEF Listed, Ended, Status
<1>3. \A k \in Job : status'[k] = IF k = j THEN "canceling" ELSE status[k]
  BY <1>1 DEF TypeOK
<1>4. \A r \in Run : JobOf[r] \in Job
  BY ConstantsAssumption
<1>5. Owned'
  BY <1>1, <1>3, <1>4 DEF CallInv, Owned, Working, Active
<1>6. ASSUME NEW k \in Job, status'[k] \in Active
      PROVE  /\ cur'[k] \in Run /\ JobOf[cur'[k]] = k /\ at'[cur'[k]] \notin {"off", "clean"}
             /\ status'[k] = "canceling" => stopped'[cur'[k]]
  <2>1. status[k] \in Active
    BY <1>2, <1>3, <1>6
  <2>2. /\ cur[k] \in Run /\ JobOf[cur[k]] = k /\ at[cur[k]] \notin {"off", "clean"}
        /\ status[k] = "canceling" => stopped[cur[k]]
    BY <2>1 DEF CallInv, Known, Working
  <2>3. stopped'[cur[k]] = (stopped[cur[k]] \/ cur[k] = cur[j])
    BY <1>1, <2>2
  <2> QED  BY <1>1, <1>3, <2>2, <2>3
<1>7. Known'
  BY <1>6 DEF Known, Working
<1> QED  BY <1>5, <1>7 DEF CallInv

LEMMA CallForget ==
  ASSUME TypeOK, CallInv, NEW j \in Job, Forget(j) \/ ForgetFails(j)
  PROVE  CallInv'
<1>1. status[j] \in Terminal /\ UNCHANGED <<cur, at, stopped>>
  BY DEF Forget, ForgetFails, Ended, details
<1>2. \A k \in Job : /\ status[k] \in Active => status'[k] = status[k]
                     /\ status'[k] \in Active => status[k] = status'[k]
  BY <1>1 DEF Forget, ForgetFails, Keep, Active, Terminal, details
<1>3. \A r \in Run : JobOf[r] \in Job
  BY ConstantsAssumption
<1>4. Owned'
  BY <1>1, <1>2, <1>3 DEF CallInv, Owned, Working
<1>5. Known'
  BY <1>1, <1>2 DEF CallInv, Known, Working
<1> QED  BY <1>4, <1>5 DEF CallInv

(* A call goes on.                                                         *)
LEMMA CallGoes ==
  ASSUME TypeOK, CallInv, NEW r \in Run, Working(r),
         \E p \in RunPc \ {"off", "clean"} : Goes(r, p),
         UNCHANGED <<status, cur, stopped>>
  PROVE  CallInv'
<1>1. \A q \in Run : Working(q)' <=> Working(q)
  <2>1. PICK p \in RunPc \ {"off", "clean"} : Goes(r, p)
    OBVIOUS
  <2>2. at \in [Run -> RunPc]
    BY Types
  <2> QED  BY <2>1, <2>2, GoesMove DEF Working
<1>2. Owned'
  BY <1>1 DEF CallInv, Owned
<1>3. Known'
  BY <1>1 DEF CallInv, Known
<1> QED  BY <1>2, <1>3 DEF CallInv

LEMMA CallSender ==
  ASSUME TypeOK, CallInv, NEW r \in Run, NEW saved \in BOOLEAN,
         Open(r) \/ OpenFails(r) \/ Returning(r, saved) \/ SetManifest(r, saved)
  PROVE  CallInv'
<1>1. {"send", "failed", "ok", "canceled", "finish"} \subseteq RunPc \ {"off", "clean"}
  BY DEF RunPc
<1>2. CASE Open(r)
  BY <1>1, <1>2, CallGoes DEF Open, Working, details
<1>3. CASE OpenFails(r)
  BY <1>1, <1>3, CallGoes DEF OpenFails, Working, details
<1>4. CASE Returning(r, saved)
  <2>1. /\ at[r] = "send" /\ UNCHANGED <<details, stopped>>
        /\ Goes(r, "ok") \/ Goes(r, "canceled") \/ Goes(r, "failed")
    BY <1>4, ReturnMove
  <2> QED  BY <1>1, <2>1, CallGoes DEF Working, details
<1>5. CASE SetManifest(r, saved)
  BY <1>1, <1>5, CallGoes DEF SetManifest, Working
<1> QED  BY <1>2, <1>3, <1>4, <1>5

LEMMA CallFinish ==
  ASSUME TypeOK, CallInv, NEW r \in Run, NEW saved \in BOOLEAN, Finish(r, saved)
  PROVE  CallInv'
<1>1. Working(r)
  BY DEF Finish, Working
<1>2. status[JobOf[r]] \in Active /\ cur[JobOf[r]] = r /\ JobOf[r] \in Job
  BY <1>1, OfRun DEF CallInv, Owned
<1>3. JobOf[r] \in Listed
  BY <1>2 DEF Listed, Active
<1> SUFFICES ASSUME NEW j \in Listed, j = JobOf[r] PROVE CallInv'
  BY <1>3
<1>4. /\ Outcome(r) \in Terminal
      /\ Entered(j, Outcome(r), attached, resumable)
      /\ cur' = [cur EXCEPT ![j] = NoRun]
  BY FinishMove
<1>5. /\ at'[r] \in {"off", "clean"}
      /\ \A q \in Run \ {r} : at'[q] = at[q] /\ stopped'[q] = stopped[q]
  BY FinishPc
<1>6. status'[j] \notin Active
  BY <1>4 DEF Entered, Terminal, Active
<1>7. \A k \in Job \ {j} : /\ status[k] \in Active => status'[k] = status[k]
                           /\ status'[k] \in Active => status[k] = status'[k]
                           /\ cur'[k] = cur[k]
  BY <1>4 DEF Entered, Terminal, Active, TypeOK
<1>8. \A q \in Run : JobOf[q] \in Job
  BY ConstantsAssumption
<1>9. Owned'
  <2> SUFFICES ASSUME NEW q \in Run, at'[q] \notin {"off", "clean"}
               PROVE  status'[JobOf[q]] \in Active /\ cur'[JobOf[q]] = q
    BY DEF Owned, Working
  <2>1. q # r
    BY <1>5
  <2>2. status[JobOf[q]] \in Active /\ cur[JobOf[q]] = q
    BY <1>5, <2>1 DEF CallInv, Owned, Working
  <2>3. JobOf[q] \in Job \ {j}
    BY <1>2, <1>8, <2>1, <2>2
  <2>4. /\ status'[JobOf[q]] = status[JobOf[q]]
        /\ cur'[JobOf[q]] = cur[JobOf[q]]
    BY <1>7, <2>2, <2>3
  <2> QED  BY <2>2, <2>4
<1>10. Known'
  <2> SUFFICES ASSUME NEW k \in Job, status'[k] \in Active
               PROVE  /\ cur'[k] \in Run /\ JobOf[cur'[k]] = k
                      /\ at'[cur'[k]] \notin {"off", "clean"}
                      /\ status'[k] = "canceling" => stopped'[cur'[k]]
    BY DEF Known, Working
  <2>1. k # j
    BY <1>6
  <2>2. /\ cur[k] \in Run /\ JobOf[cur[k]] = k
        /\ at[cur[k]] \notin {"off", "clean"}
        /\ status[k] = "canceling" => stopped[cur[k]]
    BY <1>7, <2>1 DEF CallInv, Known, Working
  <2>3. cur[k] \in Run \ {r}
    BY <2>1, <2>2
  <2>4. status'[k] = status[k] /\ cur'[k] = cur[k]
    BY <1>7, <2>1
  <2>5. at'[cur[k]] = at[cur[k]] /\ stopped'[cur[k]] = stopped[cur[k]]
    BY <1>5, <2>3
  <2> QED  BY <2>2, <2>4, <2>5
<1> QED  BY <1>9, <1>10 DEF CallInv

LEMMA CallClean ==
  ASSUME TypeOK, CallInv, NEW r \in Run, NEW removed \in BOOLEAN, Clean(r, removed)
  PROVE  CallInv'
<1>1. /\ at'[r] = "off"
      /\ \A q \in Run \ {r} : at'[q] = at[q] /\ stopped'[q] = stopped[q]
  <2>1. /\ at \in [Run -> RunPc] /\ explicit \in [Run -> BOOLEAN]
        /\ stopped \in [Run -> BOOLEAN] /\ mf \in [Run -> Manifests]
    BY Types
  <2>2. Leave(r)
    BY DEF Clean
  <2> QED  BY <2>1, <2>2, LeaveMove
<1>2. at[r] = "clean" /\ UNCHANGED <<status, cur>>
  BY DEF Clean, details
<1>3. Owned'
  BY <1>1, <1>2 DEF CallInv, Owned, Working
<1>4. Known'
  BY <1>1, <1>2 DEF CallInv, Known, Working
<1> QED  BY <1>3, <1>4 DEF CallInv

LEMMA CallRestart ==
  ASSUME TypeOK, CallInv, NEW jobs \in SUBSET Job, Restart(jobs)
  PROVE  CallInv'
<1>1. /\ \A k \in Job : status'[k] = IF k \in jobs THEN Restored(k) ELSE "absent"
      /\ \A k \in Job : Restored(k) \in Terminal
      /\ at' = [r \in Run |-> "off"]
  BY RestartMove
<1>2. \A k \in Job : status'[k] \notin Active
  BY <1>1 DEF Active, Terminal
<1> QED  BY <1>1, <1>2 DEF CallInv, Owned, Known, Working

LEMMA CallStep == TypeOK /\ CallInv /\ [Next]_vars => CallInv'
<1> SUFFICES ASSUME TypeOK, CallInv, [Next]_vars PROVE CallInv'
  OBVIOUS
<1>1. ASSUME UNCHANGED <<status, cur, at, stopped>> PROVE CallInv'
  BY <1>1 DEF CallInv, Owned, Known, Working
<1>2. ASSUME NEW r \in Run, NEW c \in Chunk, NEW saved \in BOOLEAN, Deliver(r, c, saved)
      PROVE  CallInv'
  BY <1>1, <1>2 DEF Deliver, details
<1>3. ASSUME NEW j \in Job, NEW saved \in BOOLEAN, Emit(j, saved) PROVE CallInv'
  BY <1>1, <1>3 DEF Emit
<1>4. ASSUME NEW f \in File, Lose(f) PROVE CallInv'
  BY <1>1, <1>4 DEF Lose, details
<1>5. CASE UNCHANGED vars
  BY <1>1, <1>5 DEF vars, details
<1> QED
  BY <1>2, <1>3, <1>4, <1>5, Steps, CallCreate, CallResume, CallCancel, CallForget,
     CallSender, CallFinish, CallClean, CallRestart

(* Between a request and a late report no call is lost, doubled or out of  *)
(* reach of a cancel: finishJob leaves the entry before the goroutine      *)
(* ends, resumeJob waits for that, and nothing else starts a call.         *)
THEOREM OneCall == Spec => []ActiveJobsHaveOneCall
<1>1. Init => TypeOK /\ CallInv
  BY TypeInit, CallInit
<1>2. TypeOK /\ CallInv /\ [Next]_vars => (TypeOK /\ CallInv)'
  BY TypeStep, CallStep
<1>3. TypeOK /\ CallInv => ActiveJobsHaveOneCall
  <2> SUFFICES ASSUME TypeOK, CallInv, NEW j \in Listed
               PROVE  /\ Calls(j) = IF Ended(j) THEN {} ELSE {cur[j]}
                      /\ status[j] = "canceling" => stopped[cur[j]]
    BY DEF ActiveJobsHaveOneCall
  <2>1. j \in Job /\ (Ended(j) <=> status[j] \notin Active)
    BY Types DEF Listed, Ended, Status, Active, Terminal
  <2> QED  BY <2>1 DEF CallInv, Owned, Known, Working, Calls, Active
<1> QED  BY <1>1, <1>2, <1>3, PTL DEF Spec

-----------------------------------------------------------------------------
(* Sidecars.  Only what is listed is written, and nothing else is listed   *)
(* again than what was written.                                            *)
Books ==
  /\ UNCHANGED <<request, forgotten>>
  /\ present' \subseteq present
  /\ trouble \subseteq trouble'
  /\ Listed' \subseteq Listed \cup Written
  /\ \A k \in Job : sidecar'[k] = sidecar[k] \/ (k \in Listed /\ sidecar'[k] # "none")

LEMMA PersistBooks ==
  ASSUME TypeOK, NEW j \in Listed, NEW saved \in BOOLEAN,
         Persist(j, TRUE, saved) \/ Persist(j, j \in attached, saved),
         UNCHANGED <<request, forgotten, present>>, Listed' \subseteq Listed
  PROVE  Books
<1>1. j \in Job /\ sidecar \in [Job -> Sidecar]
  BY Types DEF Listed
<1>2. /\ \A k \in Job \ {j} : sidecar'[k] = sidecar[k]
      /\ trouble' = IF saved THEN trouble ELSE trouble \cup {j}
      /\ IF saved THEN sidecar'[j] # "none" ELSE sidecar'[j] = sidecar[j]
  BY <1>1, PersistMove
<1> QED  BY <1>1, <1>2 DEF Books

LEMMA BooksSame ==
  ASSUME UNCHANGED <<request, forgotten, sidecar, trouble>>,
         present' \subseteq present, Listed' \subseteq Listed
  PROVE  Books
BY DEF Books

LEMMA BooksStep ==
  ASSUME TypeOK, [Next]_vars
  PROVE  \/ Books
         \/ \E j \in Job : Forget(j)
         \/ \E j \in Job, f \in File, d \in Dir, r \in Run, saved \in BOOLEAN :
              Create(j, f, d, r, saved)
<1>1. ASSUME NEW j \in Job, NEW r \in Run, NEW saved \in BOOLEAN, Resume(j, r, saved)
      PROVE  Books
  <2>1. /\ j \in Listed /\ Persist(j, j \in attached, saved)
        /\ UNCHANGED <<request, forgotten, present>>
        /\ status' = [status EXCEPT ![j] = "running"]
    BY <1>1 DEF Resume
  <2>2. Listed' \subseteq Listed
    BY <2>1 DEF Listed, TypeOK
  <2> QED  BY <2>1, <2>2, PersistBooks
<1>2. ASSUME NEW j \in Job, NEW saved \in BOOLEAN, Cancel(j, saved) PROVE Books
  <2>1. /\ j \in Listed /\ Persist(j, j \in attached, saved)
        /\ UNCHANGED <<request, forgotten, present>>
        /\ status' = [status EXCEPT ![j] = "canceling"]
    BY <1>2 DEF Cancel
  <2>2. Listed' \subseteq Listed
    BY <2>1 DEF Listed, TypeOK
  <2> QED  BY <2>1, <2>2, PersistBooks
<1>3. ASSUME NEW j \in Job, NEW saved \in BOOLEAN, Emit(j, saved) PROVE Books
  <2>1. /\ UNCHANGED <<request, forgotten, present, status>>
        /\ \/ j \in Listed /\ Persist(j, TRUE, saved)
           \/ UNCHANGED <<sidecar, trouble>>
    BY <1>3 DEF Emit, Hears
  <2>2. Listed' \subseteq Listed
    BY <2>1 DEF Listed
  <2> QED  BY <2>1, <2>2, PersistBooks, BooksSame
<1>4. ASSUME NEW j \in Job, ForgetFails(j) PROVE Books
  BY <1>4 DEF ForgetFails, Books, WithoutStaging, details, Listed
<1>5. ASSUME NEW r \in Run, Open(r) \/ OpenFails(r) PROVE Books
  BY <1>5, BooksSame DEF Open, OpenFails, details, Listed
<1>6. ASSUME NEW r \in Run, NEW c \in Chunk, NEW saved \in BOOLEAN, Deliver(r, c, saved)
      PROVE  Books
  BY <1>6, BooksSame DEF Deliver, details, Listed
<1>7. ASSUME NEW r \in Run, NEW saved \in BOOLEAN, Returning(r, saved) PROVE Books
  <2>1. UNCHANGED <<request, details, sidecar, present, forgotten, trouble>>
    BY <1>7, ReturnMove
  <2> QED  BY <2>1, BooksSame DEF details, Listed
<1>8. ASSUME NEW r \in Run, NEW saved \in BOOLEAN, SetManifest(r, saved) PROVE Books
  <2>1. /\ trouble \subseteq trouble'
        /\ \A k \in Job : \/ sidecar'[k] = sidecar[k]
                          \/ sidecar'[k] = "attached" /\ k \in Listed
        /\ UNCHANGED <<request, status, present, forgotten>>
    BY <1>8, SetManifestMove
  <2> QED  BY <2>1 DEF Books, Listed
<1>9. ASSUME NEW r \in Run, NEW saved \in BOOLEAN, Finish(r, saved) PROVE Books
  <2>1. CASE JobOf[r] \in Listed
    <3> SUFFICES ASSUME NEW j \in Listed, j = JobOf[r] PROVE Books
      BY <2>1
    <3>1. /\ Entered(j, Outcome(r), attached, resumable)
          /\ Persist(j, j \in attached, saved)
          /\ UNCHANGED <<request, present, forgotten>>
      BY <1>9, FinishMove
    <3>2. Listed' \subseteq Listed
      BY <3>1 DEF Entered
    <3> QED  BY <3>1, <3>2, PersistBooks
  <2>2. CASE JobOf[r] \notin Listed
    <3>1. UNCHANGED <<request, details, sidecar, present, forgotten, trouble>>
      BY <1>9, <2>2, FinishGone
    <3> QED  BY <3>1, BooksSame DEF details, Listed
  <2> QED  BY <2>1, <2>2
<1>10. ASSUME NEW r \in Run, NEW removed \in BOOLEAN, Clean(r, removed) PROVE Books
  BY <1>10, BooksSame DEF Clean, details, Listed
<1>11. ASSUME NEW f \in File, Lose(f) PROVE Books
  BY <1>11, BooksSame DEF Lose, details, Listed
<1>12. ASSUME NEW jobs \in SUBSET Job, Restart(jobs) PROVE Books
  <2>1. /\ Listed' = jobs /\ \A k \in jobs : sidecar[k] # "none"
        /\ UNCHANGED <<request, sidecar, present, forgotten, trouble>>
    BY <1>12, RestartMove
  <2> QED  BY <2>1 DEF Books, Written
<1>13. CASE UNCHANGED vars
  BY <1>13, BooksSame DEF vars, details, Listed
<1> QED
  BY <1>1, <1>2, <1>3, <1>4, <1>5, <1>6, <1>7, <1>8, <1>9, <1>10, <1>11, <1>12,
     <1>13, Steps

LEMMA CreateBooks ==
  ASSUME TypeOK, NEW j \in Job, NEW f \in File, NEW d \in Dir, NEW r \in Run,
         NEW saved \in BOOLEAN, Create(j, f, d, r, saved)
  PROVE  /\ j = created + 1 /\ created' = j
         /\ file' = [file EXCEPT ![j] = f]
         /\ UNCHANGED <<forgotten, present>>
         /\ Listed' \subseteq Listed \cup {j}
         /\ trouble \subseteq trouble'
         /\ \A k \in Job \ {j} : sidecar'[k] = sidecar[k]
         /\ sidecar'[j] # "none" \/ j \in trouble'
<1>1. sidecar \in [Job -> Sidecar] /\ Persist(j, FALSE, saved)
  BY Types DEF Create
<1>2. /\ \A k \in Job \ {j} : sidecar'[k] = sidecar[k]
      /\ trouble' = IF saved THEN trouble ELSE trouble \cup {j}
      /\ IF saved THEN sidecar'[j] # "none" ELSE sidecar'[j] = sidecar[j]
  BY <1>1, PersistMove
<1>3. /\ j = created + 1 /\ created' = j
      /\ file' = [file EXCEPT ![j] = f]
      /\ UNCHANGED <<forgotten, present>>
      /\ Listed' \subseteq Listed \cup {j}
  BY CreateMove
<1> QED  BY <1>2, <1>3

LEMMA ForgottenStep ==
  ASSUME TypeOK, ForgottenStaysForgotten, [Next]_vars
  PROVE  ForgottenStaysForgotten'
<1>0. forgotten \subseteq Job
  BY ConstantsAssumption DEF TypeOK, Job
<1>1. CASE Books
  BY <1>0, <1>1 DEF Books, ForgottenStaysForgotten, Written
<1>2. ASSUME NEW j \in Job, Forget(j) PROVE ForgottenStaysForgotten'
  <2>1. /\ Listed' = Listed \ {j} /\ forgotten' = forgotten \cup {j}
        /\ sidecar' = [sidecar EXCEPT ![j] = "none"]
    BY <1>2 DEF Forget, Keep, Listed
  <2>2. \A k \in Job : sidecar'[k] = IF k = j THEN "none" ELSE sidecar[k]
    BY <2>1 DEF TypeOK
  <2> QED  BY <1>0, <2>1, <2>2 DEF ForgottenStaysForgotten
<1>3. ASSUME NEW j \in Job, NEW f \in File, NEW d \in Dir, NEW r \in Run,
             NEW saved \in BOOLEAN, Create(j, f, d, r, saved)
      PROVE  ForgottenStaysForgotten'
  <2>1. /\ j = created + 1 /\ forgotten' = forgotten
        /\ Listed' \subseteq Listed \cup {j}
        /\ \A k \in Job \ {j} : sidecar'[k] = sidecar[k]
    BY <1>3, CreateBooks
  <2>2. j \notin forgotten
    BY <2>1 DEF TypeOK
  <2> QED  BY <1>0, <2>1, <2>2 DEF ForgottenStaysForgotten
<1> QED  BY <1>1, <1>2, <1>3, BooksStep

(* A removed job is not written back by a report that comes late, and so   *)
(* no restart finds it: updateJobProgress, setJobManifest and finishJob    *)
(* look the job up before they persist it.                                 *)
THEOREM ForgottenForGood == Spec => []ForgottenStaysForgotten
<1>1. Init => TypeOK /\ ForgottenStaysForgotten
  BY TypeInit DEF Init, ForgottenStaysForgotten
<1>2. TypeOK /\ ForgottenStaysForgotten /\ [Next]_vars
        => (TypeOK /\ ForgottenStaysForgotten)'
  BY TypeStep, ForgottenStep
<1> QED  BY <1>1, <1>2, PTL DEF Spec

LEMMA StagingStep ==
  ASSUME TypeOK, StagingIsOwned, [Next]_vars
  PROVE  StagingIsOwned'
<1>0. 1..created \subseteq Job
  BY ConstantsAssumption DEF TypeOK, Job
<1>1. CASE Books
  BY <1>0, <1>1 DEF Books, StagingIsOwned, request
<1>2. ASSUME NEW j \in Job, Forget(j) PROVE StagingIsOwned'
  <2>1. /\ UNCHANGED <<created, file, trouble>>
        /\ present' = present \ (Staged \cap {file[j]})
        /\ sidecar' = [sidecar EXCEPT ![j] = "none"]
    BY <1>2 DEF Forget, WithoutStaging, request
  <2>2. \A k \in Job \ {j} : sidecar'[k] = sidecar[k]
    BY <2>1 DEF TypeOK
  <2> QED  BY <1>0, <2>1, <2>2 DEF StagingIsOwned
<1>3. ASSUME NEW j \in Job, NEW f \in File, NEW d \in Dir, NEW r \in Run,
             NEW saved \in BOOLEAN, Create(j, f, d, r, saved)
      PROVE  StagingIsOwned'
  <2>1. /\ j = created + 1 /\ created' = j
        /\ file' = [file EXCEPT ![j] = f] /\ present' = present
        /\ trouble \subseteq trouble'
        /\ \A k \in Job \ {j} : sidecar'[k] = sidecar[k]
        /\ sidecar'[j] # "none" \/ j \in trouble'
    BY <1>3, CreateBooks
  <2>2. \A k \in 1..created' : k = j \/ (k \in 1..created /\ k \in Job \ {j})
    BY <1>0, <2>1 DEF TypeOK
  <2>3. \A k \in Job \ {j} : file'[k] = file[k]
    BY <2>1 DEF TypeOK
  <2> QED  BY <2>1, <2>2, <2>3 DEF StagingIsOwned
<1> QED  BY <1>1, <1>2, <1>3, BooksStep

(* No staging directory is left that only its job knew of: forgetJob       *)
(* removes it before the sidecar.                                          *)
THEOREM StagingOwned == Spec => []StagingIsOwned
<1>1. Init => TypeOK /\ StagingIsOwned
  BY TypeInit DEF Init, StagingIsOwned
<1>2. TypeOK /\ StagingIsOwned /\ [Next]_vars => (TypeOK /\ StagingIsOwned)'
  BY TypeStep, StagingStep
<1> QED  BY <1>1, <1>2, PTL DEF Spec

-----------------------------------------------------------------------------
(* Chunks.  What a manifest says, on disk or in a call, the receiver has,  *)
(* in the directory of the job, when the job is the only one of its file;  *)
(* and the manifest is complete from the moment a call succeeds.           *)
Succeeded(j) ==
  status[j] = "done" \/ \E r \in Run : JobOf[r] = j /\ at[r] \in {"ok", "finish"}

Backed(j) ==
  /\ disk[file[j]].done \subseteq held[disk[file[j]].tx][dir[j]]
  /\ \A r \in Run : JobOf[r] = j => mf[r].done \subseteq held[mf[r].tx][dir[j]]
  /\ Succeeded(j) => disk[file[j]].done = ChunksOf(file[j])

Unused == \A f \in File : (\A k \in 1..created : file[k] # f) => disk[f].done = {}
Idle == \A r \in Run : at[r] = "off" => mf[r].done = {}

DeliveryInv == Unused /\ Idle /\ \A j \in 1..created : Alone(j) => Backed(j)

LEMMA NoManifestFacts ==
  /\ NoManifest \in Manifests /\ NoManifest.done = {} /\ NoManifest.tx \in Tx
BY ConstantsAssumption DEF Stored, NoManifest, Manifests, Tx, NoTx

LEMMA DeliveryInit == Init => DeliveryInv
<1> SUFFICES ASSUME Init PROVE DeliveryInv
  OBVIOUS
<1>1. \A f \in File : disk[f].done = {}
  BY NoManifestFacts DEF Init
<1>2. \A r \in Run : mf[r].done = {}
  BY NoManifestFacts DEF Init
<1>3. 1..created = {}
  BY DEF Init
<1> QED  BY <1>1, <1>2, <1>3 DEF DeliveryInv, Unused, Idle

LEMMA JobsOfFiles ==
  ASSUME TypeOK
  PROVE  /\ 1..created \subseteq Job
         /\ \A j \in Job : file[j] \in File /\ dir[j] \in Dir
         /\ \A r \in Run : JobOf[r] \in Job
         /\ \A r \in Run : at[r] # "off" => JobOf[r] \in 1..created
BY ConstantsAssumption, OfRun DEF TypeOK, Job

(* A step that moves no chunk and makes nothing succeed.                   *)
LEMMA DeliverySame ==
  ASSUME TypeOK, DeliveryInv, UNCHANGED <<request, disk, held, mf>>,
         \A j \in Job : status'[j] = "done" => status[j] = "done",
         \A r \in Run : /\ at'[r] \in {"ok", "finish"} => at[r] \in {"ok", "finish"}
                        /\ at'[r] = "off" => at[r] = "off"
  PROVE  DeliveryInv'
<1>1. Unused' /\ Idle'
  BY DEF DeliveryInv, Unused, Idle, request
<1>2. ASSUME NEW j \in 1..created, Alone(j)' PROVE Backed(j)'
  <2>1. Alone(j) /\ j \in Job
    BY <1>2, JobsOfFiles DEF Alone, request
  <2>2. Backed(j)
    BY <2>1 DEF DeliveryInv
  <2>3. Succeeded(j)' => Succeeded(j)
    BY <2>1 DEF Succeeded
  <2> QED  BY <2>2, <2>3 DEF Backed, request
<1> QED  BY <1>1, <1>2 DEF DeliveryInv, request

LEMMA DeliveryCreate ==
  ASSUME TypeOK, CallInv, DeliveryInv, NEW j \in Job, NEW f \in File, NEW d \in Dir,
         NEW r \in Run, NEW saved \in BOOLEAN, Create(j, f, d, r, saved)
  PROVE  DeliveryInv'
<1>1. /\ j = created + 1 /\ created' = j
      /\ status'[j] = "running"
      /\ file' = [file EXCEPT ![j] = f] /\ dir' = [dir EXCEPT ![j] = d]
      /\ UNCHANGED <<disk, held, mf>>
      /\ \A k \in Job \ {j} :
           status'[k] = status[k] \/ (status[k] \in Terminal /\ status'[k] = "absent")
  BY CreateMove
<1>2. /\ JobOf[r] = j /\ at'[r] = "open"
      /\ \A q \in Run \ {r} : at'[q] = at[q]
  <2>1. Begin(r, j, FALSE)
    BY DEF Create
  <2> QED  BY <2>1, BeginMove, Shapes
<1>3. /\ \A k \in Job \ {j} : file'[k] = file[k] /\ dir'[k] = dir[k]
      /\ file'[j] = f /\ dir'[j] = d
  BY <1>1 DEF TypeOK
<1>4. /\ 1..created \subseteq Job \ {j} /\ j \in 1..created'
      /\ \A k \in 1..created' : k = j \/ k \in 1..created
      /\ 1..created \subseteq 1..created'
  BY <1>1, JobsOfFiles DEF TypeOK
<1>5. Unused'
  BY <1>1, <1>3, <1>4 DEF DeliveryInv, Unused
<1>6. Idle'
  BY <1>1, <1>2 DEF DeliveryInv, Idle
<1>7. ASSUME Alone(j)' PROVE Backed(j)'
  <2>1. \A k \in 1..created : file[k] # f
    BY <1>3, <1>4, <1>7 DEF Alone
  <2>2. disk[f].done = {}
    BY <2>1 DEF DeliveryInv, Unused
  <2>3. \A q \in Run : JobOf[q] = j => at[q] = "off" /\ mf[q].done = {}
    BY <1>4, JobsOfFiles DEF DeliveryInv, Idle
  <2>4. ~Succeeded(j)'
    BY <1>1, <1>2, <2>3 DEF Succeeded
  <2> QED  BY <1>1, <1>3, <2>2, <2>3, <2>4 DEF Backed
<1>8. ASSUME NEW k \in 1..created, Alone(k)' PROVE Backed(k)'
  <2>1. Alone(k)
    BY <1>3, <1>4, <1>8 DEF Alone
  <2>2. Backed(k) /\ file'[k] = file[k] /\ dir'[k] = dir[k] /\ k \in Job \ {j}
    BY <1>3, <1>4, <2>1 DEF DeliveryInv
  <2>3. Succeeded(k)' => Succeeded(k)
    BY <1>1, <1>2, <2>2 DEF Succeeded
  <2> QED  BY <1>1, <2>2, <2>3 DEF Backed
<1> QED  BY <1>4, <1>5, <1>6, <1>7, <1>8 DEF DeliveryInv

(* While a call works, no other call of the job does, and the job has not  *)
(* succeeded.                                                              *)
LEMMA NotYet ==
  ASSUME TypeOK, CallInv, NEW r \in Run, at[r] \in {"open", "send"}
  PROVE  ~Succeeded(JobOf[r])
<1>1. status[JobOf[r]] \in Active /\ cur[JobOf[r]] = r
  BY DEF CallInv, Owned, Working
<1>2. \A q \in Run : JobOf[q] = JobOf[r] /\ at[q] \in {"ok", "finish"} => q = r
  BY <1>1 DEF CallInv, Owned, Working
<1> QED  BY <1>1, <1>2 DEF Succeeded, Active

LEMMA DeliveryOpen ==
  ASSUME TypeOK, CallInv, DeliveryInv, NEW r \in Run, Open(r)
  PROVE  DeliveryInv'
<1>1. /\ at[r] = "open"
      /\ mf' = [mf EXCEPT ![r] = disk'[SourceOf(r)]]
      /\ disk' = [disk EXCEPT ![SourceOf(r)] = LoadOrCreate(@, explicit[r], JobOf[r])]
      /\ Goes(r, "send")
      /\ UNCHANGED <<request, details, held>>
  BY OpenMove
<1>2. /\ JobOf[r] \in 1..created /\ SourceOf(r) \in File
      /\ SourceOf(r) = file[JobOf[r]]
  BY <1>1, OfRun DEF SourceOf
<1>3. at'[r] = "send" /\ \A q \in Run \ {r} : at'[q] = at[q]
  BY <1>1, GoesMove, Types DEF RunPc
<1>4. \A f \in File \ {SourceOf(r)} : disk'[f] = disk[f]
  BY <1>1 DEF TypeOK
<1>5. \/ disk'[SourceOf(r)].done = {}
      \/ /\ disk'[SourceOf(r)].done = disk[SourceOf(r)].done
         /\ disk'[SourceOf(r)].tx = disk[SourceOf(r)].tx
  BY <1>1, <1>2 DEF TypeOK, LoadOrCreate, Stored, Manifests
<1>6. \A q \in Run : mf'[q] = IF q = r THEN disk'[SourceOf(r)] ELSE mf[q]
  BY <1>1 DEF TypeOK
<1>7. Unused'
  BY <1>1, <1>2, <1>4 DEF DeliveryInv, Unused, request
<1>8. Idle'
  BY <1>3, <1>6 DEF DeliveryInv, Idle
<1>9. ASSUME NEW j \in 1..created, Alone(j)' PROVE Backed(j)'
  <2>1. Alone(j) /\ Backed(j) /\ j \in Job /\ file[j] \in File
    BY <1>1, <1>9, JobsOfFiles DEF DeliveryInv, Alone, request
  <2>2. CASE JobOf[r] = j
    <3>1. ~Succeeded(j)
      BY <1>1, <2>2, NotYet
    <3>2. ~Succeeded(j)'
      BY <1>1, <1>3, <3>1 DEF Succeeded, details
    <3>3. disk'[file[j]].done \subseteq held[disk'[file[j]].tx][dir[j]]
      BY <1>2, <1>5, <2>1, <2>2 DEF Backed
    <3>4. \A q \in Run : JobOf[q] = j => mf'[q].done \subseteq held[mf'[q].tx][dir[j]]
      BY <1>2, <1>6, <2>1, <2>2, <3>3 DEF Backed
    <3> QED  BY <1>1, <3>2, <3>3, <3>4 DEF Backed, request
  <2>3. CASE JobOf[r] # j
    <3>1. file[j] # SourceOf(r)
      BY <1>2, <2>1, <2>3 DEF Alone
    <3>2. disk'[file[j]] = disk[file[j]]
      BY <1>4, <2>1, <3>1
    <3>3. Succeeded(j)' => Succeeded(j)
      BY <1>1, <1>3, <2>3 DEF Succeeded, details
    <3>4. \A q \in Run : JobOf[q] = j => mf'[q] = mf[q]
      BY <1>6, <2>3
    <3> QED  BY <1>1, <2>1, <3>2, <3>3, <3>4 DEF Backed, request
  <2> QED  BY <2>2, <2>3
<1> QED  BY <1>1, <1>7, <1>8, <1>9 DEF DeliveryInv, request

LEMMA DeliveryDeliver ==
  ASSUME TypeOK, CallInv, DeliveryInv, NEW r \in Run, NEW c \in Chunk,
         NEW saved \in BOOLEAN, Deliver(r, c, saved)
  PROVE  DeliveryInv'
<1>1. /\ at[r] = "send"
      /\ mf'[r].tx = mf[r].tx /\ mf'[r].done = mf[r].done \cup {c}
      /\ \A q \in Run \ {r} : mf'[q] = mf[q]
      /\ held' = [held EXCEPT ![mf[r].tx] =
                    [held[mf[r].tx] EXCEPT ![dir[JobOf[r]]] = @ \cup {c}]]
      /\ disk' \in {disk, [disk EXCEPT ![SourceOf(r)] = mf'[r]]}
      /\ UNCHANGED <<request, details, at>>
  BY DeliverMove
<1>2. /\ JobOf[r] \in 1..created /\ SourceOf(r) \in File
      /\ SourceOf(r) = file[JobOf[r]]
      /\ mf[r].tx \in Tx /\ dir[JobOf[r]] \in Dir
  BY <1>1, OfRun DEF SourceOf
<1>3. /\ \A x \in Tx, d \in Dir : held[x][d] \subseteq held'[x][d]
      /\ c \in held'[mf[r].tx][dir[JobOf[r]]]
  <2>1. /\ held'[mf[r].tx] = [held[mf[r].tx] EXCEPT ![dir[JobOf[r]]] = @ \cup {c}]
        /\ \A x \in Tx \ {mf[r].tx} : held'[x] = held[x]
    BY <1>1, <1>2 DEF TypeOK
  <2>2. \A x \in Tx : held[x] \in [Dir -> SUBSET Chunk]
    BY DEF TypeOK
  <2>3. /\ held'[mf[r].tx][dir[JobOf[r]]] = held[mf[r].tx][dir[JobOf[r]]] \cup {c}
        /\ \A d \in Dir \ {dir[JobOf[r]]} : held'[mf[r].tx][d] = held[mf[r].tx][d]
    BY <1>2, <2>1, <2>2
  <2> QED  BY <1>2, <2>1, <2>3
<1>4. \A f \in File \ {SourceOf(r)} : disk'[f] = disk[f]
  BY <1>1 DEF TypeOK
<1>5. disk'[SourceOf(r)] = disk[SourceOf(r)] \/ disk'[SourceOf(r)] = mf'[r]
  BY <1>1, <1>2 DEF TypeOK
<1>6. \A f \in File, q \in Run : disk[f].tx \in Tx /\ mf[q].tx \in Tx
  BY DEF TypeOK, Manifests
<1>7. Unused'
  BY <1>1, <1>2, <1>4 DEF DeliveryInv, Unused, request
<1>8. Idle'
  BY <1>1 DEF DeliveryInv, Idle
<1>9. ASSUME NEW j \in 1..created, Alone(j)' PROVE Backed(j)'
  <2>1. /\ Alone(j) /\ Backed(j) /\ j \in Job /\ file[j] \in File /\ dir[j] \in Dir
    BY <1>1, <1>9, JobsOfFiles DEF DeliveryInv, Alone, request
  <2>2. \A q \in Run : JobOf[q] = j => mf'[q].done \subseteq held'[mf'[q].tx][dir[j]]
    <3> SUFFICES ASSUME NEW q \in Run, JobOf[q] = j
                 PROVE  mf'[q].done \subseteq held'[mf'[q].tx][dir[j]]
      OBVIOUS
    <3>1. mf[q].done \subseteq held'[mf[q].tx][dir[j]]
      BY <1>3, <1>6, <2>1 DEF Backed
    <3> QED  BY <1>1, <1>3, <3>1
  <2>3. disk[file[j]].done \subseteq held'[disk[file[j]].tx][dir[j]]
    BY <1>3, <1>6, <2>1 DEF Backed
  <2>4. CASE JobOf[r] = j
    <3>1. ~Succeeded(j)'
      BY <1>1, <2>4, NotYet DEF Succeeded, details
    <3>2. disk'[file[j]].done \subseteq held'[disk'[file[j]].tx][dir[j]]
      BY <1>2, <1>5, <2>2, <2>3, <2>4
    <3> QED  BY <1>1, <2>2, <3>1, <3>2 DEF Backed, request
  <2>5. CASE JobOf[r] # j
    <3>1. disk'[file[j]] = disk[file[j]]
      BY <1>2, <1>4, <2>1, <2>5 DEF Alone
    <3>2. Succeeded(j)' => Succeeded(j)
      BY <1>1 DEF Succeeded, details
    <3> QED  BY <1>1, <2>1, <2>2, <2>3, <3>1, <3>2 DEF Backed, request
  <2> QED  BY <2>4, <2>5
<1> QED  BY <1>1, <1>7, <1>8, <1>9 DEF DeliveryInv, request

LEMMA DeliveryReturn ==
  ASSUME TypeOK, CallInv, DeliveryInv, NEW r \in Run, NEW saved \in BOOLEAN,
         Returning(r, saved)
  PROVE  DeliveryInv'
<1>1. /\ at[r] = "send"
      /\ Goes(r, "ok") \/ Goes(r, "canceled") \/ Goes(r, "failed")
      /\ \A f \in File :
           \/ disk'[f] = disk[f]
           \/ /\ f = SourceOf(r)
              /\ disk'[f].tx = mf[r].tx /\ disk'[f].done = mf[r].done
      /\ Goes(r, "ok") => /\ mf[r].done = ChunksOf(SourceOf(r))
                          /\ disk'[SourceOf(r)] = mf[r]
      /\ UNCHANGED <<request, details, held, mf>>
  BY ReturnMove DEF call
<1>2. /\ JobOf[r] \in 1..created /\ SourceOf(r) \in File
      /\ SourceOf(r) = file[JobOf[r]]
  BY <1>1, OfRun DEF SourceOf
<1>3. /\ at'[r] \in {"ok", "canceled", "failed"}
      /\ at'[r] = "ok" => Goes(r, "ok")
      /\ \A q \in Run \ {r} : at'[q] = at[q]
  <2>1. at \in [Run -> RunPc] /\ {"ok", "canceled", "failed"} \subseteq RunPc
    BY Types DEF RunPc
  <2> QED  BY <1>1, <2>1, GoesMove
<1>4. Unused'
  BY <1>1, <1>2 DEF DeliveryInv, Unused, request
<1>5. Idle'
  BY <1>1, <1>3 DEF DeliveryInv, Idle
<1>6. ASSUME NEW j \in 1..created, Alone(j)' PROVE Backed(j)'
  <2>1. Alone(j) /\ Backed(j) /\ j \in Job /\ file[j] \in File
    BY <1>1, <1>6, JobsOfFiles DEF DeliveryInv, Alone, request
  <2>2. CASE JobOf[r] = j
    <3>1. ~Succeeded(j)
      BY <1>1, <2>2, NotYet
    <3>2. disk'[file[j]].done \subseteq held[disk'[file[j]].tx][dir[j]]
      BY <1>1, <1>2, <2>1, <2>2 DEF Backed
    <3>3. Succeeded(j)' => disk'[file[j]].done = ChunksOf(file[j])
      BY <1>1, <1>2, <1>3, <2>2, <3>1 DEF Succeeded, details
    <3> QED  BY <1>1, <2>1, <3>2, <3>3 DEF Backed, request
  <2>3. CASE JobOf[r] # j
    <3>1. disk'[file[j]] = disk[file[j]]
      BY <1>1, <1>2, <2>1, <2>3 DEF Alone
    <3>2. Succeeded(j)' => Succeeded(j)
      BY <1>1, <1>3, <2>3 DEF Succeeded, details
    <3> QED  BY <1>1, <2>1, <3>1, <3>2 DEF Backed, request
  <2> QED  BY <2>2, <2>3
<1> QED  BY <1>1, <1>4, <1>5, <1>6 DEF DeliveryInv, request

(* A call is over: what it knew is gone, and nothing succeeds but what had *)
(* already.                                                                *)
LEMMA DeliveryLeave ==
  ASSUME TypeOK, DeliveryInv, NEW r \in Run, UNCHANGED <<request, disk, held>>,
         at'[r] \in {"off", "clean"},
         \/ mf'[r] = NoManifest
         \/ mf'[r] = mf[r] /\ at'[r] # "off",
         \A q \in Run \ {r} : at'[q] = at[q] /\ mf'[q] = mf[q],
         \A j \in Job : status'[j] = "done" => Succeeded(j)
  PROVE  DeliveryInv'
<1>1. Unused'
  BY DEF DeliveryInv, Unused, request
<1>2. Idle'
  BY NoManifestFacts DEF DeliveryInv, Idle
<1>3. ASSUME NEW j \in 1..created, Alone(j)' PROVE Backed(j)'
  <2>1. Alone(j) /\ Backed(j) /\ j \in Job
    BY <1>3, JobsOfFiles DEF DeliveryInv, Alone, request
  <2>2. Succeeded(j)' => Succeeded(j)
    BY <2>1 DEF Succeeded
  <2>3. \A q \in Run : JobOf[q] = j => mf'[q].done \subseteq held[mf'[q].tx][dir[j]]
    BY <2>1, NoManifestFacts DEF Backed
  <2> QED  BY <2>1, <2>2, <2>3 DEF Backed, request
<1> QED  BY <1>1, <1>2, <1>3 DEF DeliveryInv, request

LEMMA DeliveryFinish ==
  ASSUME TypeOK, DeliveryInv, NEW r \in Run, NEW saved \in BOOLEAN, Finish(r, saved)
  PROVE  DeliveryInv'
<1>1. /\ at'[r] \in {"off", "clean"}
      /\ \A q \in Run \ {r} : at'[q] = at[q] /\ mf'[q] = mf[q]
  BY FinishPc
<1>2. UNCHANGED <<request, disk, held>>
  BY DEF Finish
<1>3. mf'[r] = NoManifest \/ (mf'[r] = mf[r] /\ at'[r] # "off")
  BY DEF Finish, Goes, Leave, TypeOK
<1>4. \A j \in Job : status'[j] = "done" => Succeeded(j)
  <2>1. CASE JobOf[r] \in Listed
    <3> SUFFICES ASSUME NEW j \in Listed, j = JobOf[r],
                        NEW k \in Job, status'[k] = "done"
                 PROVE  Succeeded(k)
      BY <2>1
    <3>1. Entered(j, Outcome(r), attached, resumable)
      BY FinishMove
    <3>2. CASE k = j
      <4>1. Outcome(r) = "done"
        BY <3>1, <3>2 DEF Entered
      <4>2. at[r] = "finish"
        BY <4>1 DEF Outcome, Finish
      <4> QED  BY <3>2, <4>2 DEF Succeeded
    <3>3. CASE k # j
      BY <3>1, <3>3 DEF Entered, Succeeded
    <3> QED  BY <3>2, <3>3
  <2>2. CASE JobOf[r] \notin Listed
    BY <2>2, FinishGone DEF details, Succeeded
  <2> QED  BY <2>1, <2>2
<1> QED  BY <1>1, <1>2, <1>3, <1>4, DeliveryLeave

LEMMA DeliveryClean ==
  ASSUME TypeOK, DeliveryInv, NEW r \in Run, NEW removed \in BOOLEAN, Clean(r, removed)
  PROVE  DeliveryInv'
<1>1. /\ at'[r] = "off"
      /\ \A q \in Run \ {r} : at'[q] = at[q] /\ mf'[q] = mf[q]
  <2>1. /\ at \in [Run -> RunPc] /\ explicit \in [Run -> BOOLEAN]
        /\ stopped \in [Run -> BOOLEAN] /\ mf \in [Run -> Manifests]
    BY Types
  <2>2. Leave(r)
    BY DEF Clean
  <2> QED  BY <2>1, <2>2, LeaveMove
<1>2. mf'[r] = NoManifest
  BY DEF Clean, Leave, TypeOK
<1>3. UNCHANGED <<request, disk, held>> /\ \A j \in Job : status'[j] = "done" => Succeeded(j)
  BY DEF Clean, details, Succeeded
<1> QED  BY <1>1, <1>2, <1>3, DeliveryLeave

LEMMA DeliveryRestart ==
  ASSUME TypeOK, DeliveryInv, NEW jobs \in SUBSET Job, Restart(jobs)
  PROVE  DeliveryInv'
<1>1. /\ \A k \in Job : status'[k] = IF k \in jobs THEN Restored(k) ELSE "absent"
      /\ at' = [r \in Run |-> "off"]
      /\ UNCHANGED <<request, disk, held>>
  BY RestartMove
<1>2. \A r \in Run : at'[r] = "off" /\ mf'[r].done = {}
  BY <1>1, NoManifestFacts DEF Restart
<1>3. Unused' /\ Idle'
  BY <1>1, <1>2 DEF DeliveryInv, Unused, Idle, request
<1>4. ASSUME NEW j \in 1..created, Alone(j)' PROVE Backed(j)'
  <2>1. Alone(j) /\ Backed(j) /\ j \in Job
    BY <1>1, <1>4, JobsOfFiles DEF DeliveryInv, Alone, request
  <2>2. Succeeded(j)' => disk[file[j]].done = ChunksOf(file[j])
    BY <1>1, <1>2, <2>1 DEF Succeeded, Restored, Finished, Found, Complete, ChunksOf
  <2>3. \A q \in Run : mf'[q].done \subseteq held[mf'[q].tx][dir[j]]
    BY <1>2
  <2> QED  BY <1>1, <2>1, <2>2, <2>3 DEF Backed, request
<1> QED  BY <1>1, <1>3, <1>4 DEF DeliveryInv, request

LEMMA DeliveryStep ==
  ASSUME TypeOK, CallInv, DeliveryInv, [Next]_vars
  PROVE  DeliveryInv'
<1>1. ASSUME NEW j \in Job, NEW r \in Run, NEW saved \in BOOLEAN, Resume(j, r, saved)
      PROVE  DeliveryInv'
  <2>1. /\ UNCHANGED <<request, disk, held, mf>> /\ Begin(r, j, TRUE)
        /\ status' = [status EXCEPT ![j] = "running"]
    BY <1>1 DEF Resume
  <2>2. \A k \in Job : status'[k] = "done" => status[k] = "done"
    BY <2>1 DEF TypeOK
  <2>3. at'[r] = "open" /\ \A q \in Run \ {r} : at'[q] = at[q]
    BY <2>1, BeginMove, Shapes
  <2> QED  BY <2>1, <2>2, <2>3, DeliverySame
<1>2. ASSUME NEW j \in Job, NEW saved \in BOOLEAN, Cancel(j, saved) \/ Emit(j, saved)
      PROVE  DeliveryInv'
  <2>1. UNCHANGED <<request, disk, held, mf, at>>
    BY <1>2 DEF Cancel, Emit, call
  <2>2. \A k \in Job : status'[k] = "done" => status[k] = "done"
    BY <1>2 DEF Cancel, Emit, TypeOK
  <2> QED  BY <2>1, <2>2, DeliverySame
<1>3. ASSUME NEW j \in Job, Forget(j) \/ ForgetFails(j) PROVE DeliveryInv'
  <2>1. UNCHANGED <<request, disk, held, mf, at>>
    BY <1>3 DEF Forget, ForgetFails, call
  <2>2. \A k \in Job : status'[k] = "done" => status[k] = "done"
    BY <1>3 DEF Forget, ForgetFails, Keep, details
  <2> QED  BY <2>1, <2>2, DeliverySame
<1>4. ASSUME NEW r \in Run, NEW saved \in BOOLEAN, OpenFails(r) \/ SetManifest(r, saved)
      PROVE  DeliveryInv'
  <2>1. UNCHANGED <<request, disk, held, mf, status>>
    BY <1>4 DEF OpenFails, SetManifest, call, details
  <2>2. /\ \/ at[r] = "open" /\ at'[r] = "failed"
           \/ at[r] = "ok" /\ at'[r] = "finish"
        /\ \A q \in Run \ {r} : at'[q] = at[q]
    <3>1. at \in [Run -> RunPc] /\ {"failed", "finish"} \subseteq RunPc
      BY Types DEF RunPc
    <3> QED  BY <1>4, <3>1, GoesMove DEF OpenFails, SetManifest
  <2> QED  BY <2>1, <2>2, DeliverySame
<1>5. ASSUME NEW f \in File, Lose(f) PROVE DeliveryInv'
  BY <1>5, DeliverySame DEF Lose, call, details
<1>6. CASE UNCHANGED vars
  BY <1>6, DeliverySame DEF vars, call, details
<1> QED
  BY <1>1, <1>2, <1>3, <1>4, <1>5, <1>6, Steps, DeliveryCreate, DeliveryOpen,
     DeliveryDeliver, DeliveryReturn, DeliveryFinish, DeliveryClean, DeliveryRestart

(* What is shown as done has arrived: the answer of a call and the state   *)
(* that a restart rebuilds from sidecar and manifest agree about it.       *)
THEOREM DoneArrived == Spec => []DoneIsDelivered
<1>1. Init => TypeOK /\ CallInv /\ DeliveryInv
  BY TypeInit, CallInit, DeliveryInit
<1>2. TypeOK /\ CallInv /\ DeliveryInv /\ [Next]_vars
        => (TypeOK /\ CallInv /\ DeliveryInv)'
  BY TypeStep, CallStep, DeliveryStep
<1>3. TypeOK /\ DeliveryInv => DoneIsDelivered
  <2> SUFFICES ASSUME TypeOK, DeliveryInv, NEW j \in Listed, status[j] = "done", Alone(j),
                      file[j] \notin Empty
               PROVE  held[disk[file[j]].tx][dir[j]] = Chunk
    BY DEF DoneIsDelivered
  <2>1. j \in 1..created /\ j \in Job /\ file[j] \in File /\ dir[j] \in Dir
    BY JobsOfFiles DEF TypeOK
  <2>2. Backed(j) /\ Succeeded(j)
    BY <2>1 DEF DeliveryInv, Succeeded
  <2>3. disk[file[j]].tx \in Tx
    BY <2>1 DEF TypeOK, Manifests
  <2>4. held[disk[file[j]].tx][dir[j]] \subseteq Chunk
    BY <2>1, <2>3 DEF TypeOK
  <2> QED  BY <2>2, <2>4 DEF Backed, ChunksOf
<1> QED  BY <1>1, <1>2, <1>3, PTL DEF Spec

-----------------------------------------------------------------------------
(* Staging.  It belongs to one job; it is there as long as the job may     *)
(* still send it; and it is cleaned up for jobs that are done.             *)
Offers(j) == status[j] \in Active \/ MayResume(j)

OneOwner == \A j \in 1..created : file[j] \in Staged => Alone(j)

CleanWhenDone ==
  \A r \in Run : at[r] = "clean" => status[JobOf[r]] \in {"done", "absent"}

OffersStaging ==
  \A j \in 1..created :
    Offers(j) /\ file[j] \in Staged => file[j] \in present \/ j \in trouble

StageInv == OneOwner /\ CleanWhenDone /\ OffersStaging

LEMMA StageSame ==
  ASSUME TypeOK, StageInv, UNCHANGED request, trouble \subseteq trouble',
         \A j \in Job : Offers(j)' => Offers(j),
         \A j \in Job : status[j] \in {"done", "absent"} => status'[j] \in {"done", "absent"},
         present \cap Staged \subseteq present',
         \A r \in Run : at'[r] = "clean" => at[r] = "clean"
  PROVE  StageInv'
<1>1. OneOwner'
  BY DEF StageInv, OneOwner, Alone, request
<1>2. CleanWhenDone'
  BY JobsOfFiles DEF StageInv, CleanWhenDone
<1>3. OffersStaging'
  <2> SUFFICES ASSUME NEW j \in 1..created, Offers(j)', file[j] \in Staged
               PROVE  file[j] \in present' \/ j \in trouble'
    BY DEF OffersStaging, request
  <2>1. Offers(j)
    BY JobsOfFiles
  <2> QED  BY <2>1 DEF StageInv, OffersStaging
<1> QED  BY <1>1, <1>2, <1>3 DEF StageInv

LEMMA StageCreate ==
  ASSUME TypeOK, StageInv, NEW j \in Job, NEW f \in File, NEW d \in Dir, NEW r \in Run,
         NEW saved \in BOOLEAN, Create(j, f, d, r, saved)
  PROVE  StageInv'
<1>1. /\ j = created + 1 /\ created' = j
      /\ file' = [file EXCEPT ![j] = f]
      /\ resumable' = (resumable \cup {j}) \cap Listed'
      /\ UNCHANGED present
      /\ \A k \in Job \ {j} :
           status'[k] = status[k] \/ (status[k] \in Terminal /\ status'[k] = "absent")
  BY CreateMove
<1>2. /\ f \in present
      /\ f \in Staged => \A k \in 1..created : file[k] # f
      /\ Begin(r, j, FALSE)
  BY DEF Create
<1>3. trouble \subseteq trouble'
  BY CreateBooks
<1>4. at'[r] = "open" /\ \A q \in Run \ {r} : at'[q] = at[q]
  BY <1>2, BeginMove, Shapes
<1>5. file'[j] = f /\ \A k \in Job \ {j} : file'[k] = file[k]
  BY <1>1 DEF TypeOK
<1>6. /\ 1..created \subseteq Job \ {j} /\ j \in 1..created'
      /\ \A k \in 1..created' : k = j \/ k \in 1..created
      /\ 1..created \subseteq 1..created'
  BY <1>1, JobsOfFiles DEF TypeOK
<1>7. OneOwner'
  BY <1>2, <1>5, <1>6 DEF StageInv, OneOwner, Alone
<1>8. CleanWhenDone'
  <2> SUFFICES ASSUME NEW q \in Run, at'[q] = "clean"
               PROVE  status'[JobOf[q]] \in {"done", "absent"}
    BY DEF CleanWhenDone
  <2>1. at[q] = "clean" /\ JobOf[q] \in Job \ {j}
    BY <1>4, <1>6, JobsOfFiles
  <2>2. status[JobOf[q]] \in {"done", "absent"}
    BY <2>1 DEF StageInv, CleanWhenDone
  <2> QED  BY <1>1, <2>1, <2>2
<1>9. OffersStaging'
  <2> SUFFICES ASSUME NEW k \in 1..created', Offers(k)', file'[k] \in Staged
               PROVE  file'[k] \in present' \/ k \in trouble'
    BY DEF OffersStaging
  <2>1. CASE k = j
    BY <1>1, <1>2, <1>5, <2>1
  <2>2. CASE k # j
    <3>1. k \in 1..created /\ k \in Job \ {j} /\ file'[k] = file[k]
      BY <1>5, <1>6, <2>2
    <3>2. status'[k] # "absent"
      BY DEF Offers, MayResume, Active
    <3>3. Offers(k)
      BY <1>1, <3>1, <3>2 DEF Offers, MayResume
    <3> QED  BY <1>1, <1>3, <3>1, <3>3 DEF StageInv, OffersStaging
  <2> QED  BY <2>1, <2>2
<1> QED  BY <1>7, <1>8, <1>9 DEF StageInv

LEMMA StageResume ==
  ASSUME TypeOK, StageInv, NEW j \in Job, NEW r \in Run, NEW saved \in BOOLEAN,
         Resume(j, r, saved)
  PROVE  StageInv'
<1>1. /\ MayResume(j) /\ Begin(r, j, TRUE) /\ Persist(j, j \in attached, saved)
      /\ status' = [status EXCEPT ![j] = "running"]
      /\ UNCHANGED <<request, resumable, present>>
  BY DEF Resume
<1>2. trouble \subseteq trouble'
  BY <1>1 DEF Persist
<1>3. at'[r] = "open" /\ \A q \in Run \ {r} : at'[q] = at[q]
  BY <1>1, BeginMove, Shapes
<1>4. \A k \in Job : status'[k] = IF k = j THEN "running" ELSE status[k]
  BY <1>1 DEF TypeOK
<1>5. \A k \in Job : Offers(k)' => Offers(k)
  BY <1>1, <1>4 DEF Offers, MayResume
<1>6. \A k \in Job : status[k] \in {"done", "absent"} => status'[k] \in {"done", "absent"}
  BY <1>1, <1>4 DEF MayResume
<1> QED  BY <1>1, <1>2, <1>3, <1>5, <1>6, StageSame

LEMMA StageCancel ==
  ASSUME TypeOK, StageInv, NEW j \in Job, NEW saved \in BOOLEAN, Cancel(j, saved)
  PROVE  StageInv'
<1>1. /\ j \in Listed /\ ~Ended(j) /\ Persist(j, j \in attached, saved)
      /\ status' = [status EXCEPT ![j] = "canceling"]
      /\ UNCHANGED <<request, resumable, present, at>>
  BY DEF Cancel
<1>2. trouble \subseteq trouble'
  BY <1>1 DEF Persist
<1>3. status[j] \in Active
  BY <1>1, Types DEF Listed, Ended, Status
<1>4. \A k \in Job : status'[k] = IF k = j THEN "canceling" ELSE status[k]
  BY <1>1 DEF TypeOK
<1>5. \A k \in Job : Offers(k)' => Offers(k)
  BY <1>1, <1>3, <1>4 DEF Offers, MayResume
<1>6. \A k \in Job : status[k] \in {"done", "absent"} => status'[k] \in {"done", "absent"}
  BY <1>3, <1>4 DEF Active
<1> QED  BY <1>1, <1>2, <1>5, <1>6, StageSame

LEMMA StageForget ==
  ASSUME TypeOK, StageInv, NEW j \in Job, Forget(j) \/ ForgetFails(j)
  PROVE  StageInv'
<1>1. /\ present' = present \ (Staged \cap {file[j]})
      /\ trouble \subseteq trouble'
      /\ j \in Listed /\ UNCHANGED <<request, at>>
  BY DEF Forget, ForgetFails, WithoutStaging
<1>2. \A k \in Job : /\ Offers(k)' => Offers(k)
                     /\ status'[k] \in {status[k], "absent"}
  BY DEF Forget, ForgetFails, Keep, details, Offers, MayResume, Active
<1>3. ~Offers(j)' \/ j \in trouble'
  BY DEF Forget, ForgetFails, Keep, Offers, MayResume, Active
<1>4. OneOwner'
  BY <1>1 DEF StageInv, OneOwner, Alone, request
<1>5. CleanWhenDone'
  BY <1>1, <1>2, JobsOfFiles DEF StageInv, CleanWhenDone
<1>6. OffersStaging'
  <2> SUFFICES ASSUME NEW k \in 1..created, Offers(k)', file[k] \in Staged
               PROVE  file[k] \in present' \/ k \in trouble'
    BY <1>1 DEF OffersStaging, request
  <2>1. Offers(k) /\ j \in 1..created
    BY <1>1, <1>2, JobsOfFiles DEF TypeOK
  <2>2. file[k] \in present \/ k \in trouble
    BY <2>1 DEF StageInv, OffersStaging
  <2>3. k # j => file[j] # file[k]
    BY <2>1 DEF StageInv, OneOwner, Alone
  <2> QED  BY <1>1, <1>3, <2>2, <2>3
<1> QED  BY <1>4, <1>5, <1>6 DEF StageInv

LEMMA StageFinish ==
  ASSUME TypeOK, CallInv, StageInv, NEW r \in Run, NEW saved \in BOOLEAN, Finish(r, saved)
  PROVE  StageInv'
<1>1. /\ status[JobOf[r]] \in Active /\ JobOf[r] \in Job
      /\ at[r] \in {"failed", "canceled", "finish"}
  BY JobsOfFiles DEF Finish, CallInv, Owned, Working
<1>2. JobOf[r] \in Listed
  BY <1>1 DEF Listed, Active
<1> SUFFICES ASSUME NEW j \in Listed, j = JobOf[r] PROVE StageInv'
  BY <1>2
<1>3. /\ Entered(j, Outcome(r), attached, resumable)
      /\ Persist(j, j \in attached, saved)
      /\ UNCHANGED <<request, present>>
  BY FinishMove
<1>4. trouble \subseteq trouble'
  BY <1>3 DEF Persist
<1>5. /\ at'[r] = IF Cleans(r) THEN "clean" ELSE "off"
      /\ \A q \in Run \ {r} : at'[q] = at[q]
  BY FinishPc
<1>6. at'[r] = "clean" => status'[j] \in {"done", "absent"}
  BY <1>3, <1>5 DEF Cleans, Outcome, Entered
<1>7. \A k \in Job \ {j} :
        status'[k] = status[k] \/ (status[k] \in Terminal /\ status'[k] = "absent")
  BY <1>3 DEF Entered
<1>8. OneOwner'
  BY <1>3 DEF StageInv, OneOwner, Alone, request
<1>9. CleanWhenDone'
  <2> SUFFICES ASSUME NEW q \in Run, at'[q] = "clean"
               PROVE  status'[JobOf[q]] \in {"done", "absent"}
    BY DEF CleanWhenDone
  <2>1. CASE q = r
    BY <1>6, <2>1
  <2>2. CASE q # r
    <3>1. status[JobOf[q]] \in {"done", "absent"}
      BY <1>5, <2>2 DEF StageInv, CleanWhenDone
    <3>2. JobOf[q] \in Job \ {j}
      BY <1>1, <3>1, JobsOfFiles DEF Active
    <3> QED  BY <1>7, <3>1, <3>2
  <2> QED  BY <2>1, <2>2
<1>10. OffersStaging'
  <2> SUFFICES ASSUME NEW k \in 1..created, Offers(k)', file[k] \in Staged
               PROVE  file[k] \in present \/ k \in trouble'
    BY <1>3 DEF OffersStaging, request
  <2>1. Offers(k)
    <3>1. CASE k = j
      BY <1>1, <3>1 DEF Offers
    <3>2. CASE k # j
      <4>1. k \in Job \ {j} /\ status'[k] # "absent"
        BY <3>2, JobsOfFiles DEF Offers, MayResume, Active
      <4>2. resumable' \subseteq resumable
        BY <1>3 DEF Entered
      <4> QED  BY <1>7, <4>1, <4>2 DEF Offers, MayResume
    <3> QED  BY <3>1, <3>2
  <2> QED  BY <1>4, <2>1 DEF StageInv, OffersStaging
<1> QED  BY <1>8, <1>9, <1>10 DEF StageInv

LEMMA StageClean ==
  ASSUME TypeOK, StageInv, NEW r \in Run, NEW removed \in BOOLEAN, Clean(r, removed)
  PROVE  StageInv'
<1>1. at'[r] = "off" /\ \A q \in Run \ {r} : at'[q] = at[q]
  <2>1. /\ at \in [Run -> RunPc] /\ explicit \in [Run -> BOOLEAN]
        /\ stopped \in [Run -> BOOLEAN] /\ mf \in [Run -> Manifests]
    BY Types
  <2>2. Leave(r)
    BY DEF Clean
  <2> QED  BY <2>1, <2>2, LeaveMove
<1>2. /\ at[r] = "clean" /\ present \ {SourceOf(r)} \subseteq present'
      /\ UNCHANGED <<request, details, trouble>>
  BY DEF Clean
<1>3. OneOwner'
  BY <1>2 DEF StageInv, OneOwner, Alone, request
<1>4. CleanWhenDone'
  BY <1>1, <1>2 DEF StageInv, CleanWhenDone, details
<1>5. OffersStaging'
  <2> SUFFICES ASSUME NEW k \in 1..created, Offers(k), file[k] \in Staged
               PROVE  file[k] \in present' \/ k \in trouble
    BY <1>2 DEF OffersStaging, request, details, Offers, MayResume
  <2>1. file[k] \in present \/ k \in trouble
    BY DEF StageInv, OffersStaging
  <2>2. status[JobOf[r]] \in {"done", "absent"} /\ JobOf[r] \in 1..created
    BY <1>2, JobsOfFiles DEF StageInv, CleanWhenDone
  <2>3. JobOf[r] # k
    BY <2>2 DEF Offers, MayResume, Active
  <2>4. file[k] # SourceOf(r)
    BY <2>2, <2>3 DEF StageInv, OneOwner, Alone, SourceOf
  <2> QED  BY <1>2, <2>1, <2>4
<1> QED  BY <1>3, <1>4, <1>5 DEF StageInv

LEMMA StageRestart ==
  ASSUME TypeOK, StageInv, NEW jobs \in SUBSET Job, Restart(jobs)
  PROVE  StageInv'
<1>1. /\ \A k \in Job : status'[k] = IF k \in jobs THEN Restored(k) ELSE "absent"
      /\ \A k \in Job : Restored(k) \in Terminal
      /\ resumable' = {k \in jobs : Restored(k) = "canceled"}
      /\ at' = [r \in Run |-> "off"]
      /\ UNCHANGED <<request, present, trouble>>
  BY RestartMove
<1>2. OneOwner' /\ CleanWhenDone'
  BY <1>1 DEF StageInv, OneOwner, Alone, CleanWhenDone, request
<1>3. OffersStaging'
  <2> SUFFICES ASSUME NEW k \in 1..created, Offers(k)'
               PROVE  file[k] \in present
    BY <1>1 DEF OffersStaging, request
  <2>1. status'[k] \notin Active
    BY <1>1, JobsOfFiles DEF Active, Terminal
  <2>2. Restored(k) = "canceled"
    BY <1>1, <2>1 DEF Offers, MayResume
  <2> QED  BY <2>2 DEF Restored
<1> QED  BY <1>2, <1>3 DEF StageInv

LEMMA StageStep ==
  ASSUME TypeOK, CallInv, StageInv, [Next]_vars
  PROVE  StageInv'
<1>1. ASSUME NEW j \in Job, NEW saved \in BOOLEAN, Emit(j, saved) PROVE StageInv'
  <2>1. /\ UNCHANGED <<request, status, present, at>>
        /\ resumable' = resumable \/ (Hears(j) /\ resumable' = resumable \cup {j})
        /\ trouble \subseteq trouble'
    BY <1>1 DEF Emit, Persist
  <2>2. Hears(j) => status[j] \in Active
    BY Types DEF Hears, Listed, Ended, Status
  <2>3. \A k \in Job : Offers(k)' => Offers(k)
    BY <2>1, <2>2 DEF Offers, MayResume
  <2> QED  BY <2>1, <2>3, StageSame
<1>2. ASSUME UNCHANGED <<request, details, present>>, trouble \subseteq trouble',
             \A q \in Run : at'[q] = "clean" => at[q] = "clean"
      PROVE  StageInv'
  BY <1>2, StageSame DEF details, Offers, MayResume
<1>3. \A r \in Run, p \in {"send", "ok", "failed", "canceled", "finish"} : Goes(r, p) =>
        \A q \in Run : at'[q] = "clean" => at[q] = "clean"
  BY DEF Goes, TypeOK
<1>4. ASSUME NEW r \in Run, Open(r) \/ OpenFails(r) PROVE StageInv'
  BY <1>2, <1>3, <1>4 DEF Open, OpenFails
<1>5. ASSUME NEW r \in Run, NEW saved \in BOOLEAN, Returning(r, saved) PROVE StageInv'
  <2>1. /\ Goes(r, "ok") \/ Goes(r, "canceled") \/ Goes(r, "failed")
        /\ UNCHANGED <<request, details, present, trouble>>
    BY <1>5, ReturnMove
  <2> QED  BY <1>2, <1>3, <2>1
<1>6. ASSUME NEW r \in Run, NEW c \in Chunk, NEW saved \in BOOLEAN, Deliver(r, c, saved)
      PROVE  StageInv'
  BY <1>2, <1>6 DEF Deliver
<1>7. ASSUME NEW r \in Run, NEW saved \in BOOLEAN, SetManifest(r, saved) PROVE StageInv'
  <2>1. /\ Goes(r, "finish") /\ trouble \subseteq trouble'
        /\ UNCHANGED <<request, status, resumable, present>>
    BY <1>7, SetManifestMove
  <2>2. \A k \in Job : Offers(k)' => Offers(k)
    BY <2>1 DEF Offers, MayResume
  <2> QED  BY <1>3, <2>1, <2>2, StageSame
<1>8. ASSUME NEW f \in File, Lose(f) PROVE StageInv'
  <2>1. /\ present \cap Staged \subseteq present'
        /\ UNCHANGED <<request, details, trouble, at>>
    BY <1>8 DEF Lose
  <2>2. \A k \in Job : Offers(k)' => Offers(k)
    BY <2>1 DEF Offers, MayResume, details
  <2> QED  BY <2>1, <2>2, StageSame DEF details
<1>9. CASE UNCHANGED vars
  BY <1>2, <1>9 DEF vars
<1> QED
  BY <1>1, <1>4, <1>5, <1>6, <1>7, <1>8, <1>9, Steps, StageCreate, StageResume,
     StageCancel, StageForget, StageFinish, StageClean, StageRestart

(* No job offers a resume that must fail for want of what was staged: the  *)
(* goroutine cleans up for a job that is done only, and a restart looks    *)
(* for the file before it offers the resume.                               *)
THEOREM StagingKept == Spec => []ResumableKeepsStaging
<1>1. Init => TypeOK /\ CallInv /\ StageInv
  <2>1. Init => StageInv
    BY DEF Init, StageInv, OneOwner, CleanWhenDone, OffersStaging
  <2> QED  BY <2>1, TypeInit, CallInit
<1>2. TypeOK /\ CallInv /\ StageInv /\ [Next]_vars => (TypeOK /\ CallInv /\ StageInv)'
  BY TypeStep, CallStep, StageStep
<1>3. TypeOK /\ StageInv => ResumableKeepsStaging
  BY DEF TypeOK, StageInv, OffersStaging, Offers, ResumableKeepsStaging
<1> QED  BY <1>1, <1>2, <1>3, PTL DEF Spec

-----------------------------------------------------------------------------
(* What a restart needs to find a job done again: a manifest that is some  *)
(* transfer's, and a sidecar that names it.                                *)
Named ==
  /\ \A f \in File : disk[f].tx = NoTx => disk[f].done = {}
  /\ \A r \in Run : at[r] = "send" => mf[r].tx # NoTx

Noted ==
  /\ \A r \in Run : at[r] = "finish" => JobOf[r] \in attached
  /\ \A j \in Job : status[j] = "done" => sidecar[j] = "attached" \/ j \in trouble

LEMMA NamedDeliver ==
  ASSUME TypeOK, Named, NEW r \in Run, NEW c \in Chunk, NEW saved \in BOOLEAN,
         Deliver(r, c, saved)
  PROVE  Named'
<1>1. /\ at[r] = "send"
      /\ mf'[r].tx = mf[r].tx /\ mf'[r].done = mf[r].done \cup {c}
      /\ \A q \in Run \ {r} : mf'[q] = mf[q]
      /\ held' = [held EXCEPT ![mf[r].tx] =
                    [held[mf[r].tx] EXCEPT ![dir[JobOf[r]]] = @ \cup {c}]]
      /\ disk' \in {disk, [disk EXCEPT ![SourceOf(r)] = mf'[r]]}
      /\ UNCHANGED <<request, details, at>>
  BY DeliverMove
<1>2. \A f \in File : disk'[f] = disk[f] \/ disk'[f] = mf'[r]
  BY <1>1 DEF TypeOK
<1> QED  BY <1>1, <1>2 DEF Named

LEMMA NamedStep == TypeOK /\ Named /\ [Next]_vars => Named'
<1> SUFFICES ASSUME TypeOK, Named, [Next]_vars PROVE Named'
  OBVIOUS
<1>1. ASSUME UNCHANGED <<disk, mf>>, \A q \in Run : at'[q] = "send" => at[q] = "send"
      PROVE  Named'
  BY <1>1 DEF Named
<1>2. \A r \in Run, p \in {"ok", "failed", "canceled", "finish", "clean"} : Goes(r, p) =>
        \A q \in Run : at'[q] = "send" => at[q] = "send"
  BY DEF Goes, TypeOK
<1>3. \A r \in Run, j \in Job, b \in BOOLEAN : Begin(r, j, b) =>
        \A q \in Run : at'[q] = "send" => at[q] = "send"
  BY DEF Begin, TypeOK
<1>4. \A r \in Run : Leave(r) =>
        /\ \A q \in Run : at'[q] = "send" => at[q] = "send" /\ mf'[q] = mf[q]
  BY DEF Leave, TypeOK
<1>5. ASSUME NEW j \in Job, NEW f \in File, NEW d \in Dir, NEW r \in Run,
             NEW saved \in BOOLEAN, Create(j, f, d, r, saved)
      PROVE  Named'
  BY <1>1, <1>3, <1>5 DEF Create
<1>6. ASSUME NEW j \in Job, NEW r \in Run, NEW saved \in BOOLEAN, Resume(j, r, saved)
      PROVE  Named'
  BY <1>1, <1>3, <1>6 DEF Resume
<1>7. ASSUME NEW j \in Job, NEW saved \in BOOLEAN,
             Cancel(j, saved) \/ Emit(j, saved) \/ Forget(j) \/ ForgetFails(j)
      PROVE  Named'
  BY <1>1, <1>7 DEF Cancel, Emit, Forget, ForgetFails, call
<1>8. ASSUME NEW r \in Run, Open(r) PROVE Named'
  <2>1. /\ mf' = [mf EXCEPT ![r] = disk'[SourceOf(r)]]
        /\ disk' = [disk EXCEPT ![SourceOf(r)] = LoadOrCreate(@, explicit[r], JobOf[r])]
        /\ Goes(r, "send")
    BY <1>8, OpenMove
  <2>2. /\ SourceOf(r) \in File /\ JobOf[r] \in Job /\ disk[SourceOf(r)] \in Manifests
        /\ disk \in [File -> Manifests] /\ mf \in [Run -> Manifests]
    BY OfRun DEF TypeOK
  <2>3. \A q \in Run \ {r} : at'[q] = at[q]
    BY <2>1 DEF Goes, TypeOK
  <2>4. explicit[r] => disk[SourceOf(r)].tx # NoTx
    BY <1>8 DEF Open
  <2>5. JobOf[r] # NoTx
    BY <2>2, ConstantsAssumption DEF Job, NoTx
  <2>6. disk'[SourceOf(r)].tx # NoTx
    BY <2>1, <2>2, <2>4, <2>5 DEF LoadOrCreate, Continued, Stored, Manifests
  <2> QED  BY <2>1, <2>2, <2>3, <2>6 DEF Named
<1>9. ASSUME NEW r \in Run, NEW saved \in BOOLEAN, Returning(r, saved) PROVE Named'
  <2>1. /\ at[r] = "send"
        /\ Goes(r, "ok") \/ Goes(r, "canceled") \/ Goes(r, "failed")
        /\ \A f \in File : disk'[f] = disk[f] \/ disk'[f].tx = mf[r].tx
        /\ UNCHANGED mf
    <3>1. /\ at[r] = "send"
          /\ Goes(r, "ok") \/ Goes(r, "canceled") \/ Goes(r, "failed")
          /\ \A f \in File :
               \/ disk'[f] = disk[f]
               \/ /\ f = SourceOf(r)
                  /\ disk'[f].tx = mf[r].tx /\ disk'[f].done = mf[r].done
          /\ UNCHANGED call
      BY <1>9, ReturnMove
    <3> QED  BY <3>1 DEF call
  <2>2. \A q \in Run : at'[q] = "send" => at[q] = "send"
    BY <1>2, <2>1
  <2> QED  BY <2>1, <2>2 DEF Named
<1>10. ASSUME NEW r \in Run, NEW saved \in BOOLEAN, OpenFails(r) \/ SetManifest(r, saved)
       PROVE  Named'
  BY <1>1, <1>2, <1>10 DEF OpenFails, SetManifest, call
<1>11. ASSUME NEW r \in Run, NEW saved \in BOOLEAN, Finish(r, saved) \/ Clean(r, saved)
       PROVE  Named'
  <2>1. /\ UNCHANGED disk
        /\ \A q \in Run : at'[q] = "send" => at[q] = "send" /\ mf'[q] = mf[q]
    BY <1>2, <1>4, <1>11 DEF Finish, Clean
  <2> QED  BY <2>1 DEF Named
<1>12. ASSUME NEW f \in File, Lose(f) PROVE Named'
  BY <1>1, <1>12 DEF Lose, call
<1>13. ASSUME NEW jobs \in SUBSET Job, Restart(jobs) PROVE Named'
  BY <1>13 DEF Restart, Named
<1>14. CASE UNCHANGED vars
  BY <1>1, <1>14 DEF vars, call
<1> QED
  BY <1>5, <1>6, <1>7, <1>8, <1>9, <1>10, <1>11, <1>12, <1>13, <1>14, NamedDeliver, Steps

(* A sidecar and the attached jobs are written for others than a job that  *)
(* is done and stays so.                                                   *)
LEMMA NotedSame ==
  ASSUME TypeOK, Noted, trouble \subseteq trouble',
         \A r \in Run : at'[r] = "finish" => at[r] = "finish",
         \A r \in Run : at[r] = "finish" /\ JobOf[r] \in attached => JobOf[r] \in attached',
         \A j \in Job : status'[j] = "done" =>
           status[j] = "done" /\ sidecar'[j] = sidecar[j]
  PROVE  Noted'
BY JobsOfFiles DEF Noted

LEMMA NotedFinish ==
  ASSUME TypeOK, CallInv, Noted, NEW r \in Run, NEW saved \in BOOLEAN, Finish(r, saved)
  PROVE  Noted'
<1>1. /\ status[JobOf[r]] \in Active /\ JobOf[r] \in Job
      /\ at[r] \in {"failed", "canceled", "finish"}
      /\ cur[JobOf[r]] = r
  BY JobsOfFiles DEF Finish, CallInv, Owned, Working
<1>2. JobOf[r] \in Listed
  BY <1>1 DEF Listed, Active
<1> SUFFICES ASSUME NEW j \in Listed, j = JobOf[r] PROVE Noted'
  BY <1>2
<1>3. /\ Entered(j, Outcome(r), attached, resumable)
      /\ Persist(j, j \in attached, saved)
  BY FinishMove
<1>4. /\ at'[r] # "finish"
      /\ \A q \in Run \ {r} : at'[q] = at[q]
  BY FinishPc
<1>5. \A q \in Run : at'[q] = "finish" => JobOf[q] \in attached'
  <2> SUFFICES ASSUME NEW q \in Run, at'[q] = "finish" PROVE JobOf[q] \in attached'
    OBVIOUS
  <2>1. q # r /\ at[q] = "finish"
    BY <1>4
  <2>2. /\ JobOf[q] \in attached /\ JobOf[q] \in Job
        /\ status[JobOf[q]] \in Active /\ cur[JobOf[q]] = q
    BY <2>1, JobsOfFiles DEF Noted, CallInv, Owned, Working
  <2>3. JobOf[q] \in Job \ {j}
    BY <1>1, <2>1, <2>2
  <2>4. status'[JobOf[q]] = status[JobOf[q]]
    BY <1>3, <2>2, <2>3 DEF Entered, Active, Terminal
  <2> QED  BY <1>3, <2>2, <2>4 DEF Entered, Listed, Active
<1>6. /\ \A k \in Job \ {j} : sidecar'[k] = sidecar[k]
      /\ trouble \subseteq trouble'
      /\ j \in attached => sidecar'[j] = "attached" \/ j \in trouble'
  <2>1. sidecar \in [Job -> Sidecar] /\ j \in Job
    BY Types DEF Listed
  <2>2. CASE saved
    BY <1>3, <2>1, <2>2 DEF Persist
  <2>3. CASE ~saved
    BY <1>3, <2>3 DEF Persist
  <2> QED  BY <2>2, <2>3
<1>7. \A k \in Job : status'[k] = "done" => sidecar'[k] = "attached" \/ k \in trouble'
  <2> SUFFICES ASSUME NEW k \in Job, status'[k] = "done"
               PROVE  sidecar'[k] = "attached" \/ k \in trouble'
    OBVIOUS
  <2>1. CASE k = j
    <3>1. at[r] = "finish"
      BY <1>1, <1>3, <2>1 DEF Entered, Outcome
    <3> QED  BY <1>6, <2>1, <3>1 DEF Noted
  <2>2. CASE k # j
    BY <1>3, <1>6, <2>2 DEF Entered, Noted
  <2> QED  BY <2>1, <2>2
<1> QED  BY <1>5, <1>7 DEF Noted

LEMMA NotedCreate ==
  ASSUME TypeOK, CallInv, Noted, NEW j \in Job, NEW f \in File, NEW d \in Dir,
         NEW r \in Run, NEW saved \in BOOLEAN, Create(j, f, d, r, saved)
  PROVE  Noted'
<1>1. /\ attached' = attached \cap Listed' /\ status'[j] = "running"
      /\ \A k \in Job \ {j} :
           status'[k] = status[k] \/ (status[k] \in Terminal /\ status'[k] = "absent")
  BY CreateMove
<1>2. trouble \subseteq trouble' /\ \A k \in Job \ {j} : sidecar'[k] = sidecar[k]
  BY CreateBooks
<1>3. at'[r] = "open" /\ \A q \in Run \ {r} : at'[q] = at[q]
  <2>1. Begin(r, j, FALSE)
    BY DEF Create
  <2> QED  BY <2>1, BeginMove, Shapes
<1>4. \A q \in Run : at[q] = "finish" /\ JobOf[q] \in attached => JobOf[q] \in attached'
  <2> SUFFICES ASSUME NEW q \in Run, at[q] = "finish", JobOf[q] \in attached
               PROVE  JobOf[q] \in Listed'
    BY <1>1
  <2>1. status[JobOf[q]] \in Active /\ JobOf[q] \in Job
    BY JobsOfFiles DEF CallInv, Owned, Working
  <2>2. status'[JobOf[q]] # "absent"
    BY <1>1, <2>1 DEF Active, Terminal
  <2> QED  BY <2>1, <2>2 DEF Listed
<1>5. \A k \in Job : status'[k] = "done" => status[k] = "done" /\ sidecar'[k] = sidecar[k]
  BY <1>1, <1>2
<1> QED  BY <1>2, <1>3, <1>4, <1>5, NotedSame

LEMMA NotedResume ==
  ASSUME TypeOK, Noted, NEW j \in Job, NEW r \in Run, NEW saved \in BOOLEAN,
         Resume(j, r, saved)
  PROVE  Noted'
<1>1. /\ Begin(r, j, TRUE) /\ Persist(j, j \in attached, saved)
      /\ status' = [status EXCEPT ![j] = "running"] /\ UNCHANGED attached
  BY DEF Resume
<1>2. /\ at'[r] = "open" /\ \A q \in Run \ {r} : at'[q] = at[q]
  BY <1>1, BeginMove, Shapes
<1>3. trouble \subseteq trouble' /\ \A k \in Job \ {j} : sidecar'[k] = sidecar[k]
  BY <1>1, Types DEF Persist
<1>4. \A k \in Job : status'[k] = "done" => status[k] = "done" /\ sidecar'[k] = sidecar[k]
  BY <1>1, <1>3 DEF TypeOK
<1> QED  BY <1>1, <1>2, <1>3, <1>4, NotedSame

LEMMA NotedAPI ==
  ASSUME TypeOK, CallInv, Noted, NEW j \in Job, NEW saved \in BOOLEAN,
         Cancel(j, saved) \/ Forget(j) \/ ForgetFails(j)
  PROVE  Noted'
<1>0. sidecar \in [Job -> Sidecar]
  BY Types
<1>1. CASE Cancel(j, saved)
  <2>1. /\ Persist(j, j \in attached, saved)
        /\ status' = [status EXCEPT ![j] = "canceling"] /\ UNCHANGED <<attached, at>>
    BY <1>1 DEF Cancel
  <2>2. trouble \subseteq trouble' /\ \A k \in Job \ {j} : sidecar'[k] = sidecar[k]
    BY <1>0, <2>1 DEF Persist
  <2>3. \A k \in Job : status'[k] = "done" => status[k] = "done" /\ sidecar'[k] = sidecar[k]
    BY <2>1, <2>2 DEF TypeOK
  <2> QED  BY <2>1, <2>2, <2>3, NotedSame
<1>2. CASE Forget(j)
  <2>1. /\ attached' = attached \cap (Job \ {j})
        /\ sidecar' = [sidecar EXCEPT ![j] = "none"]
        /\ status' = [k \in Job |-> IF k \in Job \ {j} THEN status[k] ELSE "absent"]
        /\ status[j] \in Terminal /\ UNCHANGED <<at, trouble>>
    BY <1>2 DEF Forget, Keep, Ended
  <2>2. \A q \in Run : at[q] = "finish" => JobOf[q] \in Job \ {j}
    BY <2>1, JobsOfFiles DEF CallInv, Owned, Working, Active, Terminal
  <2>3. \A k \in Job : status'[k] = "done" => status[k] = "done" /\ sidecar'[k] = sidecar[k]
    BY <1>0, <2>1
  <2> QED  BY <2>1, <2>2, <2>3, NotedSame
<1>3. CASE ForgetFails(j)
  BY <1>3, NotedSame DEF ForgetFails, details
<1> QED  BY <1>1, <1>2, <1>3

LEMMA NotedEmit ==
  ASSUME TypeOK, Noted, NEW j \in Job, NEW saved \in BOOLEAN, Emit(j, saved)
  PROVE  Noted'
<1>1. UNCHANGED <<status, at>> /\ attached \subseteq attached' /\ trouble \subseteq trouble'
  BY DEF Emit, Persist
<1>2. \A k \in Job : sidecar'[k] = sidecar[k] \/ (k = j /\ Hears(j))
  BY Types DEF Emit, Persist
<1>3. Hears(j) => status[j] # "done"
  BY DEF Hears, Ended, Terminal
<1> QED  BY <1>1, <1>2, <1>3, NotedSame

LEMMA NotedSetManifest ==
  ASSUME TypeOK, CallInv, Noted, NEW r \in Run, NEW saved \in BOOLEAN,
         SetManifest(r, saved)
  PROVE  Noted'
<1>1. /\ at[r] = "ok" /\ Goes(r, "finish")
      /\ attached' = attached \cup ({JobOf[r]} \cap Listed)
      /\ trouble \subseteq trouble'
      /\ \A k \in Job : \/ sidecar'[k] = sidecar[k]
                        \/ sidecar'[k] = "attached" /\ k \in Listed
      /\ UNCHANGED status
  <2>1. /\ at[r] = "ok" /\ Goes(r, "finish")
        /\ attached' = attached \cup ({JobOf[r]} \cap Listed)
        /\ sidecar' \in [Job -> Sidecar]
        /\ trouble \subseteq trouble' /\ trouble' \subseteq trouble \cup {JobOf[r]}
        /\ \A k \in Job : \/ sidecar'[k] = sidecar[k]
                          \/ sidecar'[k] = "attached" /\ k \in Listed
        /\ UNCHANGED <<request, status, resumable, cur, present, disk, held, call,
                       stopped, emitting, forgotten>>
    BY SetManifestMove
  <2> QED  BY <2>1
<1>2. JobOf[r] \in Listed
  BY <1>1, JobsOfFiles DEF CallInv, Owned, Working, Listed, Active
<1>3. \A q \in Run \ {r} : at'[q] = at[q]
  BY <1>1 DEF Goes, TypeOK
<1>4. \A q \in Run : at'[q] = "finish" => JobOf[q] \in attached'
  BY <1>1, <1>2, <1>3 DEF Noted
<1>5. \A k \in Job : status'[k] = "done" => sidecar'[k] = "attached" \/ k \in trouble'
  BY <1>1 DEF Noted
<1> QED  BY <1>4, <1>5 DEF Noted

LEMMA NotedStep ==
  ASSUME TypeOK, CallInv, Noted, [Next]_vars
  PROVE  Noted'
<1>1. ASSUME UNCHANGED <<details, sidecar, trouble>>,
             \A q \in Run : at'[q] = "finish" => at[q] = "finish"
      PROVE  Noted'
  BY <1>1, NotedSame DEF details
<1>2. \A r \in Run, p \in {"send", "ok", "failed", "canceled"} : Goes(r, p) =>
        \A q \in Run : at'[q] = "finish" => at[q] = "finish"
  BY DEF Goes, TypeOK
<1>3. ASSUME NEW r \in Run, Open(r) \/ OpenFails(r) PROVE Noted'
  BY <1>1, <1>2, <1>3 DEF Open, OpenFails
<1>4. ASSUME NEW r \in Run, NEW saved \in BOOLEAN, Returning(r, saved) PROVE Noted'
  <2>1. /\ Goes(r, "ok") \/ Goes(r, "canceled") \/ Goes(r, "failed")
        /\ UNCHANGED <<details, sidecar, trouble>>
    BY <1>4, ReturnMove
  <2> QED  BY <1>1, <1>2, <2>1
<1>5. ASSUME NEW r \in Run, NEW c \in Chunk, NEW saved \in BOOLEAN, Deliver(r, c, saved)
      PROVE  Noted'
  BY <1>1, <1>5 DEF Deliver
<1>6. ASSUME NEW r \in Run, NEW removed \in BOOLEAN, Clean(r, removed) PROVE Noted'
  BY <1>1, <1>6 DEF Clean, Leave, TypeOK
<1>7. ASSUME NEW f \in File, Lose(f) PROVE Noted'
  BY <1>1, <1>7 DEF Lose
<1>8. ASSUME NEW jobs \in SUBSET Job, Restart(jobs) PROVE Noted'
  <2>1. /\ \A k \in Job : status'[k] = IF k \in jobs THEN Restored(k) ELSE "absent"
        /\ at' = [r \in Run |-> "off"] /\ UNCHANGED sidecar
    BY <1>8, RestartMove
  <2> QED  BY <2>1 DEF Noted, Restored, Finished, Found
<1>9. CASE UNCHANGED vars
  BY <1>1, <1>9 DEF vars
<1> QED
  BY <1>3, <1>4, <1>5, <1>6, <1>7, <1>8, <1>9, Steps, NotedCreate, NotedResume,
     NotedAPI, NotedEmit, NotedSetManifest, NotedFinish

(* What was done is done after the step.                                   *)
LEMMA DoneStep ==
  ASSUME TypeOK, CallInv, DeliveryInv, Named, Noted, [Next]_vars,
         NEW j \in Listed, j \in Listed', status[j] = "done", Alone(j)',
         j \notin trouble, file[j] \notin Empty
  PROVE  status'[j] = "done"
<1>0. j \in Job /\ j \in 1..created /\ status'[j] # "absent"
  BY JobsOfFiles DEF Listed, TypeOK
<1>1. ASSUME NEW i \in Job, NEW f \in File, NEW d \in Dir, NEW r \in Run,
             NEW saved \in BOOLEAN, Create(i, f, d, r, saved)
      PROVE  status'[j] = "done"
  <2>1. /\ status[i] = "absent"
        /\ \A k \in Job \ {i} :
             status'[k] = status[k] \/ (status[k] \in Terminal /\ status'[k] = "absent")
    BY <1>1, CreateMove
  <2> QED  BY <1>0, <2>1
<1>2. ASSUME NEW i \in Job, NEW r \in Run, NEW saved \in BOOLEAN, Resume(i, r, saved)
      PROVE  status'[j] = "done"
  BY <1>0, <1>2 DEF Resume, MayResume, TypeOK
<1>3. ASSUME NEW i \in Job, NEW saved \in BOOLEAN, Cancel(i, saved)
      PROVE  status'[j] = "done"
  BY <1>0, <1>3 DEF Cancel, Ended, Terminal, TypeOK
<1>4. ASSUME NEW i \in Job, Forget(i) \/ ForgetFails(i) PROVE status'[j] = "done"
  BY <1>0, <1>4 DEF Forget, ForgetFails, Keep, details
<1>5. ASSUME NEW r \in Run, NEW saved \in BOOLEAN, Finish(r, saved)
      PROVE  status'[j] = "done"
  <2>1. status[JobOf[r]] \in Active /\ JobOf[r] \in Listed
    BY <1>5, JobsOfFiles DEF Finish, CallInv, Owned, Working, Listed, Active
  <2>2. PICK i \in Listed : i = JobOf[r]
    BY <2>1
  <2>3. Entered(i, Outcome(r), attached, resumable)
    BY <1>5, <2>2, FinishMove
  <2>4. j # i
    BY <2>1, <2>2 DEF Active
  <2> QED  BY <1>0, <2>3, <2>4 DEF Entered
<1>6. ASSUME NEW jobs \in SUBSET Job, Restart(jobs) PROVE status'[j] = "done"
  <2>1. /\ status'[j] = IF j \in jobs THEN Restored(j) ELSE "absent"
        /\ UNCHANGED request
    BY <1>0, <1>6, RestartMove
  <2>2. Alone(j)
    BY <2>1 DEF Alone, request
  <2>3. disk[file[j]].done = Chunk
    BY <1>0, <2>2 DEF DeliveryInv, Backed, Succeeded, ChunksOf
  <2>4. disk[file[j]].tx # NoTx
    BY <1>0, <2>3, JobsOfFiles, ConstantsAssumption DEF Named
  <2>5. sidecar[j] = "attached"
    BY <1>0 DEF Noted
  <2> QED  BY <1>0, <2>1, <2>3, <2>4, <2>5, ConstantsAssumption
         DEF Restored, Finished, Found, Complete
<1>7. ASSUME UNCHANGED status PROVE status'[j] = "done"
  BY <1>7
<1>8. ASSUME NEW r \in Run, NEW saved \in BOOLEAN, Returning(r, saved)
      PROVE  UNCHANGED status
  <2>1. UNCHANGED <<request, details, sidecar, present, held, call, stopped,
                    emitting, forgotten, trouble>>
    BY <1>8, ReturnMove
  <2> QED  BY <2>1 DEF details
<1>9. ASSUME NEW r \in Run, NEW saved \in BOOLEAN,
             Open(r) \/ OpenFails(r) \/ SetManifest(r, saved) \/ Clean(r, saved)
      PROVE  UNCHANGED status
  BY <1>9 DEF Open, OpenFails, SetManifest, Clean, details
<1>10. ASSUME NEW r \in Run, NEW c \in Chunk, NEW saved \in BOOLEAN, Deliver(r, c, saved)
       PROVE  UNCHANGED status
  BY <1>10 DEF Deliver, details
<1>11. ASSUME NEW i \in Job, NEW saved \in BOOLEAN, Emit(i, saved) PROVE UNCHANGED status
  BY <1>11 DEF Emit
<1>12. ASSUME NEW f \in File, Lose(f) PROVE UNCHANGED status
  BY <1>12 DEF Lose, details
<1>13. CASE UNCHANGED vars
  BY <1>13 DEF vars, details
<1> QED
  BY <1>1, <1>2, <1>3, <1>4, <1>5, <1>6, <1>7, <1>8, <1>9, <1>10, <1>11, <1>12,
     <1>13, Steps

(* A job that is done is so for the user as long as it is in the history:  *)
(* no late report changes it, and jobStateFromHistory finds by manifest    *)
(* and sidecar what the goroutine had reported.  The job of an empty file  *)
(* is excepted: its manifest is refused.                                   *)
THEOREM DoneForGood == Spec => DoneStaysDone
<1> DEFINE Inv == TypeOK /\ CallInv /\ DeliveryInv /\ Named /\ Noted
<1>1. Init => Inv
  <2>1. Init => Named /\ Noted
    BY NoManifestFacts DEF Init, Named, Noted
  <2> QED  BY <2>1, TypeInit, CallInit, DeliveryInit
<1>2. Inv /\ [Next]_vars => Inv'
  BY TypeStep, CallStep, DeliveryStep, NamedStep, NotedStep
<1>3. Inv /\ [Next]_vars =>
        [\A j \in Listed \cap Listed' :
           /\ status[j] = "done"
           /\ Alone(j)'
           /\ j \notin trouble
           /\ file[j] \notin Empty
           => status'[j] = "done"]_vars
  BY DoneStep
<1> HIDE DEF Inv
<1> QED  BY <1>1, <1>2, <1>3, PTL DEF Spec, DoneStaysDone
=============================================================================
