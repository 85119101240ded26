-------------------------- MODULE Receiver_proofs --------------------------
(***************************************************************************)
(* Proofs about one session of the LAN receiver (Receiver), for any sets   *)
(* of chunks, contents, connections and finalizers.                        *)
(*                                                                         *)
(* The inductive invariant Inv says, besides the types: who works on the   *)
(* files holds the lock (LockInv); what a finalizer has reached in its     *)
(* merge (MergeInv); an output that was reported is not being rebuilt      *)
(* (OutputInv); and a chunk that is about to be acked is kept (AckInv).    *)
(***************************************************************************)
EXTENDS Receiver, TLAPS

(* The steps of a finalizer that need the lock.                            *)
Working == {"merge", "validate", "extract", "extracting", "cleanup"}

LockInv ==
  /\ \A k \in Conn : conn[k].pc \in {"rename", "save"} => lock = k
  /\ \A f \in Finalizer : fin[f] \in Working => lock = f

(* The final file was merged from all chunks.                              *)
Merged == SizeRight(final) /\ ~final.old

MergeInv ==
  \A f \in Finalizer :
    /\ fin[f] = "merge" => final = NoFile
    /\ fin[f] = "validate" => final # NoFile /\ ~final.old
    /\ fin[f] \in {"extract", "extracting"} => Merged /\ extract
    /\ fin[f] = "cleanup" =>
         IF extract THEN dir = "whole" ELSE globbed \/ Merged

OutputInv ==
  /\ DoneHasOutput
  /\ ~globbed =>
       \A f \in Finalizer :
         fin[f] \in {"merge", "validate", "extract", "extracting"} =>
           ~(session.status = "done" /\ session.output = "final")

Kept(c) == file[c] # NoFile \/ Delivered

Claiming == {"existing", "save", "ack", "ackExisting"}

AckInv ==
  SourceUnchanged /\ ~globbed =>
    /\ \A c \in acked : Kept(c)
    /\ \A k \in Conn : conn[k].pc \in Claiming => Kept(conn[k].chunk)

Inv == TypeOK /\ LockInv /\ MergeInv /\ OutputInv /\ AckInv

-----------------------------------------------------------------------------
(* The session records that the code writes are session records, with the  *)
(* fields that the properties look at.                                     *)
LEMMA SessionOps ==
  ASSUME NEW s \in Session, NEW o \in {"final", "dir"}
  PROVE  /\ NewSession \in Session
         /\ NewSession.status = "receiving"
         /\ [NewSession EXCEPT !.known = FALSE] \in Session
         /\ [NewSession EXCEPT !.known = FALSE].status = "receiving"
         /\ Reopened(s) \in Session
         /\ Reopened(s).status = "receiving"
         /\ Failed(s) \in Session
         /\ Failed(s).status = s.status
         /\ Failed(s).output = s.output
         /\ Done(s, o) \in Session
         /\ Done(s, o).output = o
         /\ Done(s, o).status = "done"
  BY DEF Session, NewSession, Reopened, Failed, Done

(* Moving a connection changes its program counter and nothing else.       *)
LEMMA ConnMove ==
  ASSUME TypeOK, NEW k \in Conn, NEW pc \in ConnPc, ConnAt(k, pc)
  PROVE  /\ conn' \in [Conn -> ConnState]
         /\ conn'[k].pc = pc
         /\ conn'[k].chunk = conn[k].chunk
         /\ conn'[k].content = conn[k].content
         /\ \A j \in Conn : j # k => conn'[j] = conn[j]
         /\ conn[k].chunk \in Chunk /\ conn[k].content \in Version
  BY DEF TypeOK, ConnAt, ConnState, ConnPc

LEMMA FinMove ==
  ASSUME TypeOK, NEW f \in Finalizer, NEW pc \in FinPc, FinAt(f, pc)
  PROVE  /\ fin' \in [Finalizer -> FinPc]
         /\ fin'[f] = pc
         /\ \A g \in Finalizer : g # f => fin'[g] = fin[g]
  BY DEF TypeOK, FinAt, FinPc

-----------------------------------------------------------------------------
LEMMA InitInv == Init => Inv
<1> SUFFICES ASSUME Init PROVE Inv
  OBVIOUS
<1> USE ConstantsAssumption DEF Init
<1>1. /\ session \in Session
      /\ session.status = "receiving"
  BY DEF Session, NewSession
<1>2. final \in FinalFile \cup {NoFile}
  BY DEF FinalFile
<1>3. conn \in [Conn -> ConnState] /\ \A k \in Conn : conn[k].pc = "idle"
  BY DEF ConnState, ConnPc
<1>4. fin \in [Finalizer -> FinPc] /\ \A f \in Finalizer : fin[f] = "off"
  BY DEF FinPc
<1>a. file \in [Chunk -> Version \cup {NoFile}]
  OBVIOUS
<1>b. accepted \in 0..MaxConns
  OBVIOUS
<1>5. TypeOK
  BY <1>1, <1>2, <1>3, <1>4, <1>a, <1>b DEF TypeOK
<1>6. LockInv /\ MergeInv
  BY <1>3, <1>4 DEF LockInv, MergeInv, Working
<1>7. OutputInv
  BY <1>1, <1>4 DEF OutputInv, DoneHasOutput
<1>8. AckInv
  BY <1>3 DEF AckInv, Claiming
<1> QED  BY <1>5, <1>6, <1>7, <1>8 DEF Inv

-----------------------------------------------------------------------------
(* Connections.                                                            *)

LEMMA AcceptInv ==
  ASSUME Inv, NEW k \in Conn, NEW c \in Chunk, NEW v \in Version,
         Accept(k, c, v)
  PROVE  Inv'
<1> USE DEF Inv, Accept, fileVars
<1>1. /\ session' \in Session
      /\ session' = session \/ session'.status = "receiving"
  BY SessionOps DEF TypeOK
<1>2. /\ conn' \in [Conn -> ConnState]
      /\ conn'[k].pc = "check"
      /\ \A j \in Conn : j # k => conn'[j] = conn[j]
  BY DEF TypeOK, ConnState, ConnPc
<1>3. accepted' \in 0..MaxConns
  BY ConstantsAssumption DEF TypeOK
<1>4. TypeOK'
  BY <1>1, <1>2, <1>3 DEF TypeOK
<1>5. LockInv'
  BY <1>2 DEF LockInv
<1>6. MergeInv'
  BY DEF MergeInv, Merged, SizeRight
<1>7. OutputInv'
  BY <1>1 DEF OutputInv, DoneHasOutput, SizeRight
<1>8. AckInv'
  BY <1>2 DEF AckInv, Claiming, Kept, Delivered, SizeRight
<1> QED  BY <1>4, <1>5, <1>6, <1>7, <1>8

(* The steps of a connection that touch neither the files nor the session: *)
(* a chunk on its way to an ack must be kept.                              *)
LEMMA ConnOnly ==
  ASSUME Inv, NEW k \in Conn, NEW pc \in ConnPc \ {"rename", "save"},
         ConnAt(k, pc),
         UNCHANGED <<extract, globbed, session, timer, fileVars, fin,
                     accepted>>,
         \/ lock' = lock
         \/ lock' = Nobody /\ (lock = Nobody \/ lock = k),
         \/ acked' = acked
         \/ acked' = acked \cup {conn[k].chunk} /\ conn[k].pc \in {"ack", "ackExisting"},
         pc \in {"existing", "ack", "ackExisting"} => Matches(k)
  PROVE  Inv'
<1> USE DEF Inv, fileVars
<1>1. /\ conn' \in [Conn -> ConnState]
      /\ conn'[k].pc = pc
      /\ conn'[k].chunk = conn[k].chunk
      /\ \A j \in Conn : j # k => conn'[j] = conn[j]
      /\ conn[k].chunk \in Chunk /\ conn[k].content \in Version
  BY ConnMove
<1>2. TypeOK'
  BY <1>1 DEF TypeOK
<1>3. LockInv'
  <2>1. \A f \in Finalizer : fin[f] \in Working => lock' = f
    BY ConstantsAssumption DEF LockInv
  <2>2. \A j \in Conn : conn'[j].pc \in {"rename", "save"} => lock' = j
    BY <1>1, ConstantsAssumption DEF LockInv
  <2> QED  BY <2>1, <2>2 DEF LockInv
<1>4. MergeInv'
  BY DEF MergeInv, Merged, SizeRight
<1>5. OutputInv'
  BY DEF OutputInv, DoneHasOutput, SizeRight
<1>6. AckInv'
  <2> SUFFICES ASSUME SourceUnchanged, ~globbed
               PROVE  /\ \A c \in acked' : Kept(c)'
                      /\ \A j \in Conn : conn'[j].pc \in Claiming
                                           => Kept(conn[j].chunk)'
    BY DEF AckInv, SourceUnchanged, Claiming
  <2>1. \A c : Kept(c)' <=> Kept(c)
    BY DEF Kept, Delivered, SizeRight
  <2>2. \A c \in acked' : Kept(c)
    BY DEF AckInv, Claiming
  <2>3. pc \in Claiming => Kept(conn[k].chunk)
    BY <1>1, ConstantsAssumption DEF Matches, Kept, Claiming
  <2>4. ASSUME NEW j \in Conn, conn'[j].pc \in Claiming
        PROVE  Kept(conn[j].chunk)'
    <3>1. conn'[j].chunk = conn[j].chunk
      BY <1>1
    <3>2. Kept(conn[j].chunk)
      BY <1>1, <2>3, <2>4 DEF AckInv
    <3> QED  BY <3>1, <3>2 DEF Kept, Delivered, SizeRight
  <2> QED  BY <2>1, <2>2, <2>4
<1> QED  BY <1>2, <1>3, <1>4, <1>5, <1>6

(* Steps that change the session: the files stay.                          *)
LEMMA OutputFrame ==
  ASSUME OutputInv, UNCHANGED <<globbed, final, dir, fin>>,
         session'.status = "receiving" \/ UNCHANGED session
  PROVE  OutputInv'
  BY DEF OutputInv, DoneHasOutput, SizeRight

LEMMA PublishBeginInv ==
  ASSUME Inv, NEW k \in Conn, PublishBegin(k)
  PROVE  Inv'
<1> USE DEF Inv
<1> DEFINE pc == IF Matches(k) THEN "save" ELSE "rename"
<1>1. /\ conn' \in [Conn -> ConnState]
      /\ conn'[k].pc = pc
      /\ conn'[k].chunk = conn[k].chunk
      /\ \A j \in Conn : j # k => conn'[j] = conn[j]
      /\ conn[k].chunk \in Chunk /\ conn[k].content \in Version
  BY ConnMove, pc \in ConnPc DEF ConnPc, PublishBegin
<1>2. file' \in [Chunk -> Version \cup {NoFile}]
  BY DEF TypeOK, PublishBegin
<1>3. TypeOK'
  BY <1>1, <1>2 DEF TypeOK, PublishBegin
<1>4. LockInv'
  BY <1>1, ConstantsAssumption DEF LockInv, PublishBegin
<1>5. MergeInv'
  BY DEF MergeInv, Merged, SizeRight, PublishBegin
<1>6. OutputInv'
  BY OutputFrame DEF PublishBegin
<1>7. AckInv'
  <2> SUFFICES ASSUME SourceUnchanged, ~globbed
               PROVE  /\ \A c \in acked' : Kept(c)'
                      /\ \A j \in Conn : conn'[j].pc \in Claiming
                                           => Kept(conn[j].chunk)'
    BY DEF AckInv, SourceUnchanged, Claiming, PublishBegin
  <2>1. file[conn[k].chunk] # NoFile => Matches(k)
    BY <1>1 DEF Matches, SourceUnchanged, TypeOK
  <2>2. file' = file
    BY <2>1, <1>1 DEF PublishBegin, TypeOK
  <2>3. \A c : Kept(c)' <=> Kept(c)
    BY <2>2 DEF Kept, Delivered, SizeRight, PublishBegin
  <2>4. \A c \in acked' : Kept(c)
    BY DEF AckInv, PublishBegin
  <2>5. ASSUME NEW j \in Conn, conn'[j].pc \in Claiming
        PROVE  Kept(conn[j].chunk)'
    <3>1. conn'[j].chunk = conn[j].chunk
      BY <1>1
    <3>2. Kept(conn[j].chunk)
      <4>1. CASE j # k
        BY <1>1, <4>1, <2>5 DEF AckInv
      <4>2. CASE j = k
        BY <1>1, <4>2, <2>5, ConstantsAssumption DEF Claiming, Matches, Kept
      <4> QED  BY <4>1, <4>2
    <3> QED  BY <3>1, <3>2, <2>2 DEF Kept, Delivered, SizeRight, PublishBegin
  <2> QED  BY <2>3, <2>4, <2>5
<1> QED  BY <1>3, <1>4, <1>5, <1>6, <1>7

LEMMA RenameInv ==
  ASSUME Inv, NEW k \in Conn, Rename(k)
  PROVE  Inv'
<1> USE DEF Inv
<1>1. /\ conn' \in [Conn -> ConnState]
      /\ conn'[k].pc = "save"
      /\ conn'[k].chunk = conn[k].chunk
      /\ \A j \in Conn : j # k => conn'[j] = conn[j]
      /\ conn[k].chunk \in Chunk /\ conn[k].content \in Version
  BY ConnMove DEF ConnPc, Rename
<1>2. file' \in [Chunk -> Version \cup {NoFile}]
  BY <1>1 DEF TypeOK, Rename
<1>3. TypeOK'
  BY <1>1, <1>2 DEF TypeOK, Rename
<1>4. LockInv'
  BY <1>1, ConstantsAssumption DEF LockInv, Rename
<1>5. MergeInv'
  BY DEF MergeInv, Merged, SizeRight, Rename
<1>6. OutputInv'
  BY OutputFrame DEF Rename
<1>7. AckInv'
  <2> SUFFICES ASSUME SourceUnchanged, ~globbed
               PROVE  /\ \A c \in acked' : Kept(c)'
                      /\ \A j \in Conn : conn'[j].pc \in Claiming
                                           => Kept(conn[j].chunk)'
    BY DEF AckInv, SourceUnchanged, Claiming, Rename
  <2>1. file'[conn[k].chunk] # NoFile
    BY <1>1, ConstantsAssumption DEF TypeOK, Rename
  <2>2. \A c \in Chunk : c # conn[k].chunk => file'[c] = file[c]
    BY DEF TypeOK, Rename
  <2>3. \A c \in Chunk : Kept(c) => Kept(c)'
    BY <2>1, <2>2 DEF Kept, Delivered, SizeRight, Rename
  <2>4. \A c \in acked' : Kept(c)'
    BY <2>3 DEF AckInv, Rename, TypeOK
  <2>5. ASSUME NEW j \in Conn, conn'[j].pc \in Claiming
        PROVE  Kept(conn[j].chunk)'
    <3>1. CASE j = k
      BY <1>1, <2>1, <3>1 DEF Kept
    <3>2. CASE j # k
      <4>1. conn'[j] = conn[j] /\ conn[j].chunk \in Chunk
        BY <1>1, <3>2 DEF TypeOK, ConnState
      <4>2. Kept(conn[j].chunk)
        BY <4>1, <2>5 DEF AckInv
      <4>3. file'[conn[j].chunk] # NoFile \/ Delivered'
        BY <4>1, <4>2, <2>1, <2>2 DEF Kept, Delivered, SizeRight, Rename
      <4> QED  BY <4>1, <4>3 DEF Kept
    <3> QED  BY <3>1, <3>2
  <2> QED  BY <2>4, <2>5
<1> QED  BY <1>3, <1>4, <1>5, <1>6, <1>7

(* The two ways in which a chunk gets listed.                              *)
LEMMA SaveInv ==
  ASSUME Inv, NEW k \in Conn, SaveManifest(k) \/ SaveExisting(k)
  PROVE  Inv'
<1> USE DEF Inv
<1> DEFINE pc == IF conn[k].pc = "save" THEN "ack" ELSE "ackExisting"
<1>1. /\ conn' \in [Conn -> ConnState]
      /\ conn'[k].pc = pc
      /\ conn'[k].chunk = conn[k].chunk
      /\ \A j \in Conn : j # k => conn'[j] = conn[j]
      /\ conn[k].chunk \in Chunk /\ conn[k].content \in Version
  <2>1. ConnAt(k, pc) /\ pc \in ConnPc
    BY DEF SaveManifest, SaveExisting, ConnPc
  <2> QED  BY <2>1, ConnMove
<1>2. /\ session' \in Session /\ session'.status = "receiving"
      /\ listed' \subseteq Chunk
  BY <1>1, SessionOps DEF TypeOK, SaveManifest, SaveExisting, ListChunk
<1>3. /\ UNCHANGED <<extract, globbed, timer, file, final, dir, fin, accepted,
                     acked>>
      /\ lock' = Nobody
      /\ lock \in {Nobody, k}
      /\ conn[k].pc \in {"save", "existing"}
  BY DEF SaveManifest, SaveExisting, LockInv
<1>4. TypeOK'
  BY <1>1, <1>2, <1>3 DEF TypeOK
<1>5. LockInv'
  BY <1>1, <1>3, ConstantsAssumption DEF LockInv
<1>6. MergeInv'
  BY <1>3 DEF MergeInv, Merged, SizeRight
<1>7. OutputInv'
  BY <1>2, <1>3, OutputFrame
<1>8. AckInv'
  <2> SUFFICES ASSUME SourceUnchanged, ~globbed
               PROVE  /\ \A c \in acked' : Kept(c)'
                      /\ \A j \in Conn : conn'[j].pc \in Claiming
                                           => Kept(conn[j].chunk)'
    BY <1>3 DEF AckInv, SourceUnchanged, Claiming
  <2>1. \A c : Kept(c)' <=> Kept(c)
    BY <1>3 DEF Kept, Delivered, SizeRight
  <2>2. \A c \in acked' : Kept(c)
    BY <1>3 DEF AckInv
  <2>3. ASSUME NEW j \in Conn, conn'[j].pc \in Claiming
        PROVE  Kept(conn[j].chunk)'
    <3>1. conn'[j].chunk = conn[j].chunk
      BY <1>1
    <3>2. conn[j].pc \in Claiming
      BY <1>1, <1>3, <2>3 DEF Claiming
    <3>3. Kept(conn[j].chunk)
      BY <3>2 DEF AckInv
    <3> QED  BY <3>1, <3>3, <1>3 DEF Kept, Delivered, SizeRight
  <2> QED  BY <2>1, <2>2, <2>3
<1> QED  BY <1>4, <1>5, <1>6, <1>7, <1>8

LEMMA ScheduleInv ==
  ASSUME Inv, NEW k \in Conn, Schedule(k)
  PROVE  Inv'
<1> USE DEF Inv
<1>1. /\ conn' \in [Conn -> ConnState]
      /\ conn'[k].pc = "idle"
      /\ \A j \in Conn : j # k => conn'[j] = conn[j]
  BY ConnMove DEF ConnPc, Schedule
<1>2. /\ session' \in Session
      /\ session'.status = session.status
      /\ session'.output = session.output
      /\ timer' \in BOOLEAN
  BY DEF Schedule, TypeOK, Session
<1>3. UNCHANGED <<extract, globbed, lock, listed, file, final, dir, fin,
                  accepted, acked>>
  BY DEF Schedule, fileVars
<1>4. TypeOK'
  BY <1>1, <1>2, <1>3 DEF TypeOK
<1>5. LockInv'
  BY <1>1, <1>3 DEF LockInv
<1>6. MergeInv'
  BY <1>3 DEF MergeInv, Merged, SizeRight
<1>7. OutputInv'
  BY <1>2, <1>3 DEF OutputInv, DoneHasOutput, SizeRight
<1>8. AckInv'
  BY <1>1, <1>3 DEF AckInv, Claiming, Kept, Delivered, SizeRight
<1> QED  BY <1>4, <1>5, <1>6, <1>7, <1>8

-----------------------------------------------------------------------------
(* Finalizers.                                                             *)

(* A finalizer has only to keep what is kept.                              *)
LEMMA AckFrame ==
  ASSUME TypeOK, AckInv, UNCHANGED <<globbed, conn, acked>>,
         globbed \/ \A c \in Chunk : Kept(c) => Kept(c)'
  PROVE  AckInv'
<1> SUFFICES ASSUME SourceUnchanged, ~globbed
             PROVE  /\ \A c \in acked : Kept(c)'
                    /\ \A k \in Conn : conn[k].pc \in Claiming
                                         => Kept(conn[k].chunk)'
  BY DEF AckInv, SourceUnchanged, Claiming
<1>1. \A c \in acked : Kept(c)'
  BY DEF AckInv, TypeOK
<1>2. ASSUME NEW k \in Conn, conn[k].pc \in Claiming
      PROVE  Kept(conn[k].chunk)'
  <2>1. conn[k].chunk \in Chunk
    BY DEF TypeOK, ConnState
  <2>2. Kept(conn[k].chunk)
    BY <1>2 DEF AckInv
  <2>3. file'[conn[k].chunk] # NoFile \/ Delivered'
    BY <2>1, <2>2 DEF Kept
  <2> QED  BY <2>3 DEF Kept
<1> QED  BY <1>1, <1>2

(* A finalizer that holds the lock is the only one at work.                *)
LEMMA Alone ==
  ASSUME LockInv, NEW f \in Finalizer, lock \in {Nobody, f}
  PROVE  /\ \A g \in Finalizer : g # f => fin[g] \notin Working
         /\ \A k \in Conn : conn[k].pc \notin {"rename", "save"}
  BY ConstantsAssumption DEF LockInv

(* The beginning and the end of a finalizer: the files stay.               *)
LEMMA FireBeginInv ==
  ASSUME Inv, NEW f \in Finalizer, Fire(f) \/ Begin(f)
  PROVE  Inv'
<1> USE DEF Inv
<1> DEFINE pc == IF fin[f] = "off" THEN "fired"
                 ELSE IF MergeSettled THEN "off" ELSE "wait"
<1>1. /\ fin' \in [Finalizer -> FinPc]
      /\ fin'[f] = pc
      /\ \A g \in Finalizer : g # f => fin'[g] = fin[g]
  <2>1. FinAt(f, pc) /\ pc \in FinPc
    BY DEF Fire, Begin, FinPc
  <2> QED  BY <2>1, FinMove
<1>2. /\ session' \in Session
      /\ session'.status = session.status
      /\ session'.output = session.output
      /\ timer' \in BOOLEAN
  BY DEF Fire, Begin, TypeOK, Session
<1>3. UNCHANGED <<extract, globbed, lock, listed, file, final, dir, conn,
                  accepted, acked>>
  BY DEF Fire, Begin, fileVars
<1>4. TypeOK'
  BY <1>1, <1>2, <1>3 DEF TypeOK
<1>5. LockInv'
  BY <1>1, <1>3 DEF LockInv, Working
<1>6. MergeInv'
  BY <1>1, <1>3 DEF MergeInv, Merged, SizeRight
<1>7. OutputInv'
  BY <1>1, <1>2, <1>3 DEF OutputInv, DoneHasOutput, SizeRight
<1>8. AckInv'
  BY <1>3, AckFrame DEF Kept, Delivered, SizeRight
<1> QED  BY <1>4, <1>5, <1>6, <1>7, <1>8

LEMMA EndInv ==
  ASSUME Inv, NEW f \in Finalizer, AlreadyFinalized(f) \/ Finish(f) \/ Fail(f)
  PROVE  Inv'
<1> USE DEF Inv
<1>1. /\ FinAt(f, "off") /\ lock' = Nobody
      /\ UNCHANGED <<extract, globbed, timer, listed, file, final, dir, conn,
                     accepted, acked>>
  BY DEF AlreadyFinalized, Finish, Fail, End, fileVars
<1>2. /\ fin' \in [Finalizer -> FinPc]
      /\ fin'[f] = "off"
      /\ \A g \in Finalizer : g # f => fin'[g] = fin[g]
  BY <1>1, FinMove DEF FinPc
<1>3. lock \in {Nobody, f}
  BY DEF AlreadyFinalized, Finish, Fail, Obstacle, IOError, LockInv, Working
<1>4. /\ \A g \in Finalizer : fin'[g] \notin Working
      /\ \A k \in Conn : conn[k].pc \notin {"rename", "save"}
  BY <1>2, <1>3, Alone DEF Working
<1>5. CASE AlreadyFinalized(f)
  <2>1. /\ session' \in Session
        /\ session'.output = "final" /\ SizeRight(final)
    BY <1>5, SessionOps DEF AlreadyFinalized, End, Finalized, TypeOK
  <2>2. TypeOK'
    BY <1>1, <1>2, <2>1 DEF TypeOK
  <2>3. OutputInv'
    BY <1>1, <1>4, <2>1 DEF OutputInv, DoneHasOutput, SizeRight, Working
  <2> QED  BY <2>2, <2>3, <1>1, <1>4, AckFrame
           DEF LockInv, MergeInv, Working, Kept, Delivered, SizeRight
<1>6. CASE Finish(f)
  <2> DEFINE o == IF extract THEN "dir" ELSE "final"
  <2>1. /\ session' \in Session
        /\ session'.output = o
    BY <1>6, SessionOps, o \in {"final", "dir"} DEF Finish, End, TypeOK
  <2>2. IF extract THEN dir = "whole" ELSE globbed \/ SizeRight(final)
    BY <1>6 DEF Finish, MergeInv, Merged
  <2>3. TypeOK'
    BY <1>1, <1>2, <2>1 DEF TypeOK
  <2>4. OutputInv'
    BY <1>1, <1>4, <2>1, <2>2 DEF OutputInv, DoneHasOutput, SizeRight, Working
  <2> QED  BY <2>3, <2>4, <1>1, <1>4, AckFrame
           DEF LockInv, MergeInv, Working, Kept, Delivered, SizeRight
<1>7. CASE Fail(f)
  <2>1. /\ session' \in Session
        /\ session'.status = session.status
        /\ session'.output = session.output
    BY <1>7, SessionOps DEF Fail, End, TypeOK
  <2>2. TypeOK'
    BY <1>1, <1>2, <2>1 DEF TypeOK
  <2>3. OutputInv'
    BY <1>1, <1>4, <2>1 DEF OutputInv, DoneHasOutput, SizeRight, Working
  <2> QED  BY <2>2, <2>3, <1>1, <1>4, AckFrame
           DEF LockInv, MergeInv, Working, Kept, Delivered, SizeRight
<1> QED  BY <1>5, <1>6, <1>7

LEMMA LoadInv ==
  ASSUME Inv, NEW f \in Finalizer, Load(f)
  PROVE  Inv'
<1> USE DEF Inv
<1>1. /\ fin' \in [Finalizer -> FinPc]
      /\ fin'[f] = "merge"
      /\ \A g \in Finalizer : g # f => fin'[g] = fin[g]
  BY FinMove DEF Load, FinPc
<1>2. /\ lock = Nobody /\ lock' = f /\ ~SizeRight(final) /\ final' = NoFile
      /\ UNCHANGED <<extract, globbed, session, timer, listed, file, dir, conn,
                     accepted, acked>>
  BY DEF Load, Finalized
<1>3. \A g \in Finalizer : g # f => fin'[g] \notin Working
  BY <1>1, <1>2, Alone
<1>4. \A k \in Conn : conn[k].pc \notin {"rename", "save"}
  BY <1>2, Alone
<1>5. TypeOK'
  BY <1>1, <1>2 DEF TypeOK
<1>6. LockInv'
  BY <1>2, <1>3, <1>4 DEF LockInv
<1>7. MergeInv'
  BY <1>1, <1>2, <1>3 DEF MergeInv, Working
<1>8. OutputInv'
  BY <1>1, <1>2, <1>3 DEF OutputInv, DoneHasOutput, Working, SizeRight
<1>9. AckInv'
  BY <1>2, AckFrame DEF Kept, Delivered
<1> QED  BY <1>5, <1>6, <1>7, <1>8, <1>9

LEMMA MergeStepInv ==
  ASSUME Inv, NEW f \in Finalizer, Merge(f)
  PROVE  Inv'
<1> USE DEF Inv
<1>1. /\ fin' \in [Finalizer -> FinPc]
      /\ fin[f] = "merge" /\ fin'[f] = "validate"
      /\ \A g \in Finalizer : g # f => fin'[g] = fin[g]
  BY FinMove DEF Merge, FinPc
<1>2. /\ lock = f /\ lock' = f /\ final = NoFile
      /\ final' = [has |-> listed, old |-> FALSE]
      /\ UNCHANGED <<extract, globbed, session, timer, listed, file, dir, conn,
                     accepted, acked>>
  BY <1>1 DEF Merge, LockInv, MergeInv, Working
<1>3. \A g \in Finalizer : g # f => fin'[g] \notin Working
  BY <1>1, <1>2, Alone
<1>4. final' \in FinalFile /\ final' # NoFile /\ ~final'.old
  <2>1. listed \in SUBSET Chunk
    BY DEF TypeOK
  <2>2. final' \in FinalFile
    BY <1>2, <2>1 DEF FinalFile
  <2>3. final'.old = FALSE
    BY <1>2
  <2>4. final' # NoFile
    BY <2>2, NoFileAssumption
  <2> QED  BY <2>2, <2>3, <2>4
<1>5. TypeOK'
  BY <1>1, <1>2, <1>4 DEF TypeOK
<1>6. LockInv'
  BY <1>2, <1>3 DEF LockInv
<1>7. MergeInv'
  BY <1>1, <1>3, <1>4 DEF MergeInv, Working
<1>8. OutputInv'
  BY <1>1, <1>2, <1>3 DEF OutputInv, DoneHasOutput, Working, SizeRight
<1>9. AckInv'
  BY <1>2, AckFrame DEF Kept, Delivered, SizeRight
<1> QED  BY <1>5, <1>6, <1>7, <1>8, <1>9

LEMMA ValidateInv ==
  ASSUME Inv, NEW f \in Finalizer, Validate(f)
  PROVE  Inv'
<1> USE DEF Inv
<1> DEFINE pc == IF extract THEN "extract" ELSE "cleanup"
<1>1. /\ fin' \in [Finalizer -> FinPc]
      /\ fin[f] = "validate" /\ fin'[f] = pc
      /\ \A g \in Finalizer : g # f => fin'[g] = fin[g]
  BY FinMove, pc \in FinPc DEF Validate, FinPc
<1>2. /\ lock = f /\ Merged
      /\ UNCHANGED <<extract, globbed, session, timer, lock, listed, file,
                     final, dir, conn, accepted, acked>>
  BY <1>1 DEF Validate, LockInv, MergeInv, Working, Merged, Whole, fileVars
<1>3. \A g \in Finalizer : g # f => fin'[g] \notin Working
  BY <1>1, <1>2, Alone
<1>5. TypeOK'
  BY <1>1, <1>2 DEF TypeOK
<1>6. LockInv'
  BY <1>2, <1>3 DEF LockInv
<1>7. MergeInv'
  BY <1>1, <1>2, <1>3 DEF MergeInv, Working, Merged, SizeRight
<1>8. OutputInv'
  BY <1>1, <1>2, <1>3 DEF OutputInv, DoneHasOutput, Working, SizeRight
<1>9. AckInv'
  BY <1>2, AckFrame DEF Kept, Delivered, SizeRight
<1> QED  BY <1>5, <1>6, <1>7, <1>8, <1>9

LEMMA ExtractInv ==
  ASSUME Inv, NEW f \in Finalizer, Extract(f)
  PROVE  Inv'
<1> USE DEF Inv
<1>1. /\ fin' \in [Finalizer -> FinPc]
      /\ fin[f] = "extract" /\ fin'[f] = "extracting"
      /\ \A g \in Finalizer : g # f => fin'[g] = fin[g]
  BY FinMove DEF Extract, FinPc
<1>2. /\ lock = f /\ Merged /\ extract /\ dir = "none" /\ dir' = "partial"
      /\ UNCHANGED <<extract, globbed, session, timer, lock, listed, file,
                     final, conn, accepted, acked>>
  BY <1>1 DEF Extract, LockInv, MergeInv, Working
<1>3. \A g \in Finalizer : g # f => fin'[g] \notin Working
  BY <1>1, <1>2, Alone
<1>5. TypeOK'
  BY <1>1, <1>2 DEF TypeOK
<1>6. LockInv'
  BY <1>2, <1>3 DEF LockInv
<1>7. MergeInv'
  BY <1>1, <1>2, <1>3 DEF MergeInv, Working, Merged, SizeRight
<1>8. OutputInv'
  BY <1>1, <1>2, <1>3 DEF OutputInv, DoneHasOutput, Working, SizeRight
<1>9. AckInv'
  BY <1>2, AckFrame DEF Kept, Delivered, SizeRight
<1> QED  BY <1>5, <1>6, <1>7, <1>8, <1>9

LEMMA ExtractedInv ==
  ASSUME Inv, NEW f \in Finalizer, NEW removed \in BOOLEAN,
         Extracted(f, removed)
  PROVE  Inv'
<1> USE DEF Inv
<1>1. /\ fin' \in [Finalizer -> FinPc]
      /\ fin[f] = "extracting" /\ fin'[f] = "cleanup"
      /\ \A g \in Finalizer : g # f => fin'[g] = fin[g]
  BY FinMove DEF Extracted, FinPc
<1>2. /\ lock = f /\ extract /\ dir' = "whole"
      /\ final' \in {NoFile, final}
      /\ UNCHANGED <<extract, globbed, session, timer, lock, listed, file,
                     conn, accepted, acked>>
  BY <1>1 DEF Extracted, LockInv, MergeInv, Working
<1>3. \A g \in Finalizer : g # f => fin'[g] \notin Working
  BY <1>1, <1>2, Alone
<1>5. TypeOK'
  BY <1>1, <1>2 DEF TypeOK
<1>6. LockInv'
  BY <1>2, <1>3 DEF LockInv
<1>7. MergeInv'
  BY <1>1, <1>2, <1>3 DEF MergeInv, Working
<1>8. OutputInv'
  BY <1>1, <1>2, <1>3 DEF OutputInv, DoneHasOutput, Working
<1>9. AckInv'
  BY <1>2, AckFrame DEF Kept, Delivered
<1> QED  BY <1>5, <1>6, <1>7, <1>8, <1>9

LEMMA CleanupFinalInv ==
  ASSUME Inv, NEW f \in Finalizer, CleanupFinal(f)
  PROVE  Inv'
<1> USE DEF Inv
<1>1. /\ fin[f] = "cleanup" /\ globbed /\ final' = NoFile
      /\ UNCHANGED <<extract, globbed, session, timer, lock, listed, file, dir,
                     conn, fin, accepted, acked>>
  BY DEF CleanupFinal
<1>2. lock = f
  BY <1>1 DEF LockInv, Working
<1>3. \A g \in Finalizer : g # f => fin[g] \notin Working
  BY <1>2, Alone
<1>4. TypeOK'
  BY <1>1 DEF TypeOK
<1>5. LockInv'
  BY <1>1 DEF LockInv
<1>6. MergeInv'
  BY <1>1, <1>3 DEF MergeInv, Working
<1>7. OutputInv'
  BY <1>1 DEF OutputInv, DoneHasOutput
<1>8. AckInv'
  BY <1>1, AckFrame
<1> QED  BY <1>4, <1>5, <1>6, <1>7, <1>8

LEMMA CleanupInv ==
  ASSUME Inv, NEW f \in Finalizer, NEW c \in Chunk, Cleanup(f, c)
  PROVE  Inv'
<1> USE DEF Inv
<1>1. /\ fin[f] = "cleanup"
      /\ UNCHANGED <<extract, globbed, session, timer, lock, listed, final,
                     dir, conn, fin, accepted, acked>>
  BY DEF Cleanup
<1>2. file' \in [Chunk -> Version \cup {NoFile}]
  BY DEF Cleanup, TypeOK
<1>3. globbed \/ Delivered
  BY <1>1 DEF MergeInv, Merged, Delivered
<1>5. TypeOK'
  BY <1>1, <1>2 DEF TypeOK
<1>6. LockInv'
  BY <1>1 DEF LockInv
<1>7. MergeInv'
  BY <1>1 DEF MergeInv, Merged, SizeRight
<1>8. OutputInv'
  BY <1>1, OutputFrame
<1>9. AckInv'
  BY <1>1, <1>3, AckFrame DEF Kept, Delivered, SizeRight
<1> QED  BY <1>5, <1>6, <1>7, <1>8, <1>9

LEMMA RestartInv ==
  ASSUME Inv, Restart
  PROVE  Inv'
<1> USE DEF Inv, Restart, fileVars
<1>1. session' \in Session /\ session'.status = "receiving"
  BY SessionOps DEF TypeOK
<1>2. /\ conn' \in [Conn -> ConnState]
      /\ \A k \in Conn : conn'[k].pc = "idle"
  BY DEF TypeOK, ConnState, ConnPc
<1>3. /\ fin' \in [Finalizer -> FinPc]
      /\ \A f \in Finalizer : fin'[f] = "off"
  BY DEF FinPc
<1>4. TypeOK'
  BY <1>1, <1>2, <1>3 DEF TypeOK
<1>5. LockInv' /\ MergeInv'
  BY <1>2, <1>3 DEF LockInv, MergeInv, Working
<1>6. OutputInv'
  BY <1>1, <1>3 DEF OutputInv, DoneHasOutput
<1>7. AckInv'
  BY <1>2 DEF AckInv, Claiming, Kept, Delivered, SizeRight
<1> QED  BY <1>4, <1>5, <1>6, <1>7

-----------------------------------------------------------------------------
(* Every step of a connection after its header.                            *)
LEMMA HandleInv ==
  ASSUME Inv, NEW k \in Conn, Handle(k)
  PROVE  Inv'
<1>1. CASE CheckExisting(k)
  <2> DEFINE pc == IF Matches(k) THEN "existing" ELSE "receive"
  <2>1. pc \in ConnPc \ {"rename", "save"}
    BY DEF ConnPc
  <2> QED  BY <1>1, <2>1, ConnOnly DEF CheckExisting
<1>2. CASE ReceivePayload(k)
  BY <1>2, ConnOnly, "publish" \in ConnPc DEF ReceivePayload, ConnPc
<1>3. CASE RejectPayload(k)
  BY <1>3, ConnOnly, "idle" \in ConnPc DEF RejectPayload, ConnPc
<1>4. CASE PublishFails(k)
  <2>1. lock = Nobody \/ lock = k
    BY <1>4 DEF PublishFails, Inv, LockInv
  <2> QED  BY <1>4, <2>1, ConnOnly, "idle" \in ConnPc DEF PublishFails, ConnPc
<1>5. ASSUME NEW delivered \in BOOLEAN, Ack(k, delivered)
      PROVE  Inv'
  BY <1>5, ConnOnly, "schedule" \in ConnPc DEF Ack, ConnPc
<1>6. CASE AckFails(k)
  <2> DEFINE pc == IF conn[k].pc = "ack" THEN "idle" ELSE "schedule"
  <2>1. pc \in ConnPc \ {"rename", "save"} /\ pc \notin {"existing", "ack", "ackExisting"}
    BY DEF ConnPc
  <2> QED  BY <1>6, <2>1, ConnOnly DEF AckFails
<1> QED  BY <1>1, <1>2, <1>3, <1>4, <1>5, <1>6, PublishBeginInv, RenameInv,
            SaveInv, ScheduleInv DEF Handle

LEMMA FinalizeInv ==
  ASSUME Inv, NEW f \in Finalizer, Finalize(f)
  PROVE  Inv'
  BY FireBeginInv, EndInv, LoadInv, MergeStepInv, ValidateInv, ExtractInv,
     ExtractedInv, CleanupFinalInv, CleanupInv DEF Finalize

LEMMA StepInv == Inv /\ [Next]_vars => Inv'
<1> SUFFICES ASSUME Inv, [Next]_vars PROVE Inv'
  OBVIOUS
<1>1. ASSUME NEW k \in Conn, NEW c \in Chunk, NEW v \in Version, Accept(k, c, v)
      PROVE  Inv'
  BY <1>1, AcceptInv
<1>2. ASSUME NEW k \in Conn, Handle(k) PROVE Inv'
  BY <1>2, HandleInv
<1>3. ASSUME NEW f \in Finalizer, Fire(f) \/ Finalize(f) PROVE Inv'
  BY <1>3, FireBeginInv, FinalizeInv
<1>4. CASE Restart
  BY <1>4, RestartInv
<1>5. CASE UNCHANGED vars
  <2> USE <1>5 DEF vars, fileVars, Inv
  <2>1. TypeOK'
    BY DEF TypeOK
  <2>2. LockInv' /\ MergeInv'
    BY DEF LockInv, MergeInv, Merged, SizeRight
  <2>3. OutputInv'
    BY OutputFrame
  <2>4. AckInv'
    BY AckFrame DEF Kept, Delivered, SizeRight
  <2> QED  BY <2>1, <2>2, <2>3, <2>4
<1> QED  BY <1>1, <1>2, <1>3, <1>4, <1>5 DEF Next

LEMMA Invariance == Spec => []Inv
  BY InitInv, StepInv, PTL DEF Spec

-----------------------------------------------------------------------------
(* Every variable keeps its shape.                                         *)
THEOREM TypeCorrect == Spec => []TypeOK
  BY Invariance, PTL DEF Inv

(* A chunk whose sender was told "done" is in its chunk file or in the     *)
(* output, whatever connections, merges, I/O errors and restarts do        *)
(* (handleConn, finalizeReceiverSession).                                  *)
THEOREM AckedChunksAreKept == Spec => []AckedIsKept
<1>1. Inv => AckedIsKept
  BY DEF Inv, AckInv, AckedIsKept, Kept
<1> QED  BY <1>1, Invariance, PTL

(* What a session reports as done is there (markReceiverDone).             *)
THEOREM DoneIsThere == Spec => []DoneHasOutput
<1>1. Inv => DoneHasOutput
  BY DEF Inv, OutputInv
<1> QED  BY <1>1, Invariance, PTL

-----------------------------------------------------------------------------
(* The session implements Store.                                           *)

Promises == [Promised!Next]_Promised!vars

(* Nothing that Store speaks of changes.                                   *)
LEMMA StoreStutter ==
  ASSUME KeptChunks' = KeptChunks, acked' = acked, Delivered' = Delivered
  PROVE  Promises
BY DEF Promises, Promised!vars

LEMMA StoreFrame ==
  ASSUME UNCHANGED <<file, final, dir, acked>>
  PROVE  Promises
<1>1. Delivered' = Delivered
  BY DEF Delivered, SizeRight
<1>2. KeptChunks' = KeptChunks
  BY <1>1 DEF KeptChunks
<1> QED  BY <1>1, <1>2, StoreStutter

LEMMA StoreInit ==
  ASSUME Init
  PROVE  Promised!Init
<1>1. ~Delivered
  BY NoFileAssumption DEF Init, Delivered, SizeRight
<1> QED  BY <1>1 DEF Init, Promised!Init, KeptChunks

(* A connection publishes a chunk, or tells its sender.                    *)
LEMMA StoreHandle ==
  ASSUME SourceUnchanged, ~globbed, Inv, NEW k \in Conn, Handle(k)
  PROVE  Promises
<1> DEFINE c == conn[k].chunk
<1>1. c \in Chunk /\ conn[k].content \in Version /\ file \in [Chunk -> Version \cup {NoFile}]
  BY DEF Inv, TypeOK, ConnState
<1>2. CASE PublishBegin(k)
  <2>1. file' = file
    <3>1. CASE Matches(k)
      BY <1>2, <3>1 DEF PublishBegin
    <3>2. CASE ~Matches(k)
      <4>1. file[c] = NoFile
        BY <1>1, <3>2 DEF Matches, SourceUnchanged
      <4> QED  BY <1>1, <1>2, <3>2, <4>1 DEF PublishBegin
    <3> QED  BY <3>1, <3>2
  <2> QED  BY <1>2, <2>1, StoreFrame DEF PublishBegin
<1>3. CASE Rename(k)
  <2>1. UNCHANGED <<final, dir,
                    acked>> /\ file' = [file EXCEPT ![c] = conn[k].content]
    BY <1>3 DEF Rename
  <2>2. Delivered' = Delivered
    BY <2>1 DEF Delivered, SizeRight
  <2>3. KeptChunks' = KeptChunks \cup {c}
    <3>1. conn[k].content # NoFile
      BY <1>1, ConstantsAssumption
    <3> QED  BY <1>1, <2>1, <2>2, <3>1 DEF KeptChunks
  <2>4. Promised!Publish(c)
    BY <2>1, <2>2, <2>3 DEF Promised!Publish
  <2> QED  BY <1>1, <2>4 DEF Promises, Promised!Next
<1>4. ASSUME NEW delivered \in BOOLEAN, Ack(k, delivered) PROVE Promises
  <2>1. UNCHANGED <<file, final, dir>>
    BY <1>4 DEF Ack, fileVars
  <2>2. Delivered' = Delivered
    BY <2>1 DEF Delivered, SizeRight
  <2>3. KeptChunks' = KeptChunks
    BY <2>1, <2>2 DEF KeptChunks
  <2>4. CASE delivered
    <3>1. c \in KeptChunks
      BY <1>1, <1>4 DEF Ack, Inv, AckInv, Claiming, Kept, KeptChunks
    <3>2. acked' = acked \cup {c}
      BY <1>4, <2>4 DEF Ack
    <3>3. Promised!Tell(c)
      BY <2>2, <2>3, <3>1, <3>2 DEF Promised!Tell
    <3> QED  BY <1>1, <3>3 DEF Promises, Promised!Next
  <2>5. CASE ~delivered
    BY <1>4, <2>2, <2>3, <2>5, StoreStutter DEF Ack
  <2> QED  BY <2>4, <2>5
<1>5. CASE \/ CheckExisting(k) \/ ReceivePayload(k) \/ RejectPayload(k) \/ SaveManifest(k)
           \/ SaveExisting(k) \/ PublishFails(k) \/ AckFails(k) \/ Schedule(k)
  BY <1>5, StoreFrame DEF CheckExisting, ReceivePayload, RejectPayload, SaveManifest,
     SaveExisting, PublishFails, AckFails, Schedule, fileVars
<1> QED  BY <1>2, <1>3, <1>4, <1>5 DEF Handle

(* A finalizer delivers the output, or moves it.                           *)
LEMMA StoreFinalize ==
  ASSUME ~globbed, Inv, NEW f \in Finalizer, Finalize(f)
  PROVE  Promises
<1>1. CASE Begin(f) \/ AlreadyFinalized(f) \/ Validate(f) \/ Finish(f) \/ Fail(f)
  BY <1>1, StoreFrame DEF Begin, AlreadyFinalized, Validate, Finish, Fail, End, fileVars
<1>2. CASE Load(f)
  <2>1. UNCHANGED <<file, dir, acked>> /\ ~SizeRight(final) /\ final' = NoFile
    BY <1>2 DEF Load, Finalized
  <2>2. Delivered' = Delivered
    BY <2>1 DEF Delivered, SizeRight
  <2>3. KeptChunks' = KeptChunks
    BY <2>1, <2>2 DEF KeptChunks
  <2> QED  BY <2>1, <2>2, <2>3, StoreStutter
<1>3. CASE Merge(f)
  <2>1. /\ UNCHANGED <<file, dir, acked>> /\ final = NoFile
        /\ final' = [has |-> listed, old |-> FALSE]
        /\ \A c \in listed : file[c] # NoFile
    BY <1>3 DEF Merge, Inv, MergeInv
  <2>2. CASE listed = Chunk
    <3>1. Delivered' = TRUE
      <4>1. final' \in FinalFile
        BY <2>1, <2>2 DEF FinalFile
      <4> QED  BY <2>1, <2>2, <4>1, NoFileAssumption DEF Delivered, SizeRight
    <3>2. KeptChunks = Chunk /\ KeptChunks' = Chunk
      BY <2>1, <2>2, <3>1 DEF KeptChunks
    <3>3. Promised!Deliver
      BY <2>1, <3>1, <3>2 DEF Promised!Deliver
    <3> QED  BY <3>3 DEF Promises, Promised!Next
  <2>3. CASE listed # Chunk
    <3>1. Delivered' = Delivered
      BY <2>1, <2>3 DEF Delivered, SizeRight
    <3>2. KeptChunks' = KeptChunks
      BY <2>1, <3>1 DEF KeptChunks
    <3> QED  BY <2>1, <3>1, <3>2, StoreStutter
  <2> QED  BY <2>2, <2>3
<1>4. ASSUME Delivered = TRUE, Delivered' = TRUE, acked' = acked PROVE Promises
  <2>1. KeptChunks' = KeptChunks
    BY <1>4 DEF KeptChunks
  <2> QED  BY <1>4, <2>1, StoreStutter
<1>5. CASE Extract(f)
  <2>1. Delivered = TRUE /\ Delivered' = TRUE
    BY <1>5 DEF Extract, Inv, MergeInv, Merged, Delivered, SizeRight
  <2> QED  BY <1>4, <1>5, <2>1 DEF Extract
<1>6. ASSUME NEW removed \in BOOLEAN, Extracted(f, removed) PROVE Promises
  <2>1. Delivered = TRUE /\ Delivered' = TRUE
    BY <1>6 DEF Extracted, Inv, MergeInv, Merged, Delivered
  <2> QED  BY <1>4, <1>6, <2>1 DEF Extracted
<1>7. ASSUME NEW c \in Chunk, Cleanup(f, c) PROVE Promises
  <2>1. Delivered = TRUE
    BY <1>7 DEF Cleanup, Inv, MergeInv, Merged, Delivered
  <2>2. Delivered' = TRUE
    BY <1>7, <2>1 DEF Cleanup, Delivered, SizeRight
  <2> QED  BY <1>4, <1>7, <2>1, <2>2 DEF Cleanup
<1>8. ~CleanupFinal(f)
  BY DEF CleanupFinal
<1> QED  BY <1>1, <1>2, <1>3, <1>5, <1>6, <1>7, <1>8 DEF Finalize

LEMMA StoreStep ==
  ASSUME SourceUnchanged, ~globbed, Inv, [Next]_vars
  PROVE  Promises
<1>1. ASSUME NEW k \in Conn, NEW c \in Chunk, NEW v \in Version, Accept(k, c, v)
      PROVE  Promises
  BY <1>1, StoreFrame DEF Accept, fileVars
<1>2. ASSUME NEW f \in Finalizer, Fire(f) PROVE Promises
  BY <1>2, StoreFrame DEF Fire, fileVars
<1>3. CASE Restart
  BY <1>3, StoreFrame DEF Restart, fileVars
<1>4. CASE UNCHANGED vars
  BY <1>4, StoreFrame DEF vars, fileVars
<1> QED  BY <1>1, <1>2, <1>3, <1>4, StoreHandle, StoreFinalize DEF Next

(* Of a source that does not change, a session implements Store, with any  *)
(* connections, merges, I/O errors and restarts: what was published is     *)
(* kept, what was acked was published, and the output stays.  The one      *)
(* exception is a final file with .chunk in its name, which the clean-up   *)
(* takes for a chunk (cleanupReceiverChunks).                              *)
THEOREM ImplementsStore ==
  ASSUME SourceUnchanged
  PROVE  Spec => StoreSpec
<1>1. Init => (~globbed => Promised!Init)
  BY StoreInit
<1>2. Inv /\ [Next]_vars => (~globbed => [Promised!Next]_Promised!vars)
  BY StoreStep DEF Promises
<1>3. Inv /\ [Next]_vars
        => [~globbed => [Promised!Next]_Promised!vars]_vars
  BY <1>2
<1> QED  BY <1>1, <1>3, Invariance, PTL DEF Spec, StoreSpec

-----------------------------------------------------------------------------
(* Merging a plain file again.                                             *)

(* A merge works on what the manifest lists, and an output that was        *)
(* reported is never taken for one that has to be built.                   *)
PlainInv ==
  /\ \A f \in Finalizer : fin[f] \in Working => listed # {}
  /\ ~extract /\ ~globbed /\ session.output # "none" =>
       SizeRight(final) /\ listed # {} /\ session.merge # "failed"

(* What the code writes into a session: no output that was not there, and  *)
(* no failure.                                                             *)
LEMMA PlainSessions ==
  ASSUME NEW s \in Session
  PROVE  /\ Reopened(s).output = s.output /\ Reopened(s).merge # "failed"
         /\ [s EXCEPT !.merge = "pending"].output = s.output
         /\ [s EXCEPT !.merge = "pending"].merge # "failed"
         /\ [s EXCEPT !.merge = "running"].output = s.output
         /\ [s EXCEPT !.merge = "running"].merge # "failed"
         /\ NewSession.output = "none"
         /\ [NewSession EXCEPT !.known = FALSE].output = "none"
         /\ \A o \in {"final", "dir"} : Done(s, o).merge # "failed"
BY DEF Session, NewSession, Reopened, Done

(* A step that leaves manifest and output alone and starts no work.        *)
LEMMA PlainFrame ==
  ASSUME PlainInv, UNCHANGED <<extract, globbed, final>>,
                               listed \subseteq listed',
         \A f \in Finalizer : fin'[f] \in Working => fin[f] \in Working,
         \/ session' = session
         \/ session'.output = "none"
         \/ session'.output = session.output /\ session'.merge # "failed"
  PROVE  PlainInv'
BY DEF PlainInv, SizeRight

LEMMA PlainHandle ==
  ASSUME Inv, PlainInv, NEW k \in Conn, Handle(k)
  PROVE  PlainInv'
<1>1. UNCHANGED <<extract, globbed, final, fin>> /\ listed \subseteq listed'
  BY DEF Handle, CheckExisting, ReceivePayload, RejectPayload, PublishBegin, Rename,
         SaveManifest, SaveExisting, ListChunk, PublishFails, Ack, AckFails, Schedule,
         fileVars
<1>2. \/ session' \in {session, Reopened(session)}
      \/ session' = [session EXCEPT !.merge = "pending"]
  BY DEF Handle, CheckExisting, ReceivePayload, RejectPayload, PublishBegin, Rename,
         SaveManifest, SaveExisting, ListChunk, PublishFails, Ack, AckFails, Schedule
<1> QED  BY <1>1, <1>2, PlainFrame, PlainSessions DEF Inv, TypeOK

(* Without I/O errors only what stands in the way makes a merge fail.      *)
LEMMA PlainFinalize ==
  ASSUME ~IOErrors, Inv, PlainInv, NEW f \in Finalizer, Fire(f) \/ Finalize(f)
  PROVE  PlainInv'
<1> USE DEF Inv
<1>1. session \in Session /\ fin \in [Finalizer -> FinPc]
  BY DEF TypeOK
<1>2. ASSUME NEW pc, FinAt(f, pc)
      PROVE  fin'[f] = pc /\ \A g \in Finalizer : g # f => fin'[g] = fin[g]
  BY <1>1, <1>2 DEF FinAt
<1>3. CASE Fire(f)
  BY <1>2, <1>3, PlainFrame DEF Fire, fileVars, Working
<1>4. CASE Begin(f)
  <2>1. session' = session \/ (session'.output = session.output /\ session'.merge # "failed")
    BY <1>1, <1>4, PlainSessions DEF Begin
  <2>2. \A g \in Finalizer : fin'[g] \in Working => fin[g] \in Working
    BY <1>2, <1>4 DEF Begin, Working
  <2>3. UNCHANGED <<extract, globbed, final, listed>>
    BY <1>4 DEF Begin, fileVars
  <2> QED  BY <2>1, <2>2, <2>3, PlainFrame
<1>5. CASE AlreadyFinalized(f)
  <2>1. SizeRight(final) /\ listed # {} /\ session'.merge # "failed"
    BY <1>1, <1>5, PlainSessions DEF AlreadyFinalized, Finalized, End
  <2> QED  BY <1>2, <1>5, <2>1 DEF AlreadyFinalized, End, fileVars, PlainInv, SizeRight, Working
<1>6. CASE Load(f)
  <2>1. ~extract /\ ~globbed => session.output = "none"
    BY <1>6 DEF Load, Finalized, PlainInv
  <2> QED  BY <1>2, <1>6, <2>1 DEF Load, PlainInv, SizeRight
<1>7. CASE Merge(f)
  <2>1. ~extract /\ ~globbed => session.output = "none"
    BY <1>7 DEF Merge, MergeInv, PlainInv, SizeRight
  <2> QED  BY <1>2, <1>7, <2>1 DEF Merge, PlainInv, SizeRight, Working
<1>8. CASE Validate(f)
  BY <1>2, <1>8, PlainFrame DEF Validate, fileVars, Working
<1>9. CASE Extract(f)
  BY <1>2, <1>9, PlainFrame DEF Extract, Working
<1>10. ASSUME NEW removed \in BOOLEAN, Extracted(f, removed) PROVE PlainInv'
  <2>1. extract
    BY <1>10 DEF Extracted, MergeInv
  <2> QED  BY <1>2, <1>10, <2>1 DEF Extracted, PlainInv, Working
<1>11. ASSUME NEW c \in Chunk, Cleanup(f, c) PROVE PlainInv'
  BY <1>11, PlainFrame DEF Cleanup
<1>14. CASE CleanupFinal(f)
  BY <1>14 DEF CleanupFinal, PlainInv
<1>12. CASE Finish(f)
  <2>1. session'.merge # "failed"
    BY <1>1, <1>12, PlainSessions DEF Finish, End
  <2>2. listed # {} /\ (~extract /\ ~globbed => SizeRight(final))
    BY <1>12 DEF Finish, MergeInv, Merged, PlainInv, Working
  <2> QED  BY <1>2, <1>12, <2>1, <2>2 DEF Finish, End, fileVars, PlainInv, SizeRight, Working
<1>13. CASE Fail(f)
  <2>1. Obstacle(f)
    BY <1>13 DEF Fail, IOError
  <2>2. ~extract /\ ~globbed => session.output = "none"
    BY <2>1 DEF Obstacle, Whole, MergeInv, PlainInv, SizeRight
  <2>3. session'.output = session.output
    BY <1>1, <1>13, SessionOps DEF Fail, End
  <2> QED  BY <1>2, <1>13, <2>2, <2>3 DEF Fail, End, fileVars, PlainInv, SizeRight, Working
<1> QED  BY <1>3, <1>4, <1>5, <1>6, <1>7, <1>8, <1>9, <1>10, <1>11, <1>12, <1>13,
            <1>14 DEF Finalize

LEMMA PlainStep ==
  ASSUME ~IOErrors
  PROVE  Inv /\ PlainInv /\ [Next]_vars => PlainInv'
<1> SUFFICES ASSUME Inv, PlainInv, [Next]_vars PROVE PlainInv'
  OBVIOUS
<1>1. ASSUME NEW k \in Conn, NEW c \in Chunk, NEW v \in Version, Accept(k, c, v)
      PROVE  PlainInv'
  BY <1>1, PlainFrame, PlainSessions DEF Accept, fileVars, Inv, TypeOK
<1>2. CASE Restart
  <2>1. session'.output = "none" /\ \A f \in Finalizer : fin'[f] = "off"
    BY <1>2, PlainSessions DEF Restart, Inv, TypeOK
  <2> QED  BY <1>2, <2>1, PlainFrame DEF Restart, fileVars, Working
<1>3. CASE UNCHANGED vars
  BY <1>3, PlainFrame DEF vars, fileVars
<1> QED  BY <1>1, <1>2, <1>3, PlainHandle, PlainFinalize DEF Next

(* Merging a plain file again changes nothing, with any late chunks,       *)
(* overlapping merges and restarts: what the test of the finalization asks *)
(* holds for the files it is made with, if no file operation fails and the *)
(* clean-up does not take the file for a chunk.                            *)
THEOREM PlainMergeIsIdempotent ==
  ASSUME ~IOErrors
  PROVE  Spec => [](~extract /\ ~globbed => FinalizeIdempotent)
<1>1. Init => PlainInv
  BY DEF Init, NewSession, PlainInv, Working
<1>2. PlainInv => (~extract /\ ~globbed => FinalizeIdempotent)
  BY DEF PlainInv, FinalizeIdempotent
<1> QED  BY <1>1, <1>2, PlainStep, Invariance, PTL DEF Spec
=============================================================================
