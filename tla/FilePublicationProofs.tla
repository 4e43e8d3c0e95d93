----------------------- MODULE FilePublicationProofs ------------------------
(***************************************************************************)
(* Proofs about FilePublication, for any number of publishers, stores,     *)
(* readers, candidates and publications.                                   *)
(***************************************************************************)
EXTENDS FilePublication, SequenceTheorems, TLAPS

\* Only whole, validated results get under the target name, and what a
\* receipt was returned for is covered by a directory fsync.
EntriesAreWhole ==
    \A i \in 1 .. Len(entries) :
        entries[i].bytes = "synced" /\ entries[i].run \in Publishable

PublishersAreOrdered ==
    \A p \in Publisher :
        /\ pc[p] # "idle" => job[p] \in Publishable
        /\ pc[p] \in {"hook", "replace"} => temp[p] = "synced"
        /\ pc[p] = "syncDir" => place[p] <= Len(entries)
        /\ pc[p] = "receipt" => place[p] <= stable

ReadersAreBehind ==
    \A q \in Reader :
        /\ rpc[q] = "open" => since[q] <= acked
        /\ rpc[q] \in {"load", "done"} =>
              opened[q] <= Len(entries) /\ since[q] <= opened[q]

PublicationInv ==
    /\ PublicationTypeOK
    /\ acked <= stable
    /\ EntriesAreWhole
    /\ PublishersAreOrdered
    /\ ReadersAreBehind

LEMMA InitEstablishes == Init => PublicationInv
<1> SUFFICES ASSUME Init PROVE PublicationInv
  OBVIOUS
<1>1. entries \in Seq(Entry) /\ Len(entries) = 0
  BY DEF Init
<1>2. PublicationTypeOK
  BY <1>1, PublicationAssumption DEF Init, PublicationTypeOK, PublisherPC
<1> QED
  BY <1>1, <1>2 DEF Init, PublicationInv, EntriesAreWhole,
     PublishersAreOrdered, ReadersAreBehind

LEMMA BeginPreserves ==
    ASSUME PublicationInv, NEW p \in Publisher, NEW r \in Run,
           BeginPublish(p, r)
    PROVE  PublicationInv'
<1> USE DEF PublicationInv, BeginPublish, Step, fileVars, readerVars
<1>1. PublicationTypeOK'
  BY PublicationAssumption DEF PublicationTypeOK, PublisherPC
<1>2. EntriesAreWhole' /\ ReadersAreBehind' /\ (acked <= stable)'
  BY DEF EntriesAreWhole, ReadersAreBehind
<1>3. PublishersAreOrdered'
  BY DEF PublishersAreOrdered, PublicationTypeOK
<1> QED
  BY <1>1, <1>2, <1>3

\* The steps before os.replace, and a failure at any point.
LEMMA PreparationPreserves ==
    ASSUME PublicationInv, NEW p \in Publisher,
           \/ AcquireStoreLock(p)
           \/ WriteTemporary(p)
           \/ FsyncTemporary(p)
           \/ BeforeCommit(p)
           \/ PublishRaises(p)
    PROVE  PublicationInv'
<1> USE DEF PublicationInv, AcquireStoreLock, WriteTemporary, FsyncTemporary,
        BeforeCommit, PublishRaises, Unlock, Step, fileVars, readerVars
<1>1. PublicationTypeOK'
  BY PublicationAssumption DEF PublicationTypeOK, PublisherPC
<1>2. EntriesAreWhole' /\ ReadersAreBehind' /\ (acked <= stable)'
  BY DEF EntriesAreWhole, ReadersAreBehind
<1>3. PublishersAreOrdered'
  BY DEF PublishersAreOrdered, PublicationTypeOK
<1> QED
  BY <1>1, <1>2, <1>3

LEMMA ReplacePreserves ==
    ASSUME PublicationInv, NEW p \in Publisher, ReplaceTarget(p)
    PROVE  PublicationInv'
<1> DEFINE e == [run |-> job[p], bytes |-> temp[p]]
<1>1. e \in Entry /\ e.bytes = "synced" /\ e.run \in Publishable
  BY DEF PublicationInv, ReplaceTarget, Step, PublishersAreOrdered,
     PublicationTypeOK, Entry
<1>2. entries' = Append(entries, e) /\ entries \in Seq(Entry)
  BY DEF PublicationInv, ReplaceTarget, PublicationTypeOK
<1> HIDE DEF e
<1>3. /\ entries' \in Seq(Entry)
      /\ Len(entries') = Len(entries) + 1
      /\ Len(entries) \in Nat
      /\ entries'[Len(entries) + 1] = e
      /\ \A i \in 1 .. Len(entries) : entries'[i] = entries[i]
  BY <1>1, <1>2
<1> USE DEF PublicationInv, ReplaceTarget, Step, readerVars
<1>4. PublicationTypeOK'
  BY <1>3 DEF PublicationTypeOK, PublisherPC
<1>5. EntriesAreWhole'
  BY <1>1, <1>3 DEF EntriesAreWhole
<1>6. PublishersAreOrdered'
  BY <1>3 DEF PublishersAreOrdered, PublicationTypeOK
<1>7. ReadersAreBehind' /\ (acked <= stable)'
  BY <1>3 DEF ReadersAreBehind, PublicationTypeOK
<1> QED
  BY <1>4, <1>5, <1>6, <1>7

LEMMA CompletionPreserves ==
    ASSUME PublicationInv, NEW p \in Publisher,
           SyncDirectory(p) \/ ReturnReceipt(p)
    PROVE  PublicationInv'
<1> USE DEF PublicationInv, SyncDirectory, ReturnReceipt, Unlock, Step,
        fileVars, readerVars
<1>0. entries' = entries /\ Len(entries) \in Nat
  BY DEF PublicationTypeOK
<1>1. PublicationTypeOK'
  <2>1. /\ stable' \in 0 .. Len(entries')
        /\ acked' \in Nat
        /\ lock' \in [Store -> Publisher \cup {NoOne}]
    BY <1>0 DEF PublicationTypeOK
  <2>2. pc' \in [Publisher -> PublisherPC]
    BY DEF PublicationTypeOK, PublisherPC
  <2> QED
    BY <1>0, <2>1, <2>2 DEF PublicationTypeOK
<1>2. EntriesAreWhole' /\ ReadersAreBehind' /\ (acked <= stable)'
  BY DEF EntriesAreWhole, ReadersAreBehind, PublishersAreOrdered,
     PublicationTypeOK
<1>3. PublishersAreOrdered'
  BY DEF PublishersAreOrdered, PublicationTypeOK
<1> QED
  BY <1>1, <1>2, <1>3

LEMMA ReadPreserves ==
    ASSUME PublicationInv, NEW q \in Reader, ReadStep(q)
    PROVE  PublicationInv'
<1> USE DEF PublicationInv, ReadStep, CheckTarget, OpenTarget, LoadDocument,
        FinishRead, fileVars, publisherVars
<1>0. UNCHANGED <<entries, stable>> /\ Len(entries) \in Nat
  BY DEF PublicationTypeOK
<1>1. PublicationTypeOK'
  <2>1. rpc' \in [Reader -> {"idle", "open", "load", "done"}]
    BY DEF PublicationTypeOK
  <2>2. opened' \in [Reader -> Nat] /\ since' \in [Reader -> Nat]
    <3>1. /\ opened' = opened \/ \E n \in Nat : opened' = [opened EXCEPT ![q] = n]
          /\ since' = since \/ since' = [since EXCEPT ![q] = acked]
      <4>1. CASE CheckTarget(q)
        BY <4>1
      <4>2. CASE OpenTarget(q)
        BY <1>0, <4>2
      <4> QED
        BY <4>1, <4>2
    <3>2. /\ opened \in [Reader -> Nat]
          /\ since \in [Reader -> Nat]
          /\ acked \in Nat
      BY DEF PublicationTypeOK
    <3>3. since' \in [Reader -> Nat]
      BY <3>1, <3>2
    <3>4. opened' \in [Reader -> Nat]
      BY <3>1, <3>2
    <3> QED
      BY <3>3, <3>4
  <2> QED
    BY <1>0, <2>1, <2>2 DEF PublicationTypeOK
<1>2. EntriesAreWhole' /\ PublishersAreOrdered' /\ (acked <= stable)'
  BY DEF EntriesAreWhole, PublishersAreOrdered
<1>3. ReadersAreBehind'
  BY DEF ReadersAreBehind, PublicationTypeOK
<1> QED
  BY <1>1, <1>2, <1>3

\* Every entry is whole, so that losing power only shortens the history.
LEMMA PowerLossShortens ==
    ASSUME PublicationInv, PowerLoss
    PROVE  \E n \in stable .. Len(entries) :
              /\ entries' = [i \in 1 .. n |-> entries[i]]
              /\ stable' = n
              /\ entries' \in Seq(Entry)
              /\ Len(entries') = n
<1>1. PICK n \in stable .. Len(entries) :
          /\ entries' = [i \in 1 .. n |-> AfterPowerLoss(entries[i])]
          /\ stable' = n
  BY DEF PowerLoss
<1>2. entries \in Seq(Entry) /\ stable \in Nat /\ n \in Nat /\ n <= Len(entries)
  BY DEF PublicationInv, PublicationTypeOK
<1>3. \A i \in 1 .. n : AfterPowerLoss(entries[i]) = entries[i]
  BY <1>2 DEF PublicationInv, EntriesAreWhole, AfterPowerLoss
<1>4. entries' = [i \in 1 .. n |-> entries[i]]
  BY <1>1, <1>3
<1>5. \A i \in 1 .. n : entries[i] \in Entry
  BY <1>2
<1>6. entries' \in Seq(Entry) /\ Len(entries') = n
  BY <1>2, <1>4, <1>5
<1> QED
  BY <1>1, <1>4, <1>6

LEMMA PowerLossPreserves ==
    ASSUME PublicationInv, PowerLoss
    PROVE  PublicationInv'
<1>1. PICK n \in stable .. Len(entries) :
          /\ entries' = [i \in 1 .. n |-> entries[i]]
          /\ stable' = n
          /\ entries' \in Seq(Entry)
          /\ Len(entries') = n
  BY PowerLossShortens
<1>2. stable \in Nat /\ Len(entries) \in Nat /\ n \in Nat
  BY DEF PublicationInv, PublicationTypeOK
<1> USE DEF PublicationInv, PowerLoss
<1>3. PublicationTypeOK'
  BY <1>1, <1>2 DEF PublicationTypeOK, PublisherPC
<1>4. EntriesAreWhole'
  BY <1>1, <1>2 DEF EntriesAreWhole
<1>5. PublishersAreOrdered' /\ ReadersAreBehind'
  BY DEF PublishersAreOrdered, ReadersAreBehind
<1>6. (acked <= stable)'
  BY <1>1, <1>2 DEF PublicationTypeOK
<1> QED
  BY <1>3, <1>4, <1>5, <1>6

LEMMA NextPreserves ==
    ASSUME PublicationInv, [Next]_vars
    PROVE  PublicationInv'
<1>1. CASE UNCHANGED vars
  BY <1>1 DEF vars, fileVars, publisherVars, readerVars, PublicationInv,
     PublicationTypeOK, EntriesAreWhole, PublishersAreOrdered, ReadersAreBehind
<1>2. CASE Next
  BY <1>2, BeginPreserves, PreparationPreserves, ReplacePreserves,
     CompletionPreserves, ReadPreserves, PowerLossPreserves
     DEF Next, PublishStep
<1> QED
  BY <1>1, <1>2

\* For any number of publishers, stores and readers: PublicationInv always
\* holds.
THEOREM PublicationInvariant == Spec => []PublicationInv
<1>1. PublicationInv /\ [Next]_vars => PublicationInv'
  BY NextPreserves
<1> QED
  BY <1>1, InitEstablishes, PTL DEF Spec

\* Type correctness of the publication protocol (publication.py, publish and
\* read_current).
THEOREM PublicationTypeCorrect == Spec => []PublicationTypeOK
<1>1. PublicationInv => PublicationTypeOK
  BY DEF PublicationInv
<1> QED
  BY <1>1, PublicationInvariant, PTL

\* read_current never returns a torn, refused or stale result: it returns
\* what was acknowledged before it was called, or something later.
THEOREM ReadersSeeAcknowledged == Spec => []ReadsAreFresh
<1>1. PublicationInv => ReadsAreFresh
  BY DEF PublicationInv, ReadsAreFresh, ReadersAreBehind, EntriesAreWhole,
     PublicationTypeOK
<1> QED
  BY <1>1, PublicationInvariant, PTL
-----------------------------------------------------------------------------
(* Refinement *)

Runs == [i \in 1 .. Len(entries) |-> entries[i].run]

LEMMA RunsLength ==
    ASSUME PublicationInv
    PROVE  Runs \in Seq(Run) /\ Len(Runs) = Len(entries)
<1>1. /\ Len(entries) \in Nat
      /\ \A i \in 1 .. Len(entries) : entries[i] \in Entry
  BY DEF PublicationInv, PublicationTypeOK
<1>2. \A i \in 1 .. Len(entries) : entries[i].run \in Run
  BY <1>1 DEF Entry
<1>3. \A i \in 1 .. Len(entries) : Runs[i] \in Run
  BY <1>2 DEF Runs
<1>4. Runs = [i \in 1 .. Len(entries) |-> Runs[i]]
  BY DEF Runs
<1> HIDE DEF Runs
<1> QED
  BY <1>1, <1>3, <1>4

LEMMA RunsAppend ==
    ASSUME PublicationInv, NEW p \in Publisher, ReplaceTarget(p)
    PROVE  Runs' = Append(Runs, job[p]) /\ job[p] \in Publishable
<1> DEFINE e == [run |-> job[p], bytes |-> temp[p]]
<1>1. /\ entries \in Seq(Entry)
      /\ entries' = Append(entries, e)
      /\ job[p] \in Publishable
  BY DEF PublicationInv, PublicationTypeOK, ReplaceTarget, Step,
     PublishersAreOrdered
<1>2. e \in Entry /\ e.run = job[p]
  BY DEF PublicationInv, PublicationTypeOK, ReplaceTarget, Step,
     PublishersAreOrdered, Entry
<1> HIDE DEF e
<1>3. /\ Len(entries) \in Nat
      /\ Len(entries') = Len(entries) + 1
      /\ entries'[Len(entries) + 1] = e
      /\ \A i \in 1 .. Len(entries) : entries'[i] = entries[i]
  BY <1>1, <1>2
<1>4. Runs \in Seq(Run) /\ Len(Runs) = Len(entries)
  BY RunsLength
<1>5. Append(Runs, job[p]) =
        [i \in 1 .. Len(entries) + 1 |->
            IF i <= Len(entries) THEN Runs[i] ELSE job[p]]
  BY <1>3, <1>4
<1>6. Runs' = [i \in 1 .. Len(entries) + 1 |-> entries'[i].run]
  BY <1>3 DEF Runs
<1>7. \A i \in 1 .. Len(entries) + 1 :
        entries'[i].run = IF i <= Len(entries) THEN Runs[i] ELSE job[p]
  BY <1>2, <1>3 DEF Runs
<1> QED
  BY <1>1, <1>5, <1>6, <1>7

LEMMA RunsUndo ==
    ASSUME PublicationInv, PowerLoss
    PROVE  \E n \in acked .. Len(Runs) : Runs' = [i \in 1 .. n |-> Runs[i]]
<1>1. PICK n \in stable .. Len(entries) :
          /\ entries' = [i \in 1 .. n |-> entries[i]]
          /\ Len(entries') = n
  BY PowerLossShortens
<1>2. /\ entries \in Seq(Entry) /\ stable \in Nat /\ acked \in Nat
      /\ acked <= stable /\ n \in Nat /\ n <= Len(entries)
  BY DEF PublicationInv, PublicationTypeOK
<1>3. Len(Runs) = Len(entries)
  BY RunsLength
<1>4. Runs' = [i \in 1 .. n |-> Runs[i]]
  BY <1>1, <1>2 DEF Runs
<1> QED
  BY <1>2, <1>3, <1>4

LEMMA StepRefines ==
    ASSUME PublicationInv, [Next]_vars
    PROVE  [Register!RegisterNext]_(Register!registerVars)
<1> USE DEF Register!registerVars
<1>1. ASSUME NEW p \in Publisher, ReplaceTarget(p)
      PROVE  Register!RegisterNext
  BY <1>1, RunsAppend DEF Register!RegisterNext, Register!TakeEffect,
     ReplaceTarget, Runs
<1>2. ASSUME PowerLoss
      PROVE  Register!RegisterNext
  BY <1>2, RunsUndo DEF Register!RegisterNext, Register!Undo, PowerLoss, Runs
<1>3. ASSUME NEW p \in Publisher, ReturnReceipt(p)
      PROVE  Register!RegisterNext
  <2>1. Runs' = Runs
    BY <1>3 DEF ReturnReceipt, fileVars, Runs
  <2>2. acked' \in acked .. Len(entries)
    BY <1>3 DEF ReturnReceipt, Step, PublicationInv, PublicationTypeOK,
       PublishersAreOrdered
  <2>3. Len(Runs) = Len(entries)
    BY RunsLength
  <2> QED
    BY <2>1, <2>2, <2>3 DEF Register!RegisterNext, Register!Acknowledge, Runs
<1>4. ASSUME entries' = entries, acked' = acked
      PROVE  UNCHANGED Register!registerVars
  BY <1>4
<1>5. ASSUME Next, ~PowerLoss, \A p \in Publisher : ~ReplaceTarget(p),
             \A p \in Publisher : ~ReturnReceipt(p)
      PROVE  entries' = entries /\ acked' = acked
  BY <1>5 DEF Next, BeginPublish, PublishStep, AcquireStoreLock,
     WriteTemporary, FsyncTemporary, BeforeCommit, SyncDirectory,
     PublishRaises, ReadStep, CheckTarget, OpenTarget, LoadDocument,
     FinishRead, fileVars
<1>6. ASSUME UNCHANGED vars
      PROVE  entries' = entries /\ acked' = acked
  BY <1>6 DEF vars, fileVars
<1> QED
  BY <1>1, <1>2, <1>3, <1>4, <1>5, <1>6

\* The publication protocol implements the durable register of
\* DurableRegister: one publication at a time, and acknowledged ones last.
THEOREM PublicationRefines == Spec => ImplementsRegister
<1>1. Init => Register!RegisterInit
  BY DEF Init, Register!RegisterInit
<1>2. PublicationInv /\ [Next]_vars =>
        [Register!RegisterNext]_(Register!registerVars)
  BY StepRefines
<1> QED
  BY <1>1, <1>2, PublicationInvariant, PTL
     DEF Spec, ImplementsRegister, Register!RegisterSpec
=============================================================================
