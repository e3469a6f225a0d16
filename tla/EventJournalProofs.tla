------------------------- MODULE EventJournalProofs -------------------------
(***************************************************************************)
(* Proofs about EventJournal, for any number of Runs, processes, calls,    *)
(* readers, cancellations and crashes.                                     *)
(***************************************************************************)
EXTENDS EventJournal, SequenceTheorems, TLAPS

\* ORDER BY sequence DESC LIMIT 1 finds N in a table with the rows 1..N.
LEMMA LastOfInterval ==
  ASSUME NEW n \in Nat, NEW f, DOMAIN f = 1..n
  PROVE  LastSequence(f) = n
<1>1. CASE n = 0
  BY <1>1, DOMAIN f = {} DEF LastSequence
<1>2. CASE n # 0
  <2>1. n \in DOMAIN f /\ \A t \in DOMAIN f : t <= n
    BY <1>2
  <2>2. \A s \in DOMAIN f : (\A t \in DOMAIN f : t <= s) => s = n
    BY <2>1
  <2> QED
    BY <1>2, <2>1, <2>2 DEF LastSequence
<1> QED
  BY <1>1, <1>2

\* The arguments of a call have their types.
LEMMA RequestType ==
  ASSUME NEW c \in Calls
  PROVE  /\ Request[c].run \in Runs /\ Request[c].op \in {"create", "append"}
         /\ Request[c].expected \in Nat
         /\ Request[c].kinds \in Seq(Kinds)
         /\ Request[c].op = "create" =>
              Request[c].expected = 0 /\ Request[c].kinds = <<Opened>> /\ Request[c].key \in Keys
<1>1. CASE Request[c] \in CreateRequests
  <2>1. Opened \in Kinds
    BY DEF Kinds
  <2>2. <<Opened>> \in Seq(Kinds)
    BY <2>1
  <2>3. /\ Request[c].op = "create" /\ Request[c].run \in Runs
        /\ Request[c].expected = 0 /\ Request[c].kinds = <<Opened>> /\ Request[c].key \in Keys
    BY <1>1 DEF CreateRequests
  <2> QED
    BY <2>2, <2>3
<1>2. CASE Request[c] \in AppendRequests
  BY <1>2 DEF AppendRequests
<1> QED
  BY <1>1, <1>2, ConstantsAssumption

\* Inserting one more row fills one more place, a new one.
LEMMA PlacesGrow ==
  ASSUME NEW c \in Calls, NEW n \in Nat \ {0}
  PROVE  /\ Places(c, n) = {Request[c].expected + n} \cup Places(c, n - 1)
         /\ Request[c].expected + n \notin Places(c, n - 1)
         /\ Places(c, n) \subseteq Nat
         /\ (Request[c].expected + n) - Request[c].expected = n
<1>1. Request[c].expected \in Nat
  BY RequestType
<1> QED
  BY <1>1 DEF Places

\* Every initial state satisfies the invariant.
LEMMA InitInv == Init => JournalInv
<1> SUFFICES ASSUME Init PROVE JournalInv
  OBVIOUS
<1> USE ConstantsAssumption
<1>1. TypeOK
  BY DEF Init, TypeOK, EmptyTable, IsTable, ReaderViews
<1>2. \A r \in Runs : LastSequence(table[r]) = 0
  BY DEF Init, EmptyTable, LastSequence
<1>3. Contiguous
  <2> SUFFICES ASSUME NEW r \in Runs
               PROVE  /\ LastSequence(table[r]) \in Nat
                      /\ DOMAIN table[r] = 1..LastSequence(table[r])
                      /\ key[r] = None <=> DOMAIN table[r] = {}
    BY DEF Contiguous
  <2>1. DOMAIN table[r] = {} /\ key[r] = None
    BY DEF Init, EmptyTable
  <2> QED
    BY <1>2, <2>1
<1>4. ClosedByTerminal
  BY DEF Init, ClosedByTerminal, EmptyTable
<1>5. ThreadInv
  BY DEF Init, ThreadInv
<1>6. StagedInv
  BY DEF Init, StagedInv, EmptyTable, Effective, CreateRequests, AppendRequests
<1>7. BufferInv
  BY DEF Init, BufferInv, EmptyTable
<1> QED
  BY <1>1, <1>3, <1>4, <1>5, <1>6, <1>7 DEF JournalInv

-----------------------------------------------------------------------------
(* The steps that leave the tables alone.                                  *)

\* A step that changes neither the journal, nor any transaction, nor any
\* thread keeps what is said of them.
LEMMA QuietTables ==
  ASSUME JournalInv, UNCHANGED <<durable, connection, job>>
  PROVE  /\ Contiguous' /\ ClosedByTerminal' /\ StagedInv'
         /\ DOMAIN table' = Runs /\ \A r \in Runs : IsTable(table'[r])
         /\ DOMAIN staged' = Procs /\ \A p \in Procs : IsTable(staged'[p])
<1>1. Contiguous' /\ ClosedByTerminal'
  BY DEF JournalInv, Contiguous, ClosedByTerminal, durable
<1>2. StagedInv'
  BY DEF JournalInv, StagedInv, durable, connection, Verdict, CheckCreate, CheckAppend, Effective, Fits
<1> QED
  BY <1>1, <1>2 DEF JournalInv, TypeOK, durable, connection

LEMMA SubmitStep ==
  ASSUME JournalInv, NEW c \in Calls, Submit(c)
  PROVE  JournalInv'
<1> USE DEF Submit, readers, durable, connection
<1>1. TypeOK'
  BY QuietTables DEF JournalInv, TypeOK
<1>2. ThreadInv'
  BY DEF JournalInv, TypeOK, ThreadInv
<1>3. BufferInv'
  BY DEF JournalInv, BufferInv
<1> QED
  BY <1>1, <1>2, <1>3, QuietTables DEF JournalInv

LEMMA AcquireStep ==
  ASSUME JournalInv, NEW c \in Calls, AcquireLock(c)
  PROVE  JournalInv'
<1> USE DEF AcquireLock, readers, durable, connection
<1>1. TypeOK'
  BY ConstantsAssumption DEF JournalInv, TypeOK
<1>2. Contiguous' /\ ClosedByTerminal'
  BY DEF JournalInv, Contiguous, ClosedByTerminal
<1>3. ThreadInv'
  BY DEF JournalInv, TypeOK, ThreadInv
<1>4. StagedInv'
  <2>1. job[c] = "none"
    BY DEF JournalInv, ThreadInv
  <2> QED
    BY <2>1, ZenonT(60) DEF JournalInv, TypeOK, StagedInv, Verdict, CheckCreate, CheckAppend, Effective, Fits
<1>5. BufferInv'
  BY DEF JournalInv, BufferInv
<1> QED
  BY <1>1, <1>2, <1>3, <1>4, <1>5 DEF JournalInv

LEMMA SettleStep ==
  ASSUME JournalInv, NEW c \in Calls, Settle(c)
  PROVE  JournalInv'
<1> USE DEF Settle, readers, durable, connection, Unlocked
<1>1. TypeOK'
  BY QuietTables, ConstantsAssumption DEF JournalInv, TypeOK
<1>2. ThreadInv'
  BY DEF JournalInv, TypeOK, ThreadInv
<1>3. BufferInv'
  BY DEF JournalInv, BufferInv
<1> QED
  BY <1>1, <1>2, <1>3, QuietTables DEF JournalInv

LEMMA NotifyStep ==
  ASSUME JournalInv, NEW c \in Calls, Notify(c)
  PROVE  JournalInv'
<1> USE DEF Notify, durable, connection
<1>1. TypeOK'
  BY QuietTables DEF JournalInv, TypeOK
<1>2. ThreadInv'
  BY DEF JournalInv, TypeOK, ThreadInv
<1>3. BufferInv'
  BY DEF JournalInv, TypeOK, BufferInv
<1> QED
  BY <1>1, <1>2, <1>3, QuietTables DEF JournalInv

LEMMA CancelStep ==
  ASSUME JournalInv, NEW c \in Calls, Cancel(c)
  PROVE  JournalInv'
<1> USE DEF Cancel, readers, durable, connection, Shielded, Unlocked
<1>1. TypeOK'
  BY ConstantsAssumption DEF JournalInv, TypeOK
<1>2. Contiguous' /\ ClosedByTerminal'
  BY DEF JournalInv, Contiguous, ClosedByTerminal
<1>3. ThreadInv'
  BY DEF JournalInv, TypeOK, ThreadInv
<1>4. StagedInv'
  <2>1. \A d \in Calls : job'[d] = job[d] \/ (job[d] = "queued" /\ job'[d] = "dead")
    BY DEF JournalInv, TypeOK
  <2> HIDE DEF Cancel, Shielded, Unlocked
  <2> QED
    BY <2>1, ZenonT(60) DEF Cancel, JournalInv, StagedInv, Verdict, CheckCreate, CheckAppend, Effective, Shielded, Unlocked, Fits
<1>5. BufferInv'
  BY DEF JournalInv, BufferInv
<1> QED
  BY <1>1, <1>2, <1>3, <1>4, <1>5 DEF JournalInv

-----------------------------------------------------------------------------
(* The steps of a worker thread.                                           *)

LEMMA BeginFailsStep ==
  ASSUME JournalInv, NEW c \in Calls, BeginFails(c)
  PROVE  JournalInv'
<1> USE DEF BeginFails, readers, durable, connection, WriteLockFree
<1>1. TypeOK'
  BY DEF JournalInv, TypeOK
<1>2. Contiguous' /\ ClosedByTerminal'
  BY DEF JournalInv, Contiguous, ClosedByTerminal
<1>3. ThreadInv'
  BY DEF JournalInv, TypeOK, ThreadInv
<1>4. StagedInv'
  BY ZenonT(60) DEF JournalInv, TypeOK, StagedInv, Verdict, CheckCreate, CheckAppend, Effective, Fits
<1>5. BufferInv'
  BY DEF JournalInv, BufferInv
<1> QED
  BY <1>1, <1>2, <1>3, <1>4, <1>5 DEF JournalInv

LEMMA BeginStep ==
  ASSUME JournalInv, NEW c \in Calls, Begin(c)
  PROVE  JournalInv'
<1> USE DEF Begin, readers, durable, WriteLockFree
<1>0. Home[c] \in Procs /\ c # None
  BY ConstantsAssumption
<1>1. TypeOK'
  BY <1>0 DEF JournalInv, TypeOK
<1>2. Contiguous' /\ ClosedByTerminal'
  BY DEF JournalInv, Contiguous, ClosedByTerminal
<1>3. ThreadInv'
  <2>1. \A d \in Calls : job[d] \notin {"begun", "inserting"}
    BY <1>0, ConstantsAssumption DEF JournalInv, ThreadInv
  <2>2. \A d \in Calls : job'[d] = IF d = c THEN "begun" ELSE job[d]
    BY DEF JournalInv, TypeOK
  <2>3. \A p \in Procs : txn'[p] = IF p = Home[c] THEN c ELSE None
    BY DEF JournalInv, TypeOK
  <2> QED
    BY <1>0, <2>1, <2>2, <2>3 DEF JournalInv, ThreadInv
<1>4. StagedInv'
  <2>1. \A d \in Calls : job[d] \notin {"begun", "inserting"}
    BY <1>0, ConstantsAssumption DEF JournalInv, ThreadInv
  <2>2. /\ \A d \in Calls : d # c => job'[d] = job[d]
        /\ job[c] = "queued" /\ job'[c] = "begun"
    BY DEF JournalInv, TypeOK
  <2>3. \A p \in Procs : DOMAIN staged'[p] = {}
    BY DEF JournalInv, StagedInv
  <2> QED
    BY <1>0, <2>1, <2>2, <2>3, SMTT(30) DEF JournalInv, StagedInv, Effective
<1>5. BufferInv'
  BY DEF JournalInv, BufferInv
<1> QED
  BY <1>1, <1>2, <1>3, <1>4, <1>5 DEF JournalInv

LEMMA CheckStep ==
  ASSUME JournalInv, NEW c \in Calls, Check(c)
  PROVE  JournalInv'
<1> USE DEF Check, readers, durable
<1>0. Home[c] \in Procs /\ c # None
  BY ConstantsAssumption
<1>1. TypeOK'
  <2>1. Verdict(c) \in {"insert", "ok", "exists", "unknown", "terminal", "conflict"}
    BY DEF Verdict, CheckCreate, CheckAppend, Fits
  <2>2. LastSequence(table[Request[c].run]) \in Nat
    BY ConstantsAssumption DEF JournalInv, Contiguous, CreateRequests, AppendRequests
  <2> QED
    BY <1>0, <2>1, <2>2 DEF JournalInv, TypeOK
<1>2. Contiguous' /\ ClosedByTerminal'
  BY DEF JournalInv, Contiguous, ClosedByTerminal
<1>3. ThreadInv'
  <2>1. txn[Home[c]] = c /\ \A p \in Procs : p # Home[c] => txn[p] = None
    BY <1>0 DEF JournalInv, ThreadInv
  <2>2. \A d \in Calls : d # c => job[d] \notin {"begun", "inserting"} /\ job'[d] = job[d]
    BY <1>0, <2>1, ConstantsAssumption DEF JournalInv, TypeOK, ThreadInv
  <2>3. CASE Verdict(c) = "insert"
    <3>1. txn' = txn /\ job'[c] = "inserting"
      BY <2>3 DEF JournalInv, TypeOK
    <3> QED
      BY <1>0, <2>1, <2>2, <3>1 DEF JournalInv, ThreadInv
  <2>4. CASE Verdict(c) # "insert"
    <3>1. job'[c] = "done" /\ \A p \in Procs : txn'[p] = None
      BY <2>1, <2>4 DEF JournalInv, TypeOK
    <3> QED
      BY <1>0, <2>1, <2>2, <3>1 DEF JournalInv, ThreadInv
  <2> QED
    BY <2>3, <2>4
<1>4. StagedInv'
  <2>1. \A d \in Calls : d # c => job'[d] = job[d]
    BY DEF JournalInv, TypeOK
  <2>2. DOMAIN staged[Home[c]] = {} /\ txn[Home[c]] = c
    BY DEF JournalInv, StagedInv, ThreadInv
  <2>3. \A d \in Calls : d # c => job[d] \notin {"begun", "inserting"}
    BY <1>0, <2>2, ConstantsAssumption DEF JournalInv, ThreadInv
  <2>4. \A d \in Calls : Effective(d)' <=> Effective(d)
    BY DEF Effective
  <2>5. CASE Verdict(c) = "insert"
    <3>1. job'[c] = "inserting" /\ txn' = txn /\ Verdict(c)'
        = "insert"
      BY <2>5 DEF JournalInv, TypeOK, Verdict, CheckCreate, CheckAppend, Fits
    <3>2. 0 \in 0..Len(Request[c].kinds) /\ Places(c, 0) = {}
      <4>1. Request[c].expected \in Nat /\ Len(Request[c].kinds) \in Nat
        BY ConstantsAssumption DEF CreateRequests, AppendRequests
      <4> QED
        BY <4>1 DEF Places
    <3> QED
      BY <2>1, <2>2, <2>3, <2>4, <3>1, <3>2 DEF JournalInv, StagedInv
  <2>6. CASE Verdict(c) # "insert"
    <3>1. job'[c] = "done" /\ \A p \in Procs : txn'[p] = IF p = Home[c] THEN None ELSE txn[p]
      BY <2>6 DEF JournalInv, TypeOK
    <3> QED
      BY <2>1, <2>2, <2>3, <2>4, <3>1 DEF JournalInv, StagedInv
  <2> QED
    BY <2>5, <2>6
<1>5. BufferInv'
  BY DEF JournalInv, BufferInv
<1> QED
  BY <1>1, <1>2, <1>3, <1>4, <1>5 DEF JournalInv

LEMMA RollBackStep ==
  ASSUME JournalInv, NEW c \in Calls, RollBack(c)
  PROVE  JournalInv'
<1> USE DEF RollBack, readers, durable
<1>0. Home[c] \in Procs /\ c # None /\ DOMAIN EmptyTable = {}
  BY ConstantsAssumption DEF EmptyTable
<1>1. TypeOK'
  BY <1>0 DEF JournalInv, TypeOK, IsTable
<1>2. Contiguous' /\ ClosedByTerminal'
  BY DEF JournalInv, Contiguous, ClosedByTerminal
<1>3. /\ job'[c] = "done" /\ \A d \in Calls : d # c => job'[d] = job[d]
      /\ \A p \in Procs : txn'[p] = None
      /\ \A d \in Calls : d # c => job[d] \notin {"begun", "inserting"}
  <2>1. txn[Home[c]] = c /\ \A p \in Procs : p # Home[c] => txn[p] = None
    BY <1>0 DEF JournalInv, ThreadInv
  <2>2. \A p \in Procs : txn'[p] = None
    BY <1>0, <2>1 DEF JournalInv, TypeOK
  <2>3. \A d \in Calls : d # c => job[d] \notin {"begun", "inserting"}
    BY <1>0, <2>1, ConstantsAssumption DEF JournalInv, ThreadInv
  <2>4. job'[c] = "done" /\ \A d \in Calls : d # c => job'[d] = job[d]
    BY DEF JournalInv, TypeOK
  <2> QED
    BY <2>2, <2>3, <2>4
<1>4. ThreadInv'
  <2>1. job[c] # "none" /\ pc' = pc
    OBVIOUS
  <2>2. \A d \in Calls : /\ pc[d] \in {"ready", "locking"} => job[d] = "none"
                         /\ Request[d].op = "append" /\ (pc[d] = "locking" \/ job[d] # "none")
                              => ValidBatch(Request[d].kinds)
    BY DEF JournalInv, ThreadInv
  <2> HIDE DEF RollBack
  <2> QED
    BY <1>3, <2>1, <2>2 DEF ThreadInv
<1>5. StagedInv'
  <2>1. \A p \in Procs : DOMAIN staged'[p] = {}
    BY <1>0, <1>3 DEF JournalInv, TypeOK, StagedInv, ThreadInv
  <2>2. \A d \in Calls : Effective(d)' <=> Effective(d)
    BY DEF Effective
  <2> QED
    BY <1>3, <2>1, <2>2 DEF JournalInv, StagedInv
<1>6. BufferInv'
  BY DEF JournalInv, BufferInv
<1> QED
  BY <1>1, <1>2, <1>4, <1>5, <1>6 DEF JournalInv

LEMMA InsertStep ==
  ASSUME JournalInv, NEW c \in Calls, Insert(c)
  PROVE  JournalInv'
<1> USE DEF Insert, readers, writers, durable
<1>0. Home[c] \in Procs /\ c # None /\ Request[c].expected \in Nat
      /\ Request[c].kinds \in Seq(Kinds)
  BY ConstantsAssumption, RequestType
<1> DEFINE p == Home[c]
           r == Request[c].run
           e == Request[c].expected
<1>1. PICK n \in 1..Len(Request[c].kinds) :
        /\ DOMAIN staged[p] = Places(c, n - 1)
        /\ staged' = [staged EXCEPT ![p] =
             Overlay([s \in {e + n} |-> DraftRow(c, n)], @)]
  OBVIOUS
<1>u. UNCHANGED <<durable, txn, writers, readers, crashes>> /\ job[c] = "inserting"
  OBVIOUS
<1> HIDE DEF Insert
<1>n. n \in Nat \ {0} /\ Len(Request[c].kinds) \in Nat
  BY <1>0
<1>2. /\ DOMAIN staged'[p] = Places(c, n)
      /\ staged'[p][e + n] = DraftRow(c, n)
      /\ \A s \in DOMAIN staged[p] : s # e + n /\ staged'[p][s] = staged[p][s]
      /\ \A q \in Procs : q # p => staged'[q] = staged[q]
  <2>1. /\ staged'[p] = Overlay([s \in {e + n} |-> DraftRow(c, n)], staged[p])
        /\ \A q \in Procs : q # p => staged'[q] = staged[q]
    BY <1>0, <1>1 DEF JournalInv, TypeOK
  <2> QED
    BY <1>1, <1>n, <2>1, PlacesGrow DEF Overlay
<1>3. IsTable(staged'[p])
  <2>1. DraftRow(c, n) \in Row
    BY <1>0 DEF DraftRow, Row
  <2>2. \A s \in DOMAIN staged[p] : staged[p][s] \in Row
    BY <1>0 DEF IsTable, JournalInv, TypeOK
  <2> QED
    BY <1>1, <1>2, <1>n, <2>1, <2>2, PlacesGrow DEF IsTable
<1>4. TypeOK'
  BY <1>u, <1>1, <1>2, <1>3 DEF JournalInv, TypeOK
<1>5. Contiguous' /\ ClosedByTerminal'
  BY <1>u DEF JournalInv, Contiguous, ClosedByTerminal
<1>6. ThreadInv'
  BY <1>u DEF JournalInv, ThreadInv
<1>7. StagedInv'
  <2>1. txn[p] = c
    BY <1>u DEF JournalInv, ThreadInv
  <2>2. \A d \in Calls : d # c => job[d] \notin {"begun", "inserting"}
    BY <1>0, <2>1, ConstantsAssumption DEF JournalInv, ThreadInv
  <2>3. \A d \in Calls : (Effective(d)' <=> Effective(d)) /\ Verdict(d)' = Verdict(d)
    BY <1>u DEF Effective, Verdict, CheckCreate, CheckAppend, Fits
  <2>4. \A s \in DOMAIN staged'[p] : staged'[p][s] = DraftRow(c, s - e)
    <3>1. \A s \in DOMAIN staged[p] : staged[p][s] = DraftRow(c, s - e)
      BY <1>u DEF JournalInv, StagedInv
    <3> QED
      BY <1>1, <1>2, <1>n, <3>1, PlacesGrow, SMTT(30)
  <2>5. n \in 0..Len(Request[c].kinds)
    BY <1>n
  <2>6. Verdict(c) = "insert"
    BY <1>u DEF JournalInv, StagedInv
  <2>7. \A q \in Procs : txn'[q] = None => DOMAIN staged'[q] = {}
    BY <1>0, <1>u, <1>2, <2>1 DEF JournalInv, StagedInv
  <2>8. \A d \in Calls : job'[d] \in {"none", "queued", "begun", "inserting"} => ~Effective(d)'
    BY <1>u, <2>3 DEF JournalInv, StagedInv
  <2>9. \A d \in Calls : job'[d] = "begun" => DOMAIN staged'[Home[d]] = {}
    BY <1>u, <2>2
  <2>10. \A d \in Calls : job'[d] = "inserting" => d = c
    BY <1>u, <2>2
  <2> QED
    BY <1>2, <2>3, <2>4, <2>5, <2>6, <2>7, <2>8, <2>9, <2>10 DEF StagedInv
<1>8. BufferInv'
  BY <1>u DEF JournalInv, BufferInv
<1> QED
  BY <1>4, <1>5, <1>6, <1>7, <1>8 DEF JournalInv

\* A call whose checks said "insert" expects exactly what is committed, and
\* that is not closed.
LEMMA InsertPlace ==
  ASSUME JournalInv, NEW c \in Calls, Verdict(c) = "insert"
  PROVE  LET r == Request[c].run
             e == Request[c].expected
         IN  /\ DOMAIN table[r] = 1..e /\ LastSequence(table[r]) = e
             /\ e # 0 => table[r][e].kind \notin Terminal
             /\ Request[c].op = "create" => e = 0
             /\ Request[c].op = "append" => e # 0 /\ key[r] # None
<1> DEFINE r == Request[c].run
           e == Request[c].expected
<1>1. r \in Runs /\ e \in Nat /\ Request[c].op \in {"create", "append"}
  BY RequestType
<1>2. DOMAIN table[r] = 1..LastSequence(table[r]) /\ LastSequence(table[r]) \in Nat
      /\ (key[r] = None <=> DOMAIN table[r] = {})
  BY <1>1 DEF JournalInv, Contiguous
<1>3. CASE Request[c].op = "create"
  <2>1. key[r] = None /\ e = 0
    BY <1>3, RequestType DEF Verdict, CheckCreate
  <2>2. DOMAIN table[r] = {} /\ LastSequence(table[r]) = 0
    BY <1>2, <2>1 DEF LastSequence
  <2> QED
    BY <1>3, <2>1, <2>2
<1>4. CASE Request[c].op = "append"
  <2>1. key[r] # None /\ LastSequence(table[r]) = e /\ table[r][e].kind \notin Terminal
    BY <1>4 DEF Verdict, CheckAppend, Fits
  <2>2. e # 0
    BY <1>1, <1>2, <2>1
  <2> QED
    BY <1>2, <1>4, <2>1, <2>2
<1> QED
  BY <1>1, <1>3, <1>4

\* The batch of a call that reached a thread: never empty, run.opened only
\* from a create(), terminal only at the end.
LEMMA BatchShape ==
  ASSUME JournalInv, NEW c \in Calls, job[c] # "none"
  PROVE  LET kinds == Request[c].kinds
         IN  /\ Len(kinds) \in Nat \ {0}
             /\ \A i \in 1..Len(kinds) :
                  /\ kinds[i] \in Kinds
                  /\ kinds[i] = Opened <=> Request[c].op = "create"
                  /\ kinds[i] \in Terminal => i = Len(kinds)
<1> DEFINE kinds == Request[c].kinds
<1>1. kinds \in Seq(Kinds) /\ Request[c].op \in {"create", "append"}
  BY RequestType
<1>2. CASE Request[c].op = "create"
  <2>1. kinds = <<Opened>>
    BY <1>2, RequestType
  <2>2. Len(kinds) = 1 /\ kinds[1] = Opened
    BY <2>1
  <2>3. Opened \notin Terminal /\ Opened \in Kinds
    BY DEF Opened, Terminal, Kinds
  <2> QED
    BY <1>2, <2>2, <2>3
<1>3. CASE Request[c].op = "append"
  <2>1. ValidBatch(kinds)
    BY <1>3 DEF JournalInv, ThreadInv
  <2>2. Len(kinds) \in Nat \ {0}
    BY <1>1, <2>1 DEF ValidBatch
  <2> QED
    BY <1>1, <1>3, <2>1, <2>2 DEF ValidBatch
<1> QED
  BY <1>1, <1>2, <1>3

\* What a commit leaves in the table of its Run: the old rows, then the batch.
LEMMA CommitTable ==
  ASSUME JournalInv, NEW c \in Calls, Commit(c)
  PROVE  LET r == Request[c].run
             e == Request[c].expected
             n == Len(Request[c].kinds)
         IN  /\ DOMAIN table[r] = 1..e
             /\ DOMAIN table'[r] = 1..(e + n) /\ LastSequence(table'[r]) = e + n
             /\ \A s \in 1..e : table'[r][s] = table[r][s]
             /\ \A s \in Places(c, n) : table'[r][s] = DraftRow(c, s - e)
             /\ DOMAIN table' = Runs
             /\ \A q \in Runs : q # r => table'[q] = table[q]
<1> DEFINE p == Home[c]
           r == Request[c].run
           e == Request[c].expected
           n == Len(Request[c].kinds)
<1>1. /\ job[c] = "inserting" /\ DOMAIN staged[p] = Places(c, n)
      /\ table' = [table EXCEPT ![r] = Overlay(staged[p], @)]
  BY DEF Commit, AllInserted, KeyAfter
<1>2. r \in Runs /\ e \in Nat /\ n \in Nat /\ DOMAIN table = Runs
  BY <1>1, RequestType, BatchShape DEF JournalInv, TypeOK
<1>3. DOMAIN table[r] = 1..e
  BY <1>1, InsertPlace DEF JournalInv, StagedInv
<1>4. table'[r] = Overlay(staged[p], table[r])
      /\ DOMAIN table' = Runs /\ \A q \in Runs : q # r => table'[q] = table[q]
  BY <1>1, <1>2
<1>5. DOMAIN table'[r] = Places(c, n) \cup 1..e
  BY <1>1, <1>3, <1>4 DEF Overlay
<1>6. Places(c, n) \cup 1..e = 1..(e + n) /\ Places(c, n) \cap 1..e = {}
  BY <1>2 DEF Places
<1>7. LastSequence(table'[r]) = e + n
  BY <1>2, <1>5, <1>6, LastOfInterval, e + n \in Nat
<1>8. \A s \in Places(c, n) : table'[r][s] = DraftRow(c, s - e)
  BY <1>1, <1>4 DEF Overlay, JournalInv, StagedInv
<1>9. \A s \in 1..e : table'[r][s] = table[r][s]
  BY <1>1, <1>3, <1>4, <1>6 DEF Overlay
<1> QED
  BY <1>3, <1>4, <1>5, <1>6, <1>7, <1>8, <1>9

\* A commit puts rows of its own call in the journal and of no other.
LEMMA CommitAddsOne ==
  ASSUME JournalInv, NEW c \in Calls, Commit(c), NEW d \in Calls, d # c, Effective(d)'
  PROVE  Effective(d)
<1> DEFINE r == Request[c].run
           e == Request[c].expected
           n == Len(Request[c].kinds)
<1>1. PICK s \in DOMAIN table'[Request[d].run] : table'[Request[d].run][s].batch = d
  BY DEF Effective
<1>2. Request[d].run \in Runs /\ e \in Nat /\ n \in Nat
  BY RequestType
<1>3. CASE Request[d].run # r
  BY <1>1, <1>2, <1>3, CommitTable DEF Effective
<1>4. CASE Request[d].run = r
  <2>1. s \in 1..(e + n)
    BY <1>1, <1>4, CommitTable
  <2>2. s \in 1..e \/ s \in Places(c, n)
    BY <1>2, <2>1 DEF Places
  <2>3. s \in Places(c, n) => table'[r][s] = DraftRow(c, s - e)
    BY CommitTable
  <2>4. s \notin Places(c, n)
    BY <1>1, <1>4, <2>3 DEF DraftRow
  <2>5. s \in 1..e /\ table'[r][s] = table[r][s] /\ s \in DOMAIN table[r]
    BY <2>2, <2>4, CommitTable
  <2> QED
    BY <1>1, <1>4, <2>5 DEF Effective
<1> QED
  BY <1>3, <1>4

LEMMA CommitStep ==
  ASSUME JournalInv, NEW c \in Calls, Commit(c)
  PROVE  JournalInv'
<1> DEFINE p == Home[c]
           r == Request[c].run
           e == Request[c].expected
           kinds == Request[c].kinds
           n == Len(kinds)
<1>1. /\ job[c] = "inserting"
      /\ key' = [key EXCEPT ![r] = IF Request[c].op = "create" THEN Request[c].key ELSE @]
      /\ txn' = [txn EXCEPT ![p] = None]
      /\ staged' = [staged EXCEPT ![p] = EmptyTable]
      /\ job' = [job EXCEPT ![c] = "done"]
      /\ outcome' = [outcome EXCEPT ![c] = "ok"]
      /\ UNCHANGED <<lock, pc, latest, cancels, readers, crashes>>
  BY DEF Commit, AllInserted, KeyAfter
<1>2. p \in Procs /\ c # None /\ r \in Runs /\ e \in Nat /\ n \in Nat \ {0}
      /\ Request[c].op \in {"create", "append"}
  BY <1>1, ConstantsAssumption, RequestType, BatchShape
<1>3. /\ DOMAIN table[r] = 1..e
      /\ DOMAIN table'[r] = 1..(e + n) /\ LastSequence(table'[r]) = e + n
      /\ \A s \in 1..e : table'[r][s] = table[r][s]
      /\ \A s \in Places(c, n) : table'[r][s] = DraftRow(c, s - e)
      /\ DOMAIN table' = Runs
      /\ \A q \in Runs : q # r => table'[q] = table[q]
  BY CommitTable
<1>4. \A s \in 1..(e + n) : s \in 1..e \/ (s \in Places(c, n) /\ s - e \in 1..n)
  BY <1>2 DEF Places
<1>5. /\ e # 0 => table[r][e].kind \notin Terminal
      /\ LastSequence(table[r]) = e
      /\ Request[c].op = "create" => e = 0
      /\ Request[c].op = "append" => e # 0 /\ key[r] # None
  BY <1>1, InsertPlace DEF JournalInv, StagedInv
<1>6. \A i \in 1..n : /\ kinds[i] \in Kinds
                      /\ kinds[i] = Opened <=> Request[c].op = "create"
                      /\ kinds[i] \in Terminal => i = n
  BY <1>1, BatchShape
<1>7. txn[p] = c /\ \A q \in Procs : q # p => txn[q] = None
  BY <1>1, <1>2 DEF JournalInv, ThreadInv
<1>8. \A d \in Calls : d # c => job[d] \notin {"begun", "inserting"} /\ job'[d] = job[d]
  <2>1. \A d \in Calls : d # c => job[d] \notin {"begun", "inserting"}
    BY <1>2, <1>7, ConstantsAssumption DEF JournalInv, ThreadInv
  <2>2. \A d \in Calls : d # c => job'[d] = job[d]
    BY <1>1 DEF JournalInv, TypeOK
  <2> QED
    BY <2>1, <2>2
<1>9. job'[c] = "done" /\ \A q \in Procs : txn'[q] = None
  BY <1>1, <1>7 DEF JournalInv, TypeOK
<1>10. IsTable(table'[r])
  <2>1. \A s \in 1..e : table[r][s] \in Row
    BY <1>2, <1>3 DEF JournalInv, TypeOK, IsTable
  <2>2. \A i \in 1..n : DraftRow(c, i) \in Row
    BY <1>6 DEF DraftRow, Row
  <2>3. ASSUME NEW s \in 1..(e + n) PROVE table'[r][s] \in Row
    <3>1. CASE s \in 1..e
      BY <1>3, <2>1, <3>1
    <3>2. CASE s \in Places(c, n) /\ s - e \in 1..n
      BY <1>3, <2>2, <3>2
    <3> QED
      BY <1>4, <3>1, <3>2
  <2>4. DOMAIN table'[r] \subseteq Nat
    BY <1>2, <1>3
  <2>5. DOMAIN table'[r] = 1..(e + n)
    BY <1>3
  <2> QED
    BY <2>3, <2>4, <2>5 DEF IsTable
<1>11. TypeOK'
  <2>1. key' \in [Runs -> Keys \cup {None}]
    BY <1>1, <1>2, RequestType DEF JournalInv, TypeOK
  <2>2. DOMAIN table' = Runs /\ \A q \in Runs : IsTable(table'[q])
    BY <1>3, <1>10 DEF JournalInv, TypeOK
  <2>3. DOMAIN staged' = Procs /\ \A q \in Procs : IsTable(staged'[q])
    BY <1>1 DEF JournalInv, TypeOK, EmptyTable, IsTable
  <2> QED
    BY <1>1, <2>1, <2>2, <2>3 DEF JournalInv, TypeOK, readers
<1>12. Contiguous'
  <2> SUFFICES ASSUME NEW q \in Runs
               PROVE  /\ LastSequence(table'[q]) \in Nat
                      /\ DOMAIN table'[q] = 1..LastSequence(table'[q])
                      /\ key'[q] = None <=> DOMAIN table'[q] = {}
    BY DEF Contiguous
  <2>1. CASE q # r
    BY <1>1, <1>3, <2>1 DEF JournalInv, TypeOK, Contiguous
  <2>2. CASE q = r
    <3>1. key'[r] # None
      BY <1>1, <1>2, <1>5, RequestType, ConstantsAssumption DEF JournalInv, TypeOK
    <3>2. 1 \in 1..(e + n) /\ e + n \in Nat
      BY <1>2
    <3>3. DOMAIN table'[r] = 1..(e + n) /\ LastSequence(table'[r]) = e + n
      BY <1>3
    <3> QED
      BY <2>2, <3>1, <3>2, <3>3
  <2> QED
    BY <2>1, <2>2
<1>13. ClosedByTerminal'
  <2> SUFFICES ASSUME NEW q \in Runs, NEW s \in DOMAIN table'[q]
               PROVE  /\ table'[q][s].kind = Opened <=> s = 1
                      /\ table'[q][s].kind \in Terminal => s = LastSequence(table'[q])
    BY DEF ClosedByTerminal
  <2>1. CASE q # r
    BY <1>3, <2>1 DEF JournalInv, ClosedByTerminal
  <2>2. CASE q = r /\ s \in 1..e
    BY <1>2, <1>3, <1>5, <2>2 DEF JournalInv, ClosedByTerminal
  <2>3. CASE q = r /\ s \in Places(c, n) /\ s - e \in 1..n
    <3>1. table'[r][s].kind = kinds[s - e]
      <4>1. table'[r][s] = DraftRow(c, s - e)
        BY <1>3, <2>3
      <4> QED
        BY <4>1 DEF DraftRow
    <3>2. s \in Nat /\ (s - e = n => s = e + n) /\ (s = 1 => e = 0) /\ (e = 0 => s \in 1..n)
      BY <1>2, <2>3 DEF Places
    <3>3. Request[c].op = "create" => s = 1
      <4>1. Request[c].op = "create" => e = 0 /\ kinds = <<Opened>>
        BY RequestType
      <4>2. Len(<<Opened>>) = 1
        OBVIOUS
      <4>3. e = 0 /\ n = 1 => s = 1
        BY <3>2
      <4> QED
        BY <4>1, <4>2, <4>3
    <3> QED
      BY <1>2, <1>3, <1>5, <1>6, <2>3, <3>1, <3>2, <3>3
  <2> QED
    BY <1>3, <1>4, <2>1, <2>2, <2>3
<1>14. ThreadInv'
  BY <1>1, <1>8, <1>9 DEF JournalInv, ThreadInv
<1>15. StagedInv'
  <2>1. \A q \in Procs : DOMAIN staged'[q] = {}
    BY <1>1, <1>7 DEF JournalInv, TypeOK, StagedInv, EmptyTable
  <2>2. \A d \in Calls : d # c => (Effective(d)' => Effective(d))
    BY CommitAddsOne
  <2>3. \A d \in Calls : job'[d] \in {"none", "queued", "begun", "inserting"} => ~Effective(d)'
    BY <1>8, <1>9, <2>2 DEF JournalInv, StagedInv
  <2>4. \A d \in Calls : job'[d] \notin {"begun", "inserting"}
    BY <1>8, <1>9
  <2> QED
    BY <2>1, <2>3, <2>4 DEF StagedInv
<1>16. BufferInv'
  BY <1>1 DEF JournalInv, BufferInv, readers
<1> QED
  BY <1>11, <1>12, <1>13, <1>14, <1>15, <1>16 DEF JournalInv

-----------------------------------------------------------------------------
(* The steps of an iteration, and a crash.                                 *)

\* What a connection sees has its type and has no gap, with or without rows of
\* its own open transaction.
LEMMA VisibleInterval ==
  ASSUME JournalInv, NEW p \in Procs, NEW r \in Runs
  PROVE  IsTable(Visible(p, r)) /\ \E n \in Nat : DOMAIN Visible(p, r) = 1..n
<1>1. DOMAIN table[r] = 1..LastSequence(table[r]) /\ LastSequence(table[r]) \in Nat
      /\ IsTable(table[r]) /\ IsTable(staged[p])
  BY DEF JournalInv, Contiguous, TypeOK
<1>2. CASE ~(txn[p] # None /\ Request[txn[p]].run = r)
  BY <1>1, <1>2 DEF Visible
<1>3. CASE txn[p] # None /\ Request[txn[p]].run = r
  <2> DEFINE c == txn[p]
             e == Request[c].expected
  <2>1. c \in Calls /\ Home[c] = p /\ job[c] \in {"begun", "inserting"}
        /\ e \in Nat /\ Request[c].kinds \in Seq(Kinds)
    BY <1>3, RequestType DEF JournalInv, TypeOK, ThreadInv
  <2>2. Visible(p, r) = Overlay(staged[p], table[r])
    BY <1>3 DEF Visible
  <2>3. IsTable(Visible(p, r))
    BY <1>1, <2>2 DEF IsTable, Overlay
  <2>4. CASE job[c] = "begun"
    <3>1. DOMAIN staged[p] = {}
      BY <2>1, <2>4 DEF JournalInv, StagedInv
    <3> QED
      BY <1>1, <2>2, <2>3, <3>1 DEF Overlay
  <2>5. CASE job[c] = "inserting"
    <3>1. PICK k \in 0..Len(Request[c].kinds) : DOMAIN staged[p] = Places(c, k)
      BY <2>1, <2>5 DEF JournalInv, StagedInv
    <3>2. k \in Nat /\ e + k \in Nat
      BY <2>1
    <3>3. DOMAIN table[r] = 1..e
      BY <1>3, <2>1, <2>5, InsertPlace DEF JournalInv, StagedInv
    <3>4. Places(c, k) \cup 1..e = 1..(e + k)
      BY <2>1, <3>2 DEF Places
    <3>5. DOMAIN Visible(p, r) = 1..(e + k)
      BY <2>2, <3>1, <3>3, <3>4 DEF Overlay
    <3> QED
      BY <2>3, <3>2, <3>5
  <2> QED
    BY <2>1, <2>4, <2>5
<1> QED
  BY <1>2, <1>3

\* The first row a consumer gets is the one right after its cursor.
LEMMA NextIsFirst ==
  ASSUME JournalInv, NEW t \in Readers, DOMAIN buffer[t] # {}
  PROVE  FirstSequence(buffer[t]) = cursor[t] + 1 /\ cursor[t] + 1 \in DOMAIN buffer[t]
<1>1. cursor[t] \in Nat /\ DOMAIN buffer[t] \subseteq Nat
  BY DEF JournalInv, TypeOK, IsTable
<1>2. \A s \in DOMAIN buffer[t] :
        s > cursor[t] /\ ((cursor[t] + 1)..s) \subseteq DOMAIN buffer[t]
  BY DEF JournalInv, BufferInv
<1>3. cursor[t] + 1 \in DOMAIN buffer[t]
  <2>1. PICK s : s \in DOMAIN buffer[t]
    OBVIOUS
  <2>2. cursor[t] + 1 \in (cursor[t] + 1)..s
    BY <1>1, <1>2, <2>1
  <2> QED
    BY <1>2, <2>1, <2>2
<1>4. \A s \in DOMAIN buffer[t] : cursor[t] + 1 <= s
  BY <1>1, <1>2
<1>5. \A s \in DOMAIN buffer[t] :
        (\A u \in DOMAIN buffer[t] : s <= u) => s = cursor[t] + 1
  BY <1>1, <1>3, <1>4
<1> QED
  BY <1>3, <1>4, <1>5 DEF FirstSequence

LEMMA StartReaderStep ==
  ASSUME JournalInv, NEW t \in Readers, StartReader(t)
  PROVE  JournalInv'
<1> USE DEF StartReader, writers
<1>1. TypeOK'
  BY QuietTables DEF JournalInv, TypeOK, durable, connection
<1>2. ThreadInv'
  BY DEF JournalInv, ThreadInv, connection
<1>3. BufferInv'
  BY DEF JournalInv, TypeOK, BufferInv
<1> QED
  BY <1>1, <1>2, <1>3, QuietTables DEF JournalInv

LEMMA CheckTerminalStep ==
  ASSUME JournalInv, NEW t \in Readers, CheckTerminal(t)
  PROVE  JournalInv'
<1> USE DEF CheckTerminal, writers
<1>1. TypeOK'
  BY QuietTables DEF JournalInv, TypeOK, durable, connection
<1>2. ThreadInv'
  BY DEF JournalInv, ThreadInv, connection
<1>3. BufferInv'
  BY DEF JournalInv, TypeOK, BufferInv
<1> QED
  BY <1>1, <1>2, <1>3, QuietTables DEF JournalInv

LEMMA PollStep ==
  ASSUME JournalInv, NEW t \in Readers, Poll(t)
  PROVE  JournalInv'
<1> USE DEF Poll, writers
<1>1. TypeOK'
  BY QuietTables DEF JournalInv, TypeOK, durable, connection
<1>2. ThreadInv'
  BY DEF JournalInv, ThreadInv, connection
<1>3. BufferInv'
  BY DEF JournalInv, TypeOK, BufferInv
<1> QED
  BY <1>1, <1>2, <1>3, QuietTables DEF JournalInv

LEMMA FetchStep ==
  ASSUME JournalInv, NEW t \in Readers, Fetch(t)
  PROVE  JournalInv'
<1> DEFINE rows == RowsAfter(Home[t], View[t].run, cursor[t])
<1>1. Home[t] \in Procs /\ View[t].run \in Runs
  BY ConstantsAssumption DEF ReaderViews
<1>2. PICK n \in Nat : DOMAIN Visible(Home[t], View[t].run) = 1..n
  BY <1>1, VisibleInterval
<1>3. cursor[t] \in Nat
  BY DEF JournalInv, TypeOK
<1>4. DOMAIN rows = {s \in 1..n : s > cursor[t]}
  BY <1>2 DEF RowsAfter
<1>5. \A s \in DOMAIN rows : s > cursor[t] /\ ((cursor[t] + 1)..s) \subseteq DOMAIN rows
  BY <1>2, <1>3, <1>4
<1>6. IsTable(rows)
  BY <1>1, <1>2, VisibleInterval DEF RowsAfter, IsTable
<1>7. \/ buffer' = buffer /\ reader' = [reader EXCEPT ![t] = "unknown"]
      \/ /\ buffer' = [buffer EXCEPT ![t] = rows]
         /\ \/ reader' = [reader EXCEPT ![t] = "yielding"] /\ DOMAIN rows # {}
            \/ reader' = [reader EXCEPT ![t] = "finished"]
            \/ reader' = [reader EXCEPT ![t] = "checking"]
  BY DEF Fetch
<1>u. UNCHANGED <<durable, connection, writers, cursor, delivered, crashes>>
  BY DEF Fetch
<1> HIDE DEF rows
<1>8. TypeOK'
  BY <1>6, <1>7, <1>u, QuietTables DEF JournalInv, TypeOK, durable, connection, writers
<1>9. ThreadInv'
  BY <1>u DEF JournalInv, ThreadInv, connection, writers
<1>10. BufferInv'
  <2>1. ASSUME NEW v \in Readers
        PROVE  /\ buffer'[v] = buffer[v] \/ (v = t /\ buffer'[v] = rows)
               /\ reader'[v] = "yielding" =>
                    \/ v = t /\ buffer'[v] = rows /\ DOMAIN rows # {}
                    \/ v # t /\ reader[v] = "yielding" /\ buffer'[v] = buffer[v]
    BY <1>7 DEF JournalInv, TypeOK
  <2> QED
    BY <1>5, <1>u, <2>1 DEF JournalInv, BufferInv
<1> QED
  BY <1>8, <1>9, <1>10, <1>u, QuietTables DEF JournalInv, writers

LEMMA YieldStep ==
  ASSUME JournalInv, NEW t \in Readers, Yield(t)
  PROVE  JournalInv'
<1> DEFINE s == FirstSequence(buffer[t])
           row == buffer[t][s]
           rest == [u \in DOMAIN buffer[t] \ {s} |-> buffer[t][u]]
<1>1. /\ reader[t] = "yielding"
      /\ cursor' = [cursor EXCEPT ![t] = s]
      /\ delivered' = [delivered EXCEPT ![t] = Overlay([u \in {s} |-> row], @)]
      /\ buffer' = [buffer EXCEPT ![t] = rest]
      /\ UNCHANGED <<durable, connection, writers, crashes>>
  BY DEF Yield
<1>2. \/ reader' = [reader EXCEPT ![t] = "finished"]
      \/ reader' = [reader EXCEPT ![t] = "yielding"] /\ DOMAIN rest # {}
      \/ reader' = [reader EXCEPT ![t] = "fetching"]
  BY DEF Yield
<1>3. s = cursor[t] + 1 /\ s \in DOMAIN buffer[t] /\ cursor[t] \in Nat
      /\ IsTable(buffer[t]) /\ IsTable(delivered[t])
  BY <1>1, NextIsFirst DEF JournalInv, BufferInv, TypeOK
<1>4. row \in Row /\ s \in Nat
  BY <1>3 DEF IsTable
<1>5. IsTable(rest)
  BY <1>3 DEF IsTable
<1>6. IsTable(Overlay([u \in {s} |-> row], delivered[t]))
  BY <1>3, <1>4 DEF IsTable, Overlay
<1>7. \A u \in DOMAIN rest : u > s /\ ((s + 1)..u) \subseteq DOMAIN rest
  <2>1. DOMAIN rest = DOMAIN buffer[t] \ {s} /\ DOMAIN rest \subseteq Nat
    BY <1>5 DEF IsTable
  <2>2. \A u \in DOMAIN buffer[t] :
          u > cursor[t] /\ ((cursor[t] + 1)..u) \subseteq DOMAIN buffer[t]
    BY DEF JournalInv, BufferInv
  <2>3. \A u \in DOMAIN rest : u > s
    BY <1>3, <2>1, <2>2
  <2>4. \A u \in DOMAIN rest : ((s + 1)..u) \subseteq ((cursor[t] + 1)..u) \ {s}
    BY <1>3, <2>1
  <2> QED
    BY <2>1, <2>2, <2>3, <2>4
<1> HIDE DEF s, row, rest
<1>8. TypeOK'
  BY <1>1, <1>2, <1>4, <1>5, <1>6, QuietTables DEF JournalInv, TypeOK, durable, connection, writers
<1>9. ThreadInv'
  BY <1>1 DEF JournalInv, ThreadInv, connection, writers
<1>10. BufferInv'
  <2>1. ASSUME NEW v \in Readers
        PROVE  /\ v # t => /\ buffer'[v] = buffer[v] /\ cursor'[v] = cursor[v]
                           /\ reader'[v] = reader[v]
               /\ v = t => /\ buffer'[v] = rest /\ cursor'[v] = s
                           /\ reader'[v] = "yielding" => DOMAIN rest # {}
    BY <1>1, <1>2 DEF JournalInv, TypeOK
  <2> QED
    BY <1>7, <2>1 DEF JournalInv, BufferInv
<1> QED
  BY <1>1, <1>8, <1>9, <1>10, QuietTables DEF JournalInv, writers

LEMMA CrashStep ==
  ASSUME JournalInv, NEW p \in Procs, Crash(p)
  PROVE  JournalInv'
<1> USE DEF Crash, durable
<1>1. TypeOK'
  BY ConstantsAssumption DEF JournalInv, TypeOK, EmptyTable, IsTable
<1>2. Contiguous' /\ ClosedByTerminal'
  BY DEF JournalInv, Contiguous, ClosedByTerminal
<1>3. \A d \in Calls : /\ Home[d] # p => job'[d] = job[d] /\ pc'[d] = pc[d]
                       /\ Home[d] = p => job'[d] \notin {"queued", "begun", "inserting"}
                       /\ job'[d] = job[d] \/ (job[d] # "none" /\ job'[d] = "dead")
                       /\ pc'[d] \in {"ready", "locking"} => pc'[d] = pc[d]
                       /\ job'[d] # "none" => job[d] # "none"
  BY DEF JournalInv, TypeOK
<1>4. \A q \in Procs : /\ q # p => txn'[q] = txn[q] /\ staged'[q] = staged[q]
                       /\ q = p => txn'[q] = None /\ DOMAIN staged'[q] = {}
  BY DEF JournalInv, TypeOK, EmptyTable
<1>5. ThreadInv'
  <2>1. \A q \in Procs : txn'[q] # None =>
          Home[txn'[q]] = q /\ job'[txn'[q]] \in {"begun", "inserting"}
    BY <1>3, <1>4 DEF JournalInv, TypeOK, ThreadInv
  <2>2. \A c \in Calls : job'[c] \in {"begun", "inserting"} => txn'[Home[c]] = c
    BY <1>3, <1>4, ConstantsAssumption DEF JournalInv, ThreadInv
  <2>3. \A q, w \in Procs : txn'[q] # None /\ txn'[w] # None => q = w
    BY <1>4 DEF JournalInv, ThreadInv
  <2>4. \A c \in Calls : pc'[c] \in {"ready", "locking"} => job'[c] = "none"
    BY <1>3 DEF JournalInv, ThreadInv
  <2>5. \A c \in Calls : Request[c].op = "append" /\ (pc'[c] = "locking" \/ job'[c] # "none")
          => ValidBatch(Request[c].kinds)
    BY <1>3 DEF JournalInv, ThreadInv
  <2> QED
    BY <2>1, <2>2, <2>3, <2>4, <2>5 DEF ThreadInv
<1>6. StagedInv'
  <2>1. \A q \in Procs : txn'[q] = None => DOMAIN staged'[q] = {}
    BY <1>4 DEF JournalInv, StagedInv
  <2>2. \A c \in Calls : (Effective(c)' <=> Effective(c)) /\ Verdict(c)' = Verdict(c)
    BY DEF Effective, Verdict, CheckCreate, CheckAppend, Fits
  <2>3. \A c \in Calls : job'[c] \in {"begun", "inserting"} =>
          job'[c] = job[c] /\ staged'[Home[c]] = staged[Home[c]]
    BY <1>3, <1>4, ConstantsAssumption
  <2>4. \A c \in Calls : job'[c] \in {"none", "queued", "begun", "inserting"} => job'[c] = job[c]
    BY <1>3
  <2> HIDE DEF Crash
  <2> QED
    BY <2>1, <2>2, <2>3, <2>4, SMTT(30) DEF JournalInv, StagedInv
<1>7. BufferInv'
  BY DEF JournalInv, TypeOK, BufferInv
<1> QED
  BY <1>1, <1>2, <1>5, <1>6, <1>7 DEF JournalInv

-----------------------------------------------------------------------------
(* The theorems.                                                           *)

LEMMA NextInv == JournalInv /\ [Next]_vars => JournalInv'
<1> SUFFICES ASSUME JournalInv, [Next]_vars PROVE JournalInv'
  OBVIOUS
<1>1. ASSUME NEW c \in Calls, Coroutine(c) PROVE JournalInv'
  BY <1>1, SubmitStep, AcquireStep, SettleStep, NotifyStep DEF Coroutine
<1>2. ASSUME NEW c \in Calls, Cancel(c) PROVE JournalInv'
  BY <1>2, CancelStep
<1>3. ASSUME NEW c \in Calls, Worker(c) PROVE JournalInv'
  BY <1>3, BeginFailsStep, BeginStep, CheckStep, InsertStep, CommitStep, RollBackStep
     DEF Worker
<1>4. ASSUME NEW t \in Readers, Iteration(t) PROVE JournalInv'
  BY <1>4, StartReaderStep, FetchStep, YieldStep, CheckTerminalStep, PollStep DEF Iteration
<1>5. ASSUME NEW p \in Procs, Crash(p) PROVE JournalInv'
  BY <1>5, CrashStep
<1>6. CASE UNCHANGED vars
  <2>1. UNCHANGED <<durable, connection, job>> /\ UNCHANGED <<writers, readers, crashes>>
    BY <1>6 DEF vars, writers
  <2>2. TypeOK'
    BY <2>1, QuietTables DEF JournalInv, TypeOK, durable, connection, writers, readers
  <2>3. ThreadInv' /\ BufferInv'
    BY <2>1 DEF JournalInv, ThreadInv, BufferInv, connection, writers, readers
  <2> QED
    BY <2>1, <2>2, <2>3, QuietTables DEF JournalInv
<1> QED
  BY <1>1, <1>2, <1>3, <1>4, <1>5, <1>6 DEF Next

LEMMA Invariance == Spec => []JournalInv
<1> QED
  BY InitInv, NextInv, PTL DEF Spec

\* Every reachable state is well typed: sequences and cursors are numbers, rows
\* are rows, program counters are the states the code has names for.
THEOREM TypeCorrect == Spec => []TypeOK
<1>1. JournalInv => TypeOK
  BY DEF JournalInv
<1> QED
  BY <1>1, Invariance, PTL

\* The compare-and-swap of append() keeps every Run's sequence contiguous,
\* whatever calls race, are cancelled or die half way.
THEOREM SequencesContiguous == Spec => []Contiguous
<1>1. JournalInv => Contiguous
  BY DEF JournalInv
<1> QED
  BY <1>1, Invariance, PTL

\* run.opened opens every Run and nothing follows its one terminal event.
THEOREM TerminalIsLast == Spec => []ClosedByTerminal
<1>1. JournalInv => ClosedByTerminal
  BY DEF JournalInv
<1> QED
  BY <1>1, Invariance, PTL

\* Together: the log of every Run is contiguous, opened once and closed for good.
THEOREM LogIsSound == Spec => []LogSound
<1>1. JournalInv => LogSound
  BY DEF JournalInv, LogSound
<1> QED
  BY <1>1, Invariance, PTL

\* Only a commit writes a table.
LEMMA TableWriters ==
  ASSUME [Next]_vars
  PROVE  table' = table \/ \E c \in Calls : Commit(c)
<1> QED
  BY DEF Next, vars, Coroutine, Worker, Iteration, Submit, AcquireLock, Settle, Notify, Cancel,
         BeginFails, Begin, Check, Insert, RollBack, StartReader, Fetch, Yield, CheckTerminal, Poll, Crash,
         durable, Unlocked, Shielded, WriteLockFree

\* A commit only adds rows.
LEMMA StepAppends ==
  ASSUME JournalInv, [Next]_vars
  PROVE  \A r \in Runs : \A s \in DOMAIN table[r] :
           s \in DOMAIN table'[r] /\ table'[r][s] = table[r][s]
<1>1. table' = table \/ \E c \in Calls : Commit(c)
  BY TableWriters
<1>2. ASSUME NEW c \in Calls, Commit(c), NEW r \in Runs, NEW s \in DOMAIN table[r]
      PROVE  s \in DOMAIN table'[r] /\ table'[r][s] = table[r][s]
  <2> DEFINE e == Request[c].expected
             n == Len(Request[c].kinds)
  <2>1. CASE r # Request[c].run
    BY <1>2, <2>1, CommitTable
  <2>2. CASE r = Request[c].run
    <3>1. e \in Nat /\ n \in Nat
      BY RequestType
    <3>2. s \in 1..e /\ s \in 1..(e + n)
      BY <1>2, <2>2, <3>1, CommitTable
    <3> QED
      BY <1>2, <2>2, <3>2, CommitTable
  <2> QED
    BY <2>1, <2>2
<1> QED
  BY <1>1, <1>2

\* No step, not even a crash, changes or removes a committed event.
THEOREM NothingRewritten == Spec => AppendOnly
<1>1. JournalInv /\ [Next]_vars =>
        [\A r \in Runs : \A s \in DOMAIN table[r] :
           s \in DOMAIN table'[r] /\ table'[r][s] = table[r][s]]_vars
  BY StepAppends
<1> QED
  BY <1>1, Invariance, PTL DEF Spec, AppendOnly

-----------------------------------------------------------------------------
(* What callers are told.                                                  *)

\* What the thread of a call has answered is true.
Answered(c) ==
  LET r == Request[c].run
  IN  IF outcome[c] = "ok"
      THEN Effective(c) \/ (Request[c].op = "create" /\ key[r] = Request[c].key)
      ELSE ~Effective(c) /\ (outcome[c] = "conflict" =>
             latest[c] \in DOMAIN table[r] \ {Request[c].expected})

\* A caller that is back has the answer of its thread, or never had a thread.
AnswersInv ==
  \A c \in Calls :
    /\ job[c] = "done" => Answered(c)
    /\ pc[c] \in {"notifying", "returned"} =>
         job[c] = "done" \/ (outcome[c] = "invalid" /\ job[c] = "none")

AtomicInv == BatchAtomic /\ AnswersInv

LEMMA AtomicIsAnswersAtomic ==
  ASSUME JournalInv, AtomicInv
  PROVE  AnswersAtomic
<1>1. ASSUME NEW c \in Calls, pc[c] = "returned" PROVE Answered(c)
  <2>1. CASE job[c] = "done"
    BY <2>1 DEF AtomicInv, AnswersInv
  <2>2. CASE outcome[c] = "invalid" /\ job[c] = "none"
    BY <2>2 DEF JournalInv, StagedInv, Answered
  <2> QED
    BY <1>1, <2>1, <2>2 DEF AtomicInv, AnswersInv
<1> QED
  BY <1>1 DEF AtomicInv, AnswersAtomic, HonestAnswers, Answered

LEMMA InitAtomic == Init => AtomicInv
<1> SUFFICES ASSUME Init PROVE AtomicInv
  OBVIOUS
<1>1. ASSUME NEW c \in Calls PROVE ~Effective(c) /\ pc[c] = "ready" /\ job[c] = "none"
  BY RequestType DEF Init, Effective, EmptyTable
<1> QED
  BY <1>1 DEF AtomicInv, BatchAtomic, AnswersInv

\* A step that writes no table and gives the thread of c no answer.
LEMMA StillAnswered ==
  ASSUME AnswersInv, NEW c \in Calls, UNCHANGED durable,
         job'[c] = "done" => job[c] = "done" /\ outcome'[c] = outcome[c] /\ latest'[c] = latest[c]
  PROVE  job'[c] = "done" => Answered(c)'
BY DEF AnswersInv, Answered, Effective, durable

LEMMA SameBatches ==
  ASSUME BatchAtomic, UNCHANGED durable
  PROVE  BatchAtomic'
BY DEF BatchAtomic, Effective, durable

\* The coroutines, the readers and a crash answer nothing.
LEMMA CoroutineAtomic ==
  ASSUME JournalInv, AtomicInv,
         \/ \E c \in Calls : Coroutine(c) \/ Cancel(c)
         \/ \E t \in Readers : Iteration(t)
         \/ \E p \in Procs : Crash(p)
         \/ UNCHANGED vars
  PROVE  AtomicInv'
<1>1. UNCHANGED durable
  BY DEF vars, Coroutine, Iteration, Submit, AcquireLock, Settle, Notify, Cancel, StartReader, Fetch, Yield,
         CheckTerminal, Poll, Crash
<1>2. UNCHANGED latest
  BY DEF vars, writers, Coroutine, Iteration, Submit, AcquireLock, Settle, Notify, Cancel, StartReader, Fetch, Yield,
         CheckTerminal, Poll, Crash
<1> SUFFICES ASSUME NEW c \in Calls
             PROVE  /\ job'[c] = "done" => Answered(c)'
                    /\ pc'[c] \in {"notifying", "returned"} =>
                         job'[c] = "done" \/ (outcome'[c] = "invalid" /\ job'[c] = "none")
  BY <1>1, SameBatches DEF AtomicInv, AnswersInv
<1> DEFINE Back(b, o, j) == b \in {"notifying", "returned"} => j = "done" \/ (o = "invalid" /\ j = "none")
<1>3. Back(pc[c], outcome[c], job[c])
  BY DEF AtomicInv, AnswersInv
<1>4. /\ pc[c] = "ready" => job[c] = "none"
      /\ pc[c] \in {"ready", "locking"} => job[c] # "done"
  BY DEF JournalInv, ThreadInv
<1>5. (job'[c] = "done" => job[c] = "done" /\ outcome'[c] = outcome[c]) /\ Back(pc'[c], outcome'[c], job'[c])
  <2>0. DOMAIN pc = Calls /\ DOMAIN job = Calls /\ DOMAIN outcome = Calls
    BY DEF JournalInv, TypeOK
  <2>1. ASSUME NEW d \in Calls, Submit(d)
        PROVE  <1>5!:
    BY <1>3, <1>4, <2>0, <2>1 DEF Submit
  <2>2. ASSUME NEW d \in Calls, AcquireLock(d)
        PROVE  <1>5!:
    BY <1>3, <1>4, <2>0, <2>2 DEF AcquireLock
  <2>3. ASSUME NEW d \in Calls, Settle(d) \/ Notify(d)
        PROVE  <1>5!:
    BY <1>3, <1>4, <2>0, <2>3 DEF Settle, Notify
  <2>4. ASSUME NEW d \in Calls, Cancel(d)
        PROVE  <1>5!:
    BY <1>3, <1>4, <2>0, <2>4 DEF Cancel
  <2>5. ASSUME NEW p \in Procs, Crash(p)
        PROVE  <1>5!:
    BY <1>3, <1>4, <2>0, <2>5 DEF Crash
  <2>6. ASSUME UNCHANGED <<pc, job, outcome>>
        PROVE  <1>5!:
    BY <1>3, <2>6
  <2>7. ASSUME NEW t \in Readers, Iteration(t)
        PROVE  UNCHANGED <<pc, job, outcome>>
    BY <2>7 DEF Iteration, StartReader, Fetch, Yield, CheckTerminal, Poll, writers
  <2>8. ASSUME UNCHANGED vars
        PROVE  UNCHANGED <<pc, job, outcome>>
    BY <2>8 DEF vars, writers
  <2> QED
    BY <2>1, <2>2, <2>3, <2>4, <2>5, <2>6, <2>7, <2>8 DEF Coroutine
<1> QED
  BY <1>1, <1>2, <1>5, StillAnswered DEF AtomicInv

\* A thread that inserts nothing, or has its transaction rolled back.
LEMMA RefusalAtomic ==
  ASSUME JournalInv, AtomicInv, NEW c \in Calls,
         BeginFails(c) \/ Begin(c) \/ Check(c) \/ Insert(c) \/ RollBack(c)
  PROVE  AtomicInv'
<1>1. UNCHANGED durable /\ UNCHANGED pc /\ job[c] \in {"queued", "begun", "inserting"}
  BY DEF BeginFails, Begin, Check, Insert, RollBack, writers
<1>2. ~Effective(c) /\ ~Effective(c)'
  BY <1>1 DEF JournalInv, StagedInv, Effective, durable
<1>3. DOMAIN job = Calls /\ DOMAIN outcome = Calls /\ DOMAIN latest = Calls
  BY DEF JournalInv, TypeOK
<1>4. ASSUME NEW d \in Calls, d # c PROVE job'[d] = job[d] /\ outcome'[d] = outcome[d] /\ latest'[d] = latest[d]
  BY <1>3, <1>4 DEF BeginFails, Begin, Check, Insert, RollBack, writers
<1>5. job'[c] = "done" => Answered(c)'
  <2>1. CASE BeginFails(c) \/ RollBack(c)
    <3>1. outcome'[c] = "error"
      BY <1>3, <2>1 DEF BeginFails, RollBack
    <3> QED
      BY <1>2, <3>1 DEF Answered
  <2>2. CASE Begin(c) \/ Insert(c)
    <3>1. job'[c] # "done"
      BY <1>1, <1>3, <2>2 DEF Begin, Insert, writers
    <3> QED
      BY <3>1
  <2>3. CASE Check(c)
    <3> DEFINE r == Request[c].run
    <3>1. CASE Verdict(c) = "insert"
      BY <1>3, <2>3, <3>1 DEF Check
    <3>2. CASE Verdict(c) # "insert"
      <4>1. /\ outcome'[c] = Verdict(c)
            /\ latest'[c] = IF Verdict(c) = "conflict" THEN LastSequence(table[r]) ELSE latest[c]
            /\ key' = key /\ table' = table
        BY <1>3, <2>3, <3>2 DEF Check, durable
      <4>2. r \in Runs
        BY RequestType
      <4>3. CASE Verdict(c) = "ok"
        <5>1. Request[c].op = "create" /\ key[r] = Request[c].key
          BY <4>3 DEF Verdict, CheckCreate, CheckAppend
        <5> QED
          BY <4>1, <4>3, <5>1 DEF Answered
      <4>4. CASE Verdict(c) = "conflict"
        <5>1. key[r] # None /\ LastSequence(table[r]) # Request[c].expected
          BY <4>4 DEF Verdict, CheckCreate, CheckAppend, Fits
        <5>2. DOMAIN table[r] = 1..LastSequence(table[r]) /\ LastSequence(table[r]) \in Nat /\ DOMAIN table[r] # {}
          BY <4>2, <5>1 DEF JournalInv, Contiguous
        <5>3. LastSequence(table[r]) \in DOMAIN table[r] \ {Request[c].expected}
          BY <5>1, <5>2
        <5> QED
          BY <1>2, <4>1, <4>4, <5>3 DEF Answered
      <4> QED
        BY <1>2, <4>1, <4>3, <4>4 DEF Answered
    <3> QED
      BY <3>1, <3>2
  <2> QED
    BY <2>1, <2>2, <2>3
<1>6. pc[c] \notin {"notifying", "returned"}
  BY <1>1 DEF AtomicInv, AnswersInv
<1>7. ASSUME NEW d \in Calls
      PROVE  /\ job'[d] = "done" => Answered(d)'
             /\ pc'[d] \in {"notifying", "returned"} =>
                  job'[d] = "done" \/ (outcome'[d] = "invalid" /\ job'[d] = "none")
  <2>1. CASE d = c
    BY <1>1, <1>5, <1>6, <2>1
  <2>2. CASE d # c
    BY <1>1, <1>4, <2>2, StillAnswered DEF AtomicInv, AnswersInv
  <2> QED
    BY <2>1, <2>2
<1> QED
  BY <1>1, <1>7, SameBatches DEF AtomicInv, AnswersInv

LEMMA DraftOfCall ==
  ASSUME NEW c, NEW m
  PROVE  DraftRow(c, m).batch = c
BY DEF DraftRow

\* The rows of the call that commits are its batch, those of others stay.
LEMMA CommitBatches ==
  ASSUME JournalInv, BatchAtomic, NEW c \in Calls, Commit(c)
  PROVE  BatchAtomic'
<1> DEFINE r == Request[c].run
           e == Request[c].expected
           n == Len(Request[c].kinds)
           Mine(d, t) == {s \in DOMAIN t : t[s].batch = d}
<1>1. /\ DOMAIN table[r] = 1..e /\ DOMAIN table'[r] = 1..(e + n)
      /\ \A s \in 1..e : table'[r][s] = table[r][s]
      /\ \A s \in Places(c, n) : table'[r][s] = DraftRow(c, s - e)
      /\ \A q \in Runs : q # r => table'[q] = table[q]
  BY CommitTable
<1>2. r \in Runs /\ e \in Nat /\ n \in Nat
  BY RequestType, BatchShape DEF Commit
<1>3. 1..(e + n) = 1..e \cup Places(c, n)
  BY <1>2 DEF Places
<1>4. ~Effective(c)
  BY DEF Commit, JournalInv, StagedInv
<1>5. \A s \in Places(c, n) : table'[r][s].batch = c
  BY <1>1, DraftOfCall
<1>6. Mine(c, table'[r]) = Places(c, n)
  BY <1>1, <1>3, <1>4, <1>5 DEF Effective
<1>7. ASSUME NEW d \in Calls, d # c
      PROVE  Mine(d, table'[Request[d].run]) = Mine(d, table[Request[d].run])
             /\ \A s \in Mine(d, table[Request[d].run]) :
                  table'[Request[d].run][s] = table[Request[d].run][s]
  <2>1. CASE Request[d].run # r
    BY <1>1, <2>1, RequestType
  <2>2. CASE Request[d].run = r
    <3>1. \A s \in DOMAIN table[r] : s \in DOMAIN table'[r] /\ table'[r][s] = table[r][s]
      BY <1>1, <1>3
    <3>2. \A s \in DOMAIN table'[r] : table'[r][s].batch = d => s \in DOMAIN table[r]
      BY <1>1, <1>3, <1>5, <1>7
    <3>3. Mine(d, table'[r]) = Mine(d, table[r]) /\ \A s \in Mine(d, table[r]) : table'[r][s] = table[r][s]
      BY <3>1, <3>2
    <3> QED
      BY <2>2, <3>3
  <2> QED
    BY <2>1, <2>2
<1>8. ASSUME NEW d \in Calls, d # c, Effective(d)'
      PROVE  LET q == Request[d].run
             IN  /\ Mine(d, table'[q]) = Places(d, Len(Request[d].kinds))
                 /\ \A s \in Mine(d, table'[q]) : table'[q][s] = DraftRow(d, s - Request[d].expected)
  <2>1. Effective(d)
    BY <1>8, CommitAddsOne
  <2>2. LET q == Request[d].run
        IN  /\ Mine(d, table[q]) = Places(d, Len(Request[d].kinds))
            /\ \A s \in Mine(d, table[q]) : table[q][s] = DraftRow(d, s - Request[d].expected)
    BY <2>1 DEF BatchAtomic
  <2> HIDE DEF Mine
  <2> QED
    BY <1>7, <1>8, <2>2
<1>9. \A s \in Mine(c, table'[r]) : table'[r][s] = DraftRow(c, s - e)
  BY <1>1, <1>6
<1> QED
  BY <1>6, <1>8, <1>9 DEF BatchAtomic

LEMMA CommitAtomic ==
  ASSUME JournalInv, AtomicInv, NEW c \in Calls, Commit(c)
  PROVE  AtomicInv'
<1> DEFINE r == Request[c].run
           e == Request[c].expected
           n == Len(Request[c].kinds)
<1>1. /\ job[c] = "inserting" /\ pc' = pc /\ latest' = latest
      /\ key' = KeyAfter(c)
      /\ job' = [job EXCEPT ![c] = "done"] /\ outcome' = [outcome EXCEPT ![c] = "ok"]
  BY DEF Commit
<1>2. DOMAIN job = Calls /\ DOMAIN outcome = Calls /\ key \in [Runs -> Keys \cup {None}]
  BY DEF JournalInv, TypeOK
<1>3. r \in Runs /\ e \in Nat /\ n \in Nat \ {0}
  BY <1>1, RequestType, BatchShape
<1>4. Effective(c)'
  <2>1. e + 1 \in Places(c, n) /\ e + 1 \in 1..(e + n)
    BY <1>3 DEF Places
  <2>2. e + 1 \in DOMAIN table'[r] /\ table'[r][e + 1] = DraftRow(c, (e + 1) - e)
    <3>1. DOMAIN table'[r] = 1..(e + n) /\ \A s \in Places(c, n) : table'[r][s] = DraftRow(c, s - e)
      BY CommitTable
    <3> QED
      BY <2>1, <3>1
  <2>3. table'[r][e + 1].batch = c
    BY <2>2, DraftOfCall
  <2> QED
    BY <2>2, <2>3 DEF Effective
<1>5. \A q \in Runs : key[q] # None => key'[q] = key[q]
  <2>1. Verdict(c) = "insert"
    BY <1>1 DEF JournalInv, StagedInv
  <2>2. Request[c].op = "create" => key[r] = None
    BY <2>1 DEF Verdict, CheckCreate
  <2> QED
    BY <1>1, <1>2, <1>3, <2>2 DEF KeyAfter
<1>6. ASSUME NEW d \in Calls, d # c, job'[d] = "done" PROVE Answered(d)'
  <2>1. job[d] = "done" /\ outcome'[d] = outcome[d] /\ Answered(d)
    BY <1>1, <1>2, <1>6 DEF AtomicInv, AnswersInv
  <2>2. Request[d].run \in Runs
    BY RequestType
  <2>3. CASE outcome[d] = "ok"
    <3>1. CASE Effective(d)
      <4>1. Effective(d)'
        BY <3>1, <2>2, StepAppends DEF Effective, Next, Worker
      <4> QED
        BY <2>1, <2>3, <4>1 DEF Answered
    <3>2. CASE Request[d].op = "create" /\ key[Request[d].run] = Request[d].key
      <4>1. Request[d].key # None
        BY <3>2, RequestType, ConstantsAssumption
      <4> QED
        BY <1>5, <2>1, <2>2, <2>3, <3>2, <4>1 DEF Answered
    <3> QED
      BY <2>1, <2>3, <3>1, <3>2 DEF Answered
  <2>4. CASE outcome[d] # "ok"
    <3>1. ~Effective(d)'
      BY <1>6, <2>1, <2>4, CommitAddsOne DEF Answered
    <3>2. DOMAIN table[Request[d].run] \subseteq DOMAIN table'[Request[d].run]
      BY <2>2, StepAppends DEF Next, Worker
    <3> QED
      BY <1>1, <2>1, <2>4, <3>1, <3>2 DEF Answered
  <2> QED
    BY <2>3, <2>4
<1>7. outcome'[c] = "ok" /\ job'[c] = "done" /\ \A d \in Calls : d # c => job'[d] = job[d] /\ outcome'[d] = outcome[d]
  BY <1>1, <1>2
<1>8. Answered(c)'
  BY <1>4, <1>7 DEF Answered
<1>9. AnswersInv'
  BY <1>1, <1>6, <1>7, <1>8 DEF AtomicInv, AnswersInv
<1> QED
  BY <1>9, CommitBatches DEF AtomicInv

\* append() is all or nothing, and what a caller was told stays true, whatever
\* is cancelled, retried, refused or lost in a crash.
THEOREM AnswersStayTrue == Spec => []AnswersAtomic
<1>1. JournalInv /\ AtomicInv /\ [Next]_vars => AtomicInv'
  <2> SUFFICES ASSUME JournalInv, AtomicInv, [Next]_vars PROVE AtomicInv'
    OBVIOUS
  <2> QED
    BY CoroutineAtomic, RefusalAtomic, CommitAtomic DEF Next, Worker
<1> QED
  BY <1>1, InitAtomic, AtomicIsAnswersAtomic, Invariance, PTL DEF Spec

-----------------------------------------------------------------------------
(* read() and tail() deliver committed events only, provided that no       *)
(* caller of a write is cancelled more than once: a second cancellation    *)
(* gives the lock back while the thread is inside its transaction.         *)

LEMMA InitDelivery == Init => DeliveryInv
<1> SUFFICES ASSUME Init PROVE DeliveryInv
  OBVIOUS
<1>1. \A t \in Readers : View[t].after \in Nat /\ cursor[t] = View[t].after
  BY ConstantsAssumption DEF Init, ReaderViews
<1>2. LockInv
  BY DEF Init, LockInv
<1>3. \A t \in Readers : /\ DOMAIN delivered[t] = {} /\ DOMAIN buffer[t] = {}
                         /\ reader[t] # "finished"
  BY DEF Init, EmptyTable
<1>4. \A t \in Readers : (View[t].after + 1)..cursor[t] = {}
  BY <1>1
<1>5. ASSUME NEW t \in Readers PROVE IterationInv(t)
  <2>1. View[t].after <= cursor[t]
    BY <1>1
  <2>2. DOMAIN delivered[t] = (View[t].after + 1)..cursor[t]
    BY <1>3, <1>4
  <2> QED
    BY <1>3, <2>1, <2>2 DEF IterationInv
<1> QED
  BY <1>2, <1>5 DEF DeliveryInv

\* Nobody but the owner of a lock releases it, and with MaxCancels = 1 nobody
\* releases it before the thread is done.
LEMMA LockStep ==
  ASSUME MaxCancels <= 1, JournalInv, LockInv, [Next]_vars
  PROVE  LockInv'
<1>t. /\ \A x \in Calls : x # None /\ Home[x] \in Procs
      /\ \A x \in Calls : cancels[x] \in 0..MaxCancels
      /\ MaxCancels \in Nat
      /\ DOMAIN lock = Procs /\ DOMAIN pc = Calls /\ DOMAIN job = Calls /\ DOMAIN cancels = Calls
  BY ConstantsAssumption DEF JournalInv, TypeOK
<1>1. ASSUME NEW c \in Calls, Submit(c) \/ Notify(c) PROVE LockInv'
  BY <1>1, <1>t DEF Submit, Notify, LockInv
<1>2. ASSUME NEW c \in Calls, AcquireLock(c) PROVE LockInv'
  <2>1. \A x \in Calls : pc[x] \in {"working", "settling"} => Home[x] # Home[c]
    BY <1>2, <1>t DEF AcquireLock, LockInv
  <2> QED
    BY <1>2, <1>t, <2>1 DEF AcquireLock, LockInv
<1>3. ASSUME NEW c \in Calls, Settle(c) PROVE LockInv'
  BY <1>3, <1>t DEF Settle, LockInv, Unlocked
<1>4. ASSUME NEW c \in Calls, Cancel(c) PROVE LockInv'
  <2>1. pc[c] # "settling"
    BY <1>4, <1>t DEF Cancel, LockInv, Shielded, Unlocked
  <2>2. pc[c] \in {"locking", "notifying"} => job[c] \notin {"queued", "begun", "inserting"}
    BY DEF LockInv
  <2>3. UNCHANGED <<lock, job>> /\ cancels' = [cancels EXCEPT ![c] = @ + 1]
        /\ \/ pc[c] \in {"locking", "notifying"} /\ pc' = [pc EXCEPT ![c] = "cancelled"]
           \/ pc[c] = "working" /\ pc' = [pc EXCEPT ![c] = "settling"]
    BY <1>4, <2>1 DEF Cancel, Shielded, Unlocked
  <2>4. cancels'[c] > 0 /\ \A x \in Calls : x # c => cancels'[x] = cancels[x]
    BY <1>t, <2>3
  <2> QED
    BY <1>t, <2>2, <2>3, <2>4 DEF LockInv
<1>5. ASSUME NEW c \in Calls, Worker(c) PROVE LockInv'
  <2>1. UNCHANGED <<lock, pc, cancels>>
    BY <1>5 DEF Worker, BeginFails, Begin, Check, Insert, Commit, RollBack, writers, WriteLockFree, AllInserted, KeyAfter
  <2>2. \A x \in Calls : job'[x] = job[x] \/ job'[x] = "done" \/ (x = c /\ job[x] \in {"queued", "begun", "inserting"})
    BY <1>5, <1>t DEF Worker, BeginFails, Begin, Check, Insert, Commit, RollBack, writers, WriteLockFree, AllInserted, KeyAfter
  <2> QED
    BY <2>1, <2>2 DEF LockInv
<1>6. ASSUME NEW t \in Readers, Iteration(t) PROVE LockInv'
  BY <1>6 DEF Iteration, StartReader, Fetch, Yield, CheckTerminal, Poll, writers, LockInv
<1>7. ASSUME NEW q \in Procs, Crash(q) PROVE LockInv'
  BY <1>7, <1>t DEF Crash, LockInv
<1>8. CASE UNCHANGED vars
  BY <1>8 DEF vars, writers, LockInv
<1> QED
  BY <1>1, <1>2, <1>3, <1>4, <1>5, <1>6, <1>7, <1>8 DEF Next, Coroutine

\* A free lock means that no transaction is open on the connection.
LEMMA FreeLockSeesCommitted ==
  ASSUME JournalInv, LockInv, NEW p \in Procs, NEW r \in Runs, lock[p] = None
  PROVE  Visible(p, r) = table[r]
<1>1. txn[p] = None
  <2> SUFFICES ASSUME txn[p] # None PROVE FALSE
    OBVIOUS
  <2>1. txn[p] \in Calls /\ Home[txn[p]] = p /\ job[txn[p]] \in {"begun", "inserting"}
    BY DEF JournalInv, TypeOK, ThreadInv
  <2>2. lock[p] = txn[p]
    BY <2>1 DEF LockInv
  <2> QED
    BY <2>2
<1> QED
  BY <1>1 DEF Visible

\* What is committed, and what a closed Run has, stays as it is.
LEMMA CommittedStays ==
  ASSUME JournalInv, [Next]_vars, NEW r \in Runs
  PROVE  /\ \A s \in DOMAIN table[r] : s \in DOMAIN table'[r] /\ table'[r][s] = table[r][s]
         /\ LastSequence(table[r]) > 0 /\ table[r][LastSequence(table[r])].kind \in Terminal
              => table'[r] = table[r]
<1>1. table' = table \/ \E c \in Calls : Commit(c)
  BY TableWriters
<1>2. ASSUME NEW c \in Calls, Commit(c),
             LastSequence(table[r]) > 0, table[r][LastSequence(table[r])].kind \in Terminal
      PROVE  table'[r] = table[r]
  <2>1. job[c] = "inserting"
    BY <1>2 DEF Commit, AllInserted, KeyAfter
  <2>2. Request[c].run # r
    BY <1>2, <2>1, InsertPlace DEF JournalInv, StagedInv
  <2> QED
    BY <1>2, <2>2, CommitTable
<1> QED
  BY <1>1, <1>2, StepAppends

\* The steps of everybody else keep what is said of iteration t.
LEMMA OthersKeepDelivery ==
  ASSUME JournalInv, DeliveryInv, [Next]_vars, NEW t \in Readers,
         cursor'[t] = cursor[t], buffer'[t] = buffer[t], delivered'[t] = delivered[t],
         reader'[t] = "finished" => reader[t] = "finished"
  PROVE  IterationInv(t)'
<1> DEFINE r == View[t].run
<1>1. r \in Runs
  BY ConstantsAssumption DEF ReaderViews
<1>2. /\ \A s \in DOMAIN table[r] : s \in DOMAIN table'[r] /\ table'[r][s] = table[r][s]
      /\ LastSequence(table[r]) > 0 /\ table[r][LastSequence(table[r])].kind \in Terminal
           => table'[r] = table[r]
  BY <1>1, CommittedStays
<1>3. /\ \A s \in DOMAIN buffer[t] : s \in DOMAIN table[r] /\ buffer[t][s] = table[r][s]
      /\ DOMAIN delivered[t] = (View[t].after + 1)..cursor[t]
      /\ \A s \in DOMAIN delivered[t] : s \in DOMAIN table[r] /\ delivered[t][s] = table[r][s]
      /\ View[t].after <= cursor[t]
  BY DEF DeliveryInv, IterationInv
<1>4. View[t].op = "tail" /\ reader[t] = "finished" =>
        /\ LastSequence(table[r]) > 0 /\ LastSequence(table[r]) <= cursor[t]
        /\ table[r][LastSequence(table[r])].kind \in Terminal
  BY DEF DeliveryInv, IterationInv
<1>5. View[t].op = "tail" /\ reader'[t] = "finished" =>
        /\ LastSequence(table'[r]) > 0 /\ LastSequence(table'[r]) <= cursor'[t]
        /\ table'[r][LastSequence(table'[r])].kind \in Terminal
  BY <1>2, <1>4
<1> QED
  BY <1>2, <1>3, <1>5 DEF IterationInv

LEMMA FetchDelivery ==
  ASSUME JournalInv, DeliveryInv, NEW t \in Readers, Fetch(t), View[t].run \in Runs
  PROVE  \A s \in DOMAIN buffer'[t] :
           s \in DOMAIN table[View[t].run] /\ buffer'[t][s] = table[View[t].run][s]
<1>1. Visible(Home[t], View[t].run) = table[View[t].run]
  BY FreeLockSeesCommitted, ConstantsAssumption DEF Fetch, DeliveryInv
<1>2. DOMAIN buffer = Readers
  BY DEF JournalInv, TypeOK
<1>3. buffer'[t] = buffer[t] \/ buffer'[t] = RowsAfter(Home[t], View[t].run, cursor[t])
  BY <1>2 DEF Fetch
<1> QED
  BY <1>1, <1>3 DEF RowsAfter, DeliveryInv, IterationInv

LEMMA YieldDelivery ==
  ASSUME JournalInv, DeliveryInv, NEW t \in Readers, Yield(t)
  PROVE  IterationInv(t)'
<1> DEFINE rows == table[View[t].run]
           n == cursor[t] + 1
<1>1. /\ FirstSequence(buffer[t]) = n /\ n \in DOMAIN buffer[t]
      /\ cursor[t] \in Nat /\ View[t].after \in Nat /\ View[t].run \in Runs
      /\ DOMAIN delivered = Readers /\ DOMAIN reader = Readers
  BY NextIsFirst, ConstantsAssumption DEF Yield, JournalInv, BufferInv, TypeOK, ReaderViews
<1>2. /\ cursor'[t] = n
      /\ delivered'[t] = Overlay([u \in {n} |-> buffer[t][n]], delivered[t])
      /\ buffer'[t] = [u \in DOMAIN buffer[t] \ {n} |-> buffer[t][u]]
  BY <1>1 DEF Yield, JournalInv, TypeOK
<1>3. /\ \A s \in DOMAIN buffer[t] : s \in DOMAIN rows /\ buffer[t][s] = rows[s]
      /\ DOMAIN delivered[t] = (View[t].after + 1)..cursor[t]
      /\ \A s \in DOMAIN delivered[t] : s \in DOMAIN rows /\ delivered[t][s] = rows[s]
      /\ View[t].after <= cursor[t]
  BY DEF DeliveryInv, IterationInv
<1>4. \A s \in DOMAIN buffer'[t] : s \in DOMAIN rows /\ buffer'[t][s] = rows[s]
  BY <1>2, <1>3
<1>5. DOMAIN delivered'[t] = (View[t].after + 1)..cursor'[t]
  <2>1. {n} \cup (View[t].after + 1)..cursor[t] = (View[t].after + 1)..n
    BY <1>1, <1>3
  <2> QED
    BY <1>2, <1>3, <2>1 DEF Overlay
<1>6. \A s \in DOMAIN delivered'[t] : s \in DOMAIN rows /\ delivered'[t][s] = rows[s]
  BY <1>1, <1>2, <1>3 DEF Overlay
<1>7. View[t].op = "tail" /\ reader'[t] = "finished" =>
        LastSequence(rows) > 0 /\ rows[LastSequence(rows)].kind \in Terminal
        /\ LastSequence(rows) <= cursor'[t]
  <2>1. View[t].op = "tail" /\ reader'[t] = "finished" => buffer[t][n].kind \in Terminal
    BY <1>1 DEF Yield
  <2>2. rows[n].kind \in Terminal => n = LastSequence(rows)
    BY <1>1, <1>3 DEF JournalInv, ClosedByTerminal
  <2> QED
    BY <1>1, <1>2, <1>3, <2>1, <2>2
<1>8. View[t].after <= cursor'[t] /\ rows' = rows
  BY <1>1, <1>2, <1>3 DEF Yield, durable
<1> QED
  BY <1>4, <1>5, <1>6, <1>7, <1>8 DEF IterationInv

\* What iteration t remembers changes only by its own steps.
LEMMA StepOfOthers ==
  ASSUME JournalInv, [Next]_vars, NEW t \in Readers,
         ~Fetch(t), ~Yield(t), ~CheckTerminal(t)
  PROVE  /\ cursor'[t] = cursor[t] /\ buffer'[t] = buffer[t] /\ delivered'[t] = delivered[t]
         /\ reader'[t] = "finished" => reader[t] = "finished"
<1>t. /\ DOMAIN cursor = Readers /\ DOMAIN buffer = Readers /\ DOMAIN delivered = Readers
      /\ reader \in [Readers -> {"ready", "opening", "fetching", "yielding", "checking",
                               "waiting", "finished", "unknown", "lost"}]
  BY DEF JournalInv, TypeOK
<1>1. ASSUME NEW c \in Calls, Submit(c) \/ AcquireLock(c) \/ Settle(c) \/ Cancel(c) \/ Worker(c)
      PROVE  UNCHANGED readers
  BY <1>1 DEF Submit, AcquireLock, Settle, Cancel, Worker, BeginFails, Begin, Check, Insert, Commit, RollBack, Unlocked, Shielded, WriteLockFree, AllInserted, KeyAfter
<1>2. ASSUME NEW c \in Calls, Notify(c)
      PROVE  /\ UNCHANGED <<cursor, buffer, delivered>>
             /\ reader'[t] = "finished" => reader[t] = "finished"
  BY <1>2 DEF Notify
<1>3. ASSUME NEW v \in Readers, v # t, Iteration(v)
      PROVE  /\ cursor'[t] = cursor[t] /\ buffer'[t] = buffer[t] /\ delivered'[t] = delivered[t]
             /\ reader'[t] = reader[t]
  BY <1>3, <1>t DEF Iteration, StartReader, Fetch, Yield, CheckTerminal, Poll
<1>4. ASSUME StartReader(t) \/ Poll(t)
      PROVE  UNCHANGED <<cursor, buffer, delivered>> /\ reader'[t] # "finished"
  BY <1>4, <1>t DEF StartReader, Poll
<1>5. ASSUME NEW p \in Procs, Crash(p)
      PROVE  /\ UNCHANGED <<cursor, buffer, delivered>>
             /\ reader'[t] = "finished" => reader[t] = "finished"
  BY <1>5 DEF Crash
<1>6. CASE UNCHANGED vars
  BY <1>6 DEF vars, readers
<1> QED
  BY <1>1, <1>2, <1>3, <1>4, <1>5, <1>6 DEF Next, Coroutine, Iteration, readers

LEMMA DeliveryStep ==
  ASSUME MaxCancels <= 1, JournalInv, DeliveryInv, [Next]_vars
  PROVE  DeliveryInv'
<1>1. LockInv'
  BY LockStep DEF DeliveryInv
<1>2. ASSUME NEW t \in Readers
      PROVE  IterationInv(t)'
  <2>t. /\ View[t].run \in Runs /\ Home[t] \in Procs
        /\ DOMAIN cursor = Readers /\ DOMAIN buffer = Readers /\ DOMAIN delivered = Readers
        /\ DOMAIN reader = Readers
    BY ConstantsAssumption DEF ReaderViews, JournalInv, TypeOK
  <2>1. CASE Fetch(t)
    <3>1. table' = table /\ cursor' = cursor /\ delivered' = delivered
      BY <2>1 DEF Fetch, durable
    <3>2. \A s \in DOMAIN buffer'[t] :
            s \in DOMAIN table[View[t].run] /\ buffer'[t][s] = table[View[t].run][s]
      BY <2>1, <2>t, FetchDelivery
    <3>3. View[t].op = "tail" => reader'[t] # "finished"
      BY <2>1, <2>t DEF Fetch
    <3> QED
      BY <3>1, <3>2, <3>3 DEF DeliveryInv, IterationInv
  <2>2. CASE Yield(t)
    BY <2>2, YieldDelivery
  <2>3. CASE CheckTerminal(t)
    <3>1. table' = table /\ cursor' = cursor /\ delivered' = delivered /\ buffer' = buffer
      BY <2>3 DEF CheckTerminal, durable
    <3>2. Visible(Home[t], View[t].run) = table[View[t].run]
      BY <2>3, <2>t, FreeLockSeesCommitted DEF CheckTerminal, DeliveryInv
    <3>3. reader'[t] = "finished" => TerminalReached(Home[t], View[t].run, cursor[t])
      BY <2>3, <2>t DEF CheckTerminal
    <3>4. LastSequence(table[View[t].run]) \in Nat
      BY <2>t DEF JournalInv, Contiguous
    <3>5. reader'[t] = "finished" =>
            /\ LastSequence(table[View[t].run]) > 0
            /\ table[View[t].run][LastSequence(table[View[t].run])].kind \in Terminal
            /\ LastSequence(table[View[t].run]) <= cursor[t]
      BY <3>2, <3>3, <3>4 DEF TerminalReached
    <3> QED
      BY <3>1, <3>5 DEF DeliveryInv, IterationInv
  <2>4. CASE ~Fetch(t) /\ ~Yield(t) /\ ~CheckTerminal(t)
    <3>1. /\ cursor'[t] = cursor[t] /\ buffer'[t] = buffer[t] /\ delivered'[t] = delivered[t]
          /\ reader'[t] = "finished" => reader[t] = "finished"
      BY <2>4, <2>t, StepOfOthers
    <3> QED
      BY <3>1, OthersKeepDelivery
  <2> QED
    BY <2>1, <2>2, <2>3, <2>4
<1> QED
  BY <1>1, <1>2 DEF DeliveryInv, IterationInv

LEMMA DeliveryAlways ==
  ASSUME MaxCancels <= 1
  PROVE  Spec => []DeliveryInv
<1>1. JournalInv /\ DeliveryInv /\ [Next]_vars => DeliveryInv'
  BY DeliveryStep
<1> QED
  BY <1>1, InitDelivery, Invariance, PTL DEF Spec

\* With at most one cancellation per caller, what read() and tail() deliver is
\* committed, in order and without a gap.
THEOREM DeliveryCommitted ==
  ASSUME MaxCancels <= 1
  PROVE  Spec => []DeliversCommitted
<1>1. DeliveryInv => DeliversCommitted
  BY DEF DeliveryInv, IterationInv, DeliversCommitted
<1> QED
  BY <1>1, DeliveryAlways, PTL

\* Likewise a tail finishes only at the terminal event, all of which it yielded.
THEOREM TailsEndWithTheirRun ==
  ASSUME MaxCancels <= 1
  PROVE  Spec => []TailEndsAtTerminal
<1>1. DeliveryInv => TailEndsAtTerminal
  BY DEF DeliveryInv, IterationInv, TailEndsAtTerminal
<1> QED
  BY <1>1, DeliveryAlways, PTL

-----------------------------------------------------------------------------
(* The journal implements RunLog: a commit is the step at which a call     *)
(* takes effect, every other step is invisible.                            *)

\* A function on 1..m is a sequence of length m.
LEMMA IntervalIsSequence ==
  ASSUME NEW S, NEW m \in Nat, NEW f, f = [s \in 1..m |-> f[s]], \A s \in 1..m : f[s] \in S
  PROVE  f \in Seq(S) /\ Len(f) = m
<1>1. f \in [1..m -> S]
  OBVIOUS
<1> QED
  BY <1>1

\* The log of Run r that the table stands for.
KindsOf(r) == [s \in DOMAIN table[r] |-> table[r][s].kind]

LEMMA LogIsSequence ==
  ASSUME JournalInv, NEW r \in Runs
  PROVE  KindsOf(r) \in Seq(Kinds) /\ Len(KindsOf(r)) = LastSequence(table[r])
<1>1. DOMAIN table[r] = 1..LastSequence(table[r]) /\ LastSequence(table[r]) \in Nat
  BY DEF JournalInv, Contiguous
<1>2. \A s \in DOMAIN table[r] : table[r][s].kind \in Kinds
  BY DEF JournalInv, TypeOK, IsTable, Row
<1> QED
  BY <1>1, <1>2 DEF KindsOf

LEMMA InitMaps == Init => Log!LogInit
<1> SUFFICES ASSUME Init PROVE Log!LogInit
  OBVIOUS
<1>1. \A r \in Runs : [s \in DOMAIN table[r] |-> table[r][s].kind] = << >>
  <2> SUFFICES ASSUME NEW r \in Runs
               PROVE  [s \in DOMAIN table[r] |-> table[r][s].kind] = << >>
    OBVIOUS
  <2>1. DOMAIN table[r] = {}
    BY DEF Init, EmptyTable
  <2>2. KindsOf(r) \in Seq(Kinds) /\ Len(KindsOf(r)) = 0
    BY <2>1, 0 \in Nat, 1..0 = {} DEF KindsOf
  <2>3. KindsOf(r) = << >>
    BY <2>2
  <2> QED
    BY <2>3 DEF KindsOf
<1>2. {c \in Calls : Effective(c)} = {}
  BY RequestType DEF Init, EmptyTable, Effective
<1> QED
  BY <1>1, <1>2 DEF Log!LogInit

\* A commit appends its whole batch to the log of its Run.
LEMMA CommitExtends ==
  ASSUME JournalInv, NEW c \in Calls, Commit(c)
  PROVE  LET r == Request[c].run
         IN  /\ KindsOf(r)' = KindsOf(r) \o Request[c].kinds
             /\ \A q \in Runs : q # r => KindsOf(q)' = KindsOf(q)
<1> DEFINE r == Request[c].run
           e == Request[c].expected
           kinds == Request[c].kinds
           n == Len(kinds)
<1>1. r \in Runs /\ e \in Nat /\ kinds \in Seq(Kinds) /\ n \in Nat
  BY RequestType
<1>2. \A q \in Runs : q # r => KindsOf(q)' = KindsOf(q)
  BY CommitTable DEF KindsOf
<1>3. job[c] = "inserting"
  BY DEF Commit, AllInserted, KeyAfter
<1>4. KindsOf(r) \in Seq(Kinds) /\ Len(KindsOf(r)) = e
  BY <1>1, <1>3, LogIsSequence, InsertPlace DEF JournalInv, StagedInv
<1>5. /\ DOMAIN KindsOf(r)' = 1..(e + n)
      /\ \A s \in 1..e : KindsOf(r)'[s] = KindsOf(r)[s]
      /\ \A s \in Places(c, n) : KindsOf(r)'[s] = kinds[s - e]
  <2>1. DOMAIN table[r] = 1..e /\ DOMAIN table'[r] = 1..(e + n)
    BY CommitTable
  <2>2. \A s \in 1..e : s \in 1..(e + n) /\ table'[r][s] = table[r][s]
    BY <1>1, CommitTable, SMTT(30)
  <2>3. \A s \in Places(c, n) : table'[r][s] = DraftRow(c, s - e)
    BY CommitTable
  <2>4. \A s \in Places(c, n) : s \in 1..(e + n)
    BY <1>1 DEF Places
  <2>5. DOMAIN KindsOf(r)' = 1..(e + n)
        /\ \A s \in 1..(e + n) : KindsOf(r)'[s] = table'[r][s].kind
    BY <2>1 DEF KindsOf
  <2>6. \A s \in 1..e : KindsOf(r)[s] = table[r][s].kind
    BY <2>1 DEF KindsOf
  <2>7. ASSUME NEW s \in Places(c, n)
        PROVE  table'[r][s].kind = kinds[s - e]
    <3>1. DraftRow(c, s - e).kind = kinds[s - e]
      BY DEF DraftRow
    <3> QED
      BY <2>3, <3>1
  <2> QED
    BY <2>2, <2>4, <2>5, <2>6, <2>7
<1>6. \A s \in 1..(e + n) :
        KindsOf(r)'[s] = IF s <= e THEN KindsOf(r)[s] ELSE kinds[s - e]
  <2>1. \A s \in 1..(e + n) : IF s <= e THEN s \in 1..e ELSE s \in Places(c, n)
    BY <1>1 DEF Places
  <2> QED
    BY <1>5, <2>1
<1>7. /\ KindsOf(r) \o kinds \in Seq(Kinds)
      /\ Len(KindsOf(r) \o kinds) = e + n
      /\ \A s \in 1..(e + n) :
           (KindsOf(r) \o kinds)[s] = IF s <= e THEN KindsOf(r)[s] ELSE kinds[s - e]
  <2> DEFINE f == KindsOf(r)
  <2>1. f \in Seq(Kinds) /\ kinds \in Seq(Kinds) /\ Len(f) = e
    BY <1>1, <1>4
  <2> HIDE DEF f, kinds
  <2>2. /\ f \o kinds \in Seq(Kinds) /\ Len(f \o kinds) = Len(f) + Len(kinds)
        /\ \A s \in 1..(Len(f) + Len(kinds)) :
             (f \o kinds)[s] = IF s <= Len(f) THEN f[s] ELSE kinds[s - Len(f)]
    BY <2>1, ConcatProperties, Zenon
  <2> QED
    BY <2>1, <2>2 DEF f
<1>8. DOMAIN (KindsOf(r) \o kinds) = 1..(e + n)
  BY <1>7, LenProperties
<1>9. KindsOf(r)' = KindsOf(r) \o kinds
  <2>1. KindsOf(r)' \in Seq(Kinds) /\ Len(KindsOf(r)') = e + n
    <3> DEFINE f == KindsOf(r)'
               m == e + n
    <3>1. \A s \in 1..m : f[s] \in Kinds
      BY <1>1, <1>4, <1>6, <1>7, ElementOfSeq
    <3>2. f = [s \in 1..m |-> f[s]]
      BY <1>5 DEF KindsOf
    <3>3. m \in Nat
      BY <1>1
    <3> HIDE DEF f, m
    <3>4. f \in Seq(Kinds) /\ Len(f) = m
      BY <3>1, <3>2, <3>3, IntervalIsSequence
    <3> QED
      BY <3>4 DEF f, m
  <2> QED
    BY <1>6, <1>7, <2>1, SeqEqual
<1> QED
  BY <1>2, <1>9

LEMMA CommitTakesEffect ==
  ASSUME JournalInv, JournalInv', NEW c \in Calls, Commit(c)
  PROVE  Log!TakeEffect(c)
<1> DEFINE r == Request[c].run
           e == Request[c].expected
           kinds == Request[c].kinds
           n == Len(kinds)
<1>1. job[c] = "inserting" /\ job[c] # "none" /\ r \in Runs /\ e \in Nat
      /\ kinds \in Seq(Kinds) /\ n \in Nat \ {0}
  BY RequestType, BatchShape DEF Commit, AllInserted, KeyAfter
<1>2. c \notin {d \in Calls : Effective(d)}
  BY <1>1 DEF JournalInv, StagedInv
<1>3. kinds # << >>
  BY <1>1
<1>4. Log!WellFormed(KindsOf(r)')
  <2>1. DOMAIN KindsOf(r)' = DOMAIN table'[r]
        /\ \A s \in DOMAIN table'[r] : KindsOf(r)'[s] = table'[r][s].kind
    BY DEF KindsOf
  <2>2. DOMAIN table'[r] = 1..LastSequence(table'[r])
        /\ \A s \in DOMAIN table'[r] :
             /\ table'[r][s].kind = Opened <=> s = 1
             /\ table'[r][s].kind \in Terminal => s = LastSequence(table'[r])
    BY <1>1 DEF JournalInv, Contiguous, ClosedByTerminal
  <2>3. Len(KindsOf(r)') = LastSequence(table'[r])
    <3>1. LastSequence(table'[r]) \in Nat
      BY <1>1 DEF JournalInv, Contiguous
    <3>2. \A s \in DOMAIN table'[r] : table'[r][s].kind \in Kinds
      BY <1>1 DEF JournalInv, TypeOK, IsTable, Row
    <3>3. KindsOf(r)' = [s \in 1..LastSequence(table'[r]) |-> table'[r][s].kind]
      BY <2>2 DEF KindsOf
    <3> QED
      BY <2>2, <3>1, <3>2, <3>3
  <2> QED
    BY <2>1, <2>2, <2>3 DEF Log!WellFormed
<1>5. [q \in Runs |-> KindsOf(q)]' =
        [[q \in Runs |-> KindsOf(q)] EXCEPT ![r] = @ \o kinds]
  BY <1>1, CommitExtends
<1>6. {d \in Calls : Effective(d)'} = {d \in Calls : Effective(d)} \cup {c}
  <2>1. Effective(c)'
    <3>1. e + 1 \in Places(c, n) /\ e + 1 \in 1..(e + n)
      BY <1>1 DEF Places
    <3>2. table'[r][e + 1] = DraftRow(c, (e + 1) - e) /\ DOMAIN table'[r] = 1..(e + n)
      BY <3>1, CommitTable
    <3> QED
      BY <3>1, <3>2 DEF Effective, DraftRow
  <2>2. ASSUME NEW d \in Calls, d # c PROVE Effective(d)' <=> Effective(d)
    <3>1. Effective(d) => Effective(d)'
      BY StepAppends, RequestType, <1>1 DEF Effective, Next, Worker
    <3>2. Effective(d)' => Effective(d)
      BY <2>2, CommitAddsOne
    <3> QED
      BY <3>1, <3>2
  <2> QED
    BY <2>1, <2>2
<1> QED
  BY <1>1, <1>2, <1>3, <1>4, <1>5, <1>6, CommitExtends DEF Log!TakeEffect, KindsOf

\* The SQLite journal implements the log it promises its callers, for any
\* number of Runs, callers, processes, cancellations and crashes.
THEOREM JournalImplementsRunLog == Spec => ImplementsRunLog
<1>1. JournalInv /\ JournalInv' /\ [Next]_vars => [Log!LogNext]_(Log!logVars)
  <2> SUFFICES ASSUME JournalInv, JournalInv', [Next]_vars
               PROVE  Log!LogNext \/ UNCHANGED Log!logVars
    OBVIOUS
  <2>1. table' = table \/ \E c \in Calls : Commit(c)
    BY TableWriters
  <2>2. CASE table' = table
    BY <2>2 DEF Log!logVars, Effective
  <2>3. CASE \E c \in Calls : Commit(c)
    BY <2>3, CommitTakesEffect DEF Log!LogNext
  <2> QED
    BY <2>1, <2>2, <2>3
<1> QED
  BY <1>1, InitMaps, Invariance, PTL DEF Spec, ImplementsRunLog, Log!LogSpec
=============================================================================
