----------------------------- MODULE LocksProofs -----------------------------
(***************************************************************************)
(* Proofs about ApprovalLocks for any requests, transactions and bound:    *)
(* every handler acts as one step of Decisions, and at most once.          *)
(*                                                                         *)
(* All commits hold the lock of the run, so what a transaction has found   *)
(* under that lock still holds when it commits; a decision that has locked *)
(* its approval while it was open keeps it open by that lock alone.        *)
(***************************************************************************)
EXTENDS ApprovalLocks, FiniteSetTheorems, TLAPS


-----------------------------------------------------------------------------
(* Sequences *)

LEMMA UpdateType ==
  ASSUME NEW S, NEW s \in Seq(S), NEW i, NEW v \in S
  PROVE  /\ [s EXCEPT ![i] = v] \in Seq(S)
         /\ Len([s EXCEPT ![i] = v]) = Len(s)
         /\ \A j \in DOMAIN s : [s EXCEPT ![i] = v][j] = IF j = i THEN v ELSE s[j]
<1>1. s \in [1 .. Len(s) -> S] /\ Len(s) \in Nat
  OBVIOUS
<1>2. [s EXCEPT ![i] = v] \in [1 .. Len(s) -> S]
  BY <1>1
<1> QED
  BY <1>1, <1>2

-----------------------------------------------------------------------------
(* The inductive invariant *)


(* A transaction at work carries out a request; revise_configuration keeps *)
(* no record and is never looked up.                                       *)
Carries(t) ==
  /\ ~At(t, "idle") /\ ~At(t, "over") => asked[Key[t]] \in Asked
  /\ Op(t) = "revise" => tx[t].pc \notin {"lookup", "readRun"}
  /\ At(t, "find") => Op(t) \in {"cancel", "revise"}
  /\ tx[t].pc \in {"lookup", "readRun", "lockRun", "lockApproval"} => tx[t].row \in DOMAIN approvals

(* Whoever is past the lock of the run holds it.                           *)
HoldsRun(t) ==
  \/ tx[t].pc \in {"find", "commit"}
  \/ At(t, "lockApproval") /\ Op(t) \notin Decision
RunHeld(t) == HoldsRun(t) => lock[RunRow] = t

(* A decision past the lock of its approval holds it, and finds it open.   *)
Deciding(t) == Op(t) \in Decision /\ tx[t].pc \in {"readRun", "lockRun", "commit"}
ApprovalHeld(t) ==
  Deciding(t) =>
    /\ lock[tx[t].row] = t /\ tx[t].row # 0
    /\ tx[t].row \in DOMAIN approvals /\ approvals[tx[t].row] = "pending"

(* What a cancellation or a revision has found under the lock of the run.  *)
Found(t) ==
  tx[t].pc \in {"lockApproval", "commit"} /\ Op(t) \in {"cancel", "revise"} =>
    /\ tx[t].row = 0 => Op(t) = "cancel" /\ approvals[Latest] # "pending"
    /\ tx[t].row # 0 => tx[t].row = Latest /\ approvals[Latest] = "pending"
    /\ tx[t].row # 0 /\ At(t, "commit") => lock[tx[t].row] = t

(* A revision that has got the lock is about the version of the client.    *)
Versioned(t) ==
  HoldsRun(t) /\ Op(t) = "revise" => run.version = asked[Key[t]].version

Once(k) ==
  /\ effects[k] <= 1
  /\ asked[k] = NotAsked => effects[k] = 0
  /\ k \in records => effects[k] = 1
  /\ asked[k].op # "revise" /\ effects[k] = 1 => k \in records
  /\ asked[k] # NotAsked =>
       asked[k].version <= run.version /\ asked[k].of \in DOMAIN approvals
  /\ asked[k].op = "revise" /\ effects[k] = 1 => asked[k].version < run.version

LInv ==
  /\ LocksTypeOK /\ Len(approvals) \in 1 .. MaxApprovals
  /\ \A t \in Tx : Carries(t) /\ RunHeld(t) /\ ApprovalHeld(t) /\ Found(t) /\ Versioned(t)
  /\ OpenWhileWaiting
  /\ \A k \in Keys : Once(k)
  /\ \A t \in Tx : answer[t] = "done" => effects[Key[t]] = 1

Loaded == [pc : Statement, row : Rows, seen : RunStatus \cup {"none"}]
Own(t) == Carries(t) /\ RunHeld(t) /\ ApprovalHeld(t) /\ Found(t) /\ Versioned(t)

-----------------------------------------------------------------------------
(* Steps of one transaction *)

LEMMA InitLInv == LocksInit => LInv
<1> SUFFICES ASSUME LocksInit PROVE LInv
  OBVIOUS
<1> USE LocksAssumption
<1>1. LocksTypeOK /\ Len(approvals) = 1 /\ approvals[1] = "pending" /\ DOMAIN approvals = {1}
  BY DEF LocksInit, LocksTypeOK, RunStatus, Decision, Rows, Statement
<1>2. \A t \in Tx : Own(t)
  BY <1>1 DEF LocksInit, Own, Carries, RunHeld, HoldsRun, ApprovalHeld, Deciding, Found,
              Versioned, At, NotAsked
<1>3. OpenWhileWaiting
  BY <1>1 DEF LocksInit, OpenWhileWaiting, Latest
<1>4. \A k \in Keys : Once(k)
  BY DEF LocksInit, Once, NotAsked
<1> QED
  BY <1>1, <1>2, <1>3, <1>4 DEF LInv, LocksInit, Own

(* A statement that writes nothing but the transaction and the locks: what *)
(* the others know stays true, as their locks stay theirs.                 *)
LEMMA QuietStep ==
  ASSUME LInv, NEW t \in Tx, NEW n \in Loaded, tx' = [tx EXCEPT ![t] = n],
         lock' \in [Rows -> Tx \cup {Nobody}],
         \A r \in Rows : \A s \in Tx \ {t} : lock[r] = s => lock'[r] = s,
         UNCHANGED <<run, approvals, asked, records, effects>>,
         answer' \in [Tx -> {"none", "done", "conflict", "aborted"}],
         \A s \in Tx \ {t} : answer'[s] = answer[s],
         answer'[t] = "done" => effects[Key[t]] = 1,
         Own(t)'
  PROVE  LInv'
<1>1. LocksTypeOK'
  BY DEF LInv, LocksTypeOK, Loaded
<1>2. ASSUME NEW s \in Tx \ {t} PROVE Own(s)'
  <2>1. tx'[s] = tx[s] /\ tx[s].row \in Rows /\ RunRow \in Rows
    BY LocksAssumption DEF LInv, LocksTypeOK, Rows, RunRow
  <2>2. Own(s)
    BY DEF LInv, Own
  <2> QED
    BY <2>1, <2>2 DEF Own, Carries, RunHeld, HoldsRun, ApprovalHeld, Deciding, Found, Versioned,
                      At, Op, Latest
<1>3. OpenWhileWaiting' /\ \A k \in Keys : Once(k)'
  BY DEF LInv, OpenWhileWaiting, Latest, Once
<1>4. \A s \in Tx : answer'[s] = "done" => effects'[Key[s]] = 1
  BY DEF LInv
<1> QED
  BY <1>1, <1>2, <1>3, <1>4 DEF LInv, Own

(* A transaction that ends without effect.                                 *)
LEMMA RollBackStep ==
  ASSUME LInv, NEW t \in Tx, NEW outcome \in {"done", "conflict", "aborted"},
         RollBack(t, outcome), outcome = "done" => effects[Key[t]] = 1
  PROVE  LInv'
<1> DEFINE n == [pc |-> "over", row |-> 0, seen |-> "none"]
<1>1. n \in Loaded /\ tx \in [Tx -> Loaded]
  BY LocksAssumption DEF Loaded, Statement, Rows, LInv, LocksTypeOK
<1>2. /\ tx' = [tx EXCEPT ![t] = n] /\ tx'[t] = n
      /\ lock' \in [Rows -> Tx \cup {Nobody}]
      /\ \A r \in Rows : \A s \in Tx \ {t} : lock[r] = s => lock'[r] = s
      /\ UNCHANGED <<run, approvals, asked, records, effects>>
      /\ answer' = [answer EXCEPT ![t] = outcome]
  BY <1>1 DEF RollBack, End, LInv, LocksTypeOK
<1>3. /\ answer' \in [Tx -> {"none", "done", "conflict", "aborted"}]
      /\ \A s \in Tx \ {t} : answer'[s] = answer[s]
      /\ answer'[t] = "done" => effects[Key[t]] = 1
  BY <1>2 DEF LInv, LocksTypeOK
<1>4. Own(t)'
  BY <1>2 DEF Own, Carries, RunHeld, HoldsRun, ApprovalHeld, Deciding, Found, Versioned, At, LInv
<1> QED
  BY <1>1, <1>2, <1>3, <1>4, QuietStep

LEMMA AskStep ==
  ASSUME LInv, NEW k \in Keys, NEW op \in Operation, NEW a \in 1 .. MaxApprovals, Ask(k, op, a)
  PROVE  LInv'
<1> DEFINE r == [op |-> op, of |-> a, version |-> run.version]
<1>1. r \in Asked /\ r # NotAsked /\ NotAsked \notin Asked
  BY DEF Asked, NotAsked, LInv, LocksTypeOK, Operation
<1>2. asked' = [asked EXCEPT ![k] = r] /\ asked' \in [Keys -> Asked \cup {NotAsked}]
  BY <1>1 DEF Ask, LInv, LocksTypeOK
<1>3. UNCHANGED <<run, approvals, lock, tx, records, answer, effects>> /\ asked[k] = NotAsked
  BY DEF Ask
<1>4. LocksTypeOK'
  BY <1>2, <1>3 DEF LInv, LocksTypeOK
<1>5. ASSUME NEW t \in Tx PROVE Own(t)'
  <2>1. Own(t)
    BY DEF LInv, Own
  <2>2. CASE Key[t] # k
    <3>1. asked'[Key[t]] = asked[Key[t]]
      BY <1>2, <2>2, LocksAssumption DEF LInv, LocksTypeOK
    <3> QED
      BY <1>3, <2>1, <3>1 DEF Own, Carries, RunHeld, HoldsRun, ApprovalHeld, Deciding, Found,
                              Versioned, At, Op, Latest
  <2>3. CASE Key[t] = k
    <3>1. At(t, "idle") \/ At(t, "over")
      BY <1>1, <1>3, <2>1, <2>3 DEF Own, Carries
    <3> QED
      BY <1>3, <3>1 DEF Own, Carries, RunHeld, HoldsRun, ApprovalHeld, Deciding, Found,
                        Versioned, At
  <2> QED
    BY <2>2, <2>3
<1>6. ASSUME NEW j \in Keys PROVE Once(j)'
  <2>1. Once(j)
    BY DEF LInv
  <2>2. CASE j # k
    <3>1. asked'[j] = asked[j]
      BY <1>2, <2>2 DEF LInv, LocksTypeOK
    <3> QED
      BY <1>3, <2>1, <3>1 DEF Once
  <2>3. CASE j = k
    <3>1. asked'[j] = r /\ effects[j] = 0 /\ j \notin records
      BY <1>2, <1>3, <2>1, <2>3 DEF LInv, LocksTypeOK, Once
    <3>2. run.version \in Nat
      BY DEF LInv, LocksTypeOK
    <3>3. a \in DOMAIN approvals
      BY DEF Ask
    <3> QED
      BY <1>1, <1>3, <3>1, <3>2, <3>3 DEF Once
  <2> QED
    BY <2>2, <2>3
<1>7. OpenWhileWaiting' /\ \A t \in Tx : answer'[t] = "done" => effects'[Key[t]] = 1
  BY <1>3 DEF LInv, OpenWhileWaiting, Latest
<1> QED
  BY <1>3, <1>4, <1>5, <1>6, <1>7 DEF LInv, Own

(* A statement that neither writes rows nor ends the transaction; it may   *)
(* have got one lock.                                                      *)
LEMMA StatementStep ==
  ASSUME LInv, NEW t \in Tx, NEW n \in Loaded, tx' = [tx EXCEPT ![t] = n],
         lock' = lock \/ Acquire(t), Wanted(t) \in Rows,
         UNCHANGED <<run, approvals, asked, records, answer, effects>>,
         Own(t)'
  PROVE  LInv'
<1>1. lock' \in [Rows -> Tx \cup {Nobody}]
  BY DEF Acquire, LInv, LocksTypeOK
<1>2. \A r \in Rows : \A s \in Tx \ {t} : lock[r] = s => lock'[r] = s
  BY LocksAssumption DEF Acquire, LInv, LocksTypeOK
<1>3. answer'[t] = "done" => effects[Key[t]] = 1
  BY DEF LInv
<1>4. answer' \in [Tx -> {"none", "done", "conflict", "aborted"}]
  BY DEF LInv, LocksTypeOK
<1> QED
  BY <1>1, <1>2, <1>3, <1>4, QuietStep

LEMMA Types ==
  ASSUME LInv, NEW t \in Tx
  PROVE  /\ DOMAIN approvals \subseteq Rows \ {0}
         /\ tx \in [Tx -> Loaded] /\ tx[t] \in Loaded /\ Wanted(t) \in Rows
         /\ approvals \in Seq(Decision \cup {"pending", "cancelled"})
         /\ Latest \in 1 .. MaxApprovals /\ Latest \in Rows \ {0} /\ Latest \in DOMAIN approvals
         /\ RunRow \in Rows /\ run.version \in Nat /\ run.status \in RunStatus
         /\ Key[t] \in Keys /\ Own(t) /\ Once(Key[t])
         /\ lock \in [Rows -> Tx \cup {Nobody}] /\ Nobody \notin Tx
<1>1. tx \in [Tx -> Loaded] /\ tx[t] \in Loaded
  BY DEF LInv, LocksTypeOK, Loaded
<1>2. approvals \in Seq(Decision \cup {"pending", "cancelled"}) /\ Latest \in 1 .. MaxApprovals
  BY DEF LInv, LocksTypeOK, Latest
<1>3. Latest \in Rows \ {0} /\ Latest \in DOMAIN approvals /\ RunRow \in Rows
  BY <1>2, LocksAssumption DEF Rows, Latest, RunRow
<1>4. DOMAIN approvals \subseteq Rows \ {0}
  BY <1>2, LocksAssumption DEF Rows, Latest
<1>5. Wanted(t) \in Rows
  BY <1>1, <1>3 DEF Wanted, Loaded
<1> QED
  BY <1>1, <1>2, <1>3, <1>4, <1>5, LocksAssumption DEF LInv, LocksTypeOK, Own

LEMMA SendStep ==
  ASSUME LInv, NEW t \in Tx, Send(t)
  PROVE  LInv'
<1> DEFINE n == [pc |-> IF Op(t) = "revise" THEN "lockRun" ELSE "lookup",
                 row |-> asked[Key[t]].of, seen |-> "none"]
<1>1. asked[Key[t]] \in Asked /\ asked[Key[t]].of \in DOMAIN approvals \cap Rows
  BY Types DEF Send, LInv, LocksTypeOK, Once
<1>2. n \in Loaded
  BY <1>1 DEF Loaded, Statement
<1>3. tx' = [tx EXCEPT ![t] = n] /\ tx'[t] = n
  BY Types DEF Send
<1>4. UNCHANGED <<run, approvals, asked, lock, records, answer, effects>>
  BY DEF Send
<1>5. Own(t)'
  BY <1>1, <1>3, <1>4 DEF Own, Carries, RunHeld, HoldsRun, ApprovalHeld, Deciding, Found,
                          Versioned, At, Op, Decision
<1> QED
  BY <1>2, <1>3, <1>4, <1>5, StatementStep, Types

LEMMA LookUpStep ==
  ASSUME LInv, NEW t \in Tx, LookUp(t)
  PROVE  LInv'
<1> DEFINE n == [tx[t] EXCEPT !.pc = IF Op(t) = "cancel" THEN "readRun" ELSE "lockApproval"]
<1>1. Own(t) /\ At(t, "lookup") /\ tx[t] \in Loaded
  BY Types DEF LookUp
<1>2. Op(t) \in Operation
  BY <1>1 DEF Own, Carries, At, Op, Asked
<1>3. n \in Loaded /\ n.row = tx[t].row /\ n.pc = (IF Op(t) = "cancel" THEN "readRun" ELSE "lockApproval")
  BY <1>1 DEF Loaded, Statement
<1>4. tx' = [tx EXCEPT ![t] = n] /\ tx'[t] = n
  BY Types DEF LookUp, Goto
<1>5. UNCHANGED <<run, approvals, asked, lock, records, answer, effects>>
  BY DEF LookUp
<1> HIDE DEF n
<1>6. Own(t)'
  BY <1>1, <1>2, <1>3, <1>4, <1>5 DEF Own, Carries, RunHeld, HoldsRun, ApprovalHeld, Deciding,
                                      Found, Versioned, At, Op, Decision, Operation
<1> QED
  BY <1>3, <1>4, <1>5, <1>6, StatementStep, Types

LEMMA ReadRunStep ==
  ASSUME LInv, NEW t \in Tx, ReadRun(t)
  PROVE  LInv'
<1> DEFINE n == [tx[t] EXCEPT !.pc = "lockRun", !.seen = run.status]
<1>1. Own(t) /\ At(t, "readRun") /\ tx[t] \in Loaded
  BY Types DEF ReadRun
<1>2. n \in Loaded /\ n.row = tx[t].row /\ n.pc = "lockRun"
  BY <1>1, Types DEF Loaded, Statement
<1>3. tx' = [tx EXCEPT ![t] = n] /\ tx'[t] = n
  BY Types DEF ReadRun
<1>4. UNCHANGED <<run, approvals, asked, lock, records, answer, effects>>
  BY DEF ReadRun
<1> HIDE DEF n
<1>5. Own(t)'
  BY <1>1, <1>2, <1>3, <1>4 DEF Own, Carries, RunHeld, HoldsRun, ApprovalHeld, Deciding,
                                Found, Versioned, At, Op
<1> QED
  BY <1>2, <1>3, <1>4, <1>5, StatementStep, Types

(* The run is locked: a revision compares the version under the lock, and  *)
(* the version grows with every commit, which holds the same lock.         *)
LEMMA LockRunStep ==
  ASSUME LInv, NEW t \in Tx, LockRun(t)
  PROVE  LInv'
<1> DEFINE n == [tx[t] EXCEPT !.pc = IF Op(t) \in Decision THEN "commit" ELSE "find"]
<1>1. Own(t) /\ At(t, "lockRun") /\ tx[t] \in Loaded
  BY Types DEF LockRun
<1>2. Op(t) \in Operation
  BY <1>1 DEF Own, Carries, At, Op, Asked
<1>3. n \in Loaded /\ n.row = tx[t].row /\ n.pc = (IF Op(t) \in Decision THEN "commit" ELSE "find")
  BY <1>1 DEF Loaded, Statement
<1>4. tx' = [tx EXCEPT ![t] = n] /\ tx'[t] = n
  BY Types DEF LockRun, Goto
<1>5. UNCHANGED <<run, approvals, asked, records, answer, effects>> /\ Acquire(t)
  BY DEF LockRun
<1>6. lock' = [lock EXCEPT ![RunRow] = t] /\ lock'[RunRow] = t
  BY <1>1, <1>5, Types DEF Acquire, Wanted
<1>7. ApprovalHeld(t)'
  <2>1. SUFFICES ASSUME Op(t) \in Decision PROVE ApprovalHeld(t)'
    BY <1>5 DEF ApprovalHeld, Deciding, Op
  <2>2. lock[tx[t].row] = t /\ tx[t].row # 0
    BY <1>1, <2>1 DEF Own, ApprovalHeld, Deciding, At
  <2>3. lock'[tx[t].row] = t
    BY <1>1, <1>6, <2>2, Types DEF Loaded
  <2> QED
    BY <1>1, <1>3, <1>4, <1>5, <2>1, <2>2, <2>3 DEF Own, ApprovalHeld, Deciding, At
<1> HIDE DEF n
<1>8. Found(t)'
  BY <1>2, <1>3, <1>4, <1>5 DEF Found, At, Op, Decision
<1>9. Versioned(t)'
  BY <1>1, <1>4, <1>5 DEF LockRun, RunFits, Versioned, Op, Decision
<1>10. Carries(t)' /\ RunHeld(t)'
  BY <1>1, <1>2, <1>3, <1>4, <1>5, <1>6 DEF Own, Carries, RunHeld, At, Op, Decision, Operation
<1> QED
  BY <1>3, <1>4, <1>5, <1>7, <1>8, <1>9, <1>10, StatementStep, Types DEF Own

LEMMA FindStep ==
  ASSUME LInv, NEW t \in Tx, Find(t)
  PROVE  LInv'
<1> DEFINE open == approvals[Latest] = "pending"
           n == [tx[t] EXCEPT !.pc = IF open THEN "lockApproval" ELSE "commit",
                              !.row = IF open THEN Latest ELSE 0]
<1>1. Own(t) /\ At(t, "find") /\ tx[t] \in Loaded
  BY Types DEF Find
<1>2. Op(t) \in {"cancel", "revise"} /\ lock[RunRow] = t /\ (Op(t) = "revise" => open)
  BY <1>1 DEF Own, Carries, RunHeld, HoldsRun, At, Find
<1>3. /\ n \in Loaded
      /\ n.row = (IF open THEN Latest ELSE 0)
      /\ n.pc = (IF open THEN "lockApproval" ELSE "commit")
  BY <1>1, Types DEF Loaded, Statement, Rows, RunRow
<1>4. tx' = [tx EXCEPT ![t] = n] /\ tx'[t] = n
  BY <1>1, Types DEF Find, Loaded
<1>5. UNCHANGED <<run, approvals, asked, lock, records, answer, effects>>
  BY DEF Find
<1> HIDE DEF n
<1>6. Own(t)'
  BY <1>1, <1>2, <1>3, <1>4, <1>5, Types
     DEF Own, Carries, RunHeld, HoldsRun, ApprovalHeld, Deciding, Found, Versioned, At, Op,
         Decision, Latest, Rows
<1> QED
  BY <1>3, <1>4, <1>5, <1>6, StatementStep, Types

(* A decision gets an open approval and keeps it open; what the others     *)
(* have found cannot have changed, as they hold the run.                   *)
LEMMA LockApprovalStep ==
  ASSUME LInv, NEW t \in Tx, LockApproval(t)
  PROVE  LInv'
<1> DEFINE n == [tx[t] EXCEPT !.pc = IF Op(t) \in Decision THEN "readRun" ELSE "commit"]
<1>1. Own(t) /\ At(t, "lockApproval") /\ tx[t] \in Loaded
  BY Types DEF LockApproval
<1>2. Op(t) \in Operation /\ tx[t].row \in DOMAIN approvals /\ tx[t].row # 0
  BY <1>1, Types DEF Own, Carries, At, Op, Asked
<1>3. Op(t) \notin Decision => tx[t].row = Latest /\ approvals[Latest] = "pending"
  BY <1>1, <1>2 DEF Own, Found, At, Operation, Decision
<1>4. n \in Loaded /\ n.row = tx[t].row /\ n.pc = (IF Op(t) \in Decision THEN "readRun" ELSE "commit")
  BY <1>1 DEF Loaded, Statement
<1>5. tx' = [tx EXCEPT ![t] = n] /\ tx'[t] = n
  BY <1>3, Types DEF LockApproval, Decision
<1>6. UNCHANGED <<run, approvals, asked, records, answer, effects>> /\ Acquire(t)
  BY DEF LockApproval
<1>7. lock' = [lock EXCEPT ![tx[t].row] = t] /\ lock'[tx[t].row] = t
  BY <1>1, <1>6, Types DEF Acquire, Wanted, At
<1>8. ApprovalHeld(t)'
  <2>1. SUFFICES ASSUME Op(t) \in Decision PROVE ApprovalHeld(t)'
    BY <1>6 DEF ApprovalHeld, Deciding, Op
  <2>2. approvals[tx[t].row] = "pending"
    BY <2>1 DEF LockApproval
  <2> QED
    BY <1>2, <1>4, <1>5, <1>6, <1>7, <2>2 DEF ApprovalHeld
<1>9. RunHeld(t)'
  BY <1>1, <1>2, <1>4, <1>5, <1>6, <1>7, Types
     DEF Own, RunHeld, HoldsRun, At, Op, Acquire, Wanted, RunRow, Loaded
<1> HIDE DEF n
<1>10. Found(t)' /\ Versioned(t)' /\ Carries(t)'
  BY <1>1, <1>2, <1>3, <1>4, <1>5, <1>6, <1>7
     DEF Own, Found, Versioned, HoldsRun, Carries, At, Op, Latest, Decision, Operation
<1> QED
  BY <1>4, <1>5, <1>6, <1>8, <1>9, <1>10, StatementStep, Types DEF Own

-----------------------------------------------------------------------------
(* Commits *)

(* What a commit finds: the lock of the run is held, so no other           *)
(* transaction has it, and the approval it closes is the one open.         *)
LEMMA CommitFinds ==
  ASSUME LInv, NEW t \in Tx, Commit(t)
  PROVE  /\ asked[Key[t]] \in Asked /\ Op(t) \in Operation
         /\ effects[Key[t]] = 0
         /\ \A s \in Tx \ {t} : ~HoldsRun(s) /\ ~Deciding(s)
         /\ tx[t].row # 0 => tx[t].row = Latest /\ approvals[Latest] = "pending"
         /\ tx[t].row = 0 => Op(t) = "cancel" /\ approvals[Latest] # "pending"
         /\ Op(t) = "revise" => run.version = asked[Key[t]].version
<1>1. Own(t) /\ At(t, "commit") /\ Key[t] \notin records /\ Once(Key[t])
  BY Types DEF Commit
<1>2. asked[Key[t]] \in Asked /\ Op(t) \in Operation
  BY <1>1 DEF Own, Carries, At, Op, Asked
<1>3. lock[RunRow] = t
  BY <1>1 DEF Own, RunHeld, HoldsRun, At
<1>4. \A s \in Tx \ {t} : ~HoldsRun(s)
  BY <1>3 DEF LInv, RunHeld
<1>5. Op(t) = "revise" => run.version = asked[Key[t]].version
  BY <1>1 DEF Own, Versioned, HoldsRun, At
<1>6. effects[Key[t]] = 0
  <2>1. effects[Key[t]] \in Nat /\ run.version \in Nat
    BY Types DEF LInv, LocksTypeOK
  <2> QED
    BY <1>1, <1>5, <2>1 DEF Once, Op
<1>7. ASSUME NEW s \in Tx \ {t}, Deciding(s) PROVE FALSE
  <2>1. lock[tx[s].row] = s /\ tx[s].row = Latest /\ approvals[Latest] = "pending"
    BY <1>7 DEF LInv, ApprovalHeld, OpenWhileWaiting
  <2>2. lock[Latest] = t
    <3>1. CASE Op(t) \in Decision
      BY <1>1, <3>1 DEF Own, ApprovalHeld, Deciding, At, LInv, OpenWhileWaiting
    <3>2. CASE Op(t) \notin Decision
      BY <1>1, <1>2, <2>1, <3>2 DEF Own, Found, At, Operation, Decision
    <3> QED
      BY <3>1, <3>2
  <2> QED
    BY <2>1, <2>2
<1>8. CASE Op(t) \in Decision
  <2>1. tx[t].row # 0 /\ tx[t].row \in DOMAIN approvals /\ approvals[tx[t].row] = "pending"
    BY <1>1, <1>8 DEF Own, ApprovalHeld, Deciding, At
  <2>2. tx[t].row = Latest
    BY <2>1 DEF LInv, OpenWhileWaiting
  <2> QED
    BY <1>2, <1>4, <1>5, <1>6, <1>7, <2>1, <2>2
<1>9. CASE Op(t) \notin Decision
  BY <1>1, <1>2, <1>4, <1>5, <1>6, <1>7, <1>9 DEF Own, Found, At, Operation, Decision
<1> QED
  BY <1>8, <1>9

(* The approvals after a commit: the open one is closed, a revision opens  *)
(* the next.                                                               *)
LEMMA CommitWrites ==
  ASSUME LInv, NEW t \in Tx, Commit(t)
  PROVE  /\ approvals' \in Seq(Decision \cup {"pending", "cancelled"})
         /\ Len(approvals') \in 1 .. MaxApprovals
         /\ Len(approvals') = Latest + (IF Op(t) = "revise" THEN 1 ELSE 0)
         /\ \A a \in 1 .. Latest : a # tx[t].row => approvals'[a] = approvals[a]
         /\ \A a \in 1 .. Latest : approvals'[a] # "pending"
         /\ Op(t) = "revise" => approvals'[Latest + 1] = "pending"
<1> DEFINE S == Decision \cup {"pending", "cancelled"}
           v == IF Op(t) \in Decision THEN Op(t) ELSE "cancelled"
           closed == IF tx[t].row = 0 THEN approvals ELSE [approvals EXCEPT ![tx[t].row] = v]
<1>1. approvals \in Seq(S) /\ Latest \in 1 .. MaxApprovals /\ v \in S /\ v # "pending"
  BY Types DEF Decision
<1>2. /\ closed \in Seq(S) /\ Len(closed) = Latest
      /\ \A a \in 1 .. Latest : closed[a] = IF tx[t].row # 0 /\ a = tx[t].row THEN v ELSE approvals[a]
  BY <1>1, UpdateType DEF Latest
<1>3. \A a \in 1 .. Latest : closed[a] # "pending"
  BY <1>1, <1>2, CommitFinds DEF LInv, OpenWhileWaiting, Latest
<1>4. approvals' = (IF Op(t) = "revise" THEN Append(closed, "pending") ELSE closed)
  BY DEF Commit, Written
<1>5. Op(t) = "revise" => Latest + 1 \in 1 .. MaxApprovals
  BY <1>1, LocksAssumption DEF Commit
<1> HIDE DEF closed, v
<1>6. CASE Op(t) = "revise"
  <2>1. approvals' = Append(closed, "pending") /\ "pending" \in S
    BY <1>4, <1>6
  <2>2. /\ approvals' \in Seq(S) /\ Len(approvals') = Latest + 1
        /\ \A a \in 1 .. Latest : approvals'[a] = closed[a]
        /\ approvals'[Latest + 1] = "pending"
    BY <1>1, <1>2, <2>1
  <2> QED
    BY <1>2, <1>3, <1>5, <1>6, <2>2
<1>7. CASE Op(t) # "revise"
  BY <1>1, <1>2, <1>3, <1>4, <1>7
<1> QED
  BY <1>6, <1>7

LEMMA CommitStep ==
  ASSUME LInv, NEW t \in Tx, Commit(t)
  PROVE  LInv'
<1> DEFINE k == Key[t]
           n == [pc |-> "over", row |-> 0, seen |-> "none"]
<1>1. /\ tx' = [tx EXCEPT ![t] = n]
      /\ lock' = [r \in Rows |-> IF lock[r] = t THEN Nobody ELSE lock[r]]
      /\ answer' = [answer EXCEPT ![t] = "done"]
      /\ run' = [status |-> Outcome(Op(t)), version |-> run.version + 1]
      /\ records' = (IF Op(t) = "revise" THEN records ELSE records \cup {k})
      /\ effects' = [effects EXCEPT ![k] = @ + 1]
      /\ UNCHANGED asked
  BY DEF Commit, End
<1>2. /\ tx \in [Tx -> Loaded] /\ n \in Loaded /\ k \in Keys
      /\ effects[k] = 0 /\ effects \in [Keys -> Nat] /\ run.version \in Nat
      /\ Outcome(Op(t)) \in RunStatus /\ Op(t) \in Operation /\ records \subseteq Keys
      /\ (Outcome(Op(t)) = "waiting_approval" <=> Op(t) = "revise")
  BY Types, CommitFinds, LocksAssumption
     DEF LInv, LocksTypeOK, Loaded, Statement, Rows, Outcome, RunStatus, Operation
<1> HIDE DEF k
<1>3. LocksTypeOK'
  <2>1. tx' \in [Tx -> Loaded] /\ lock' \in [Rows -> Tx \cup {Nobody}]
    BY <1>1, <1>2 DEF LInv, LocksTypeOK
  <2>2. run' \in [status : RunStatus, version : Nat] /\ effects' \in [Keys -> Nat]
    BY <1>1, <1>2
  <2>3. answer' \in [Tx -> {"none", "done", "conflict", "aborted"}]
    BY <1>1 DEF LInv, LocksTypeOK
  <2>4. asked' \in [Keys -> Asked \cup {NotAsked}] /\ records' \subseteq Keys
    BY <1>1, <1>2 DEF LInv, LocksTypeOK
  <2> QED
    BY <2>1, <2>2, <2>3, <2>4, CommitWrites DEF LocksTypeOK, Loaded
<1>4. ASSUME NEW s \in Tx PROVE Own(s)'
  <2>1. CASE s = t
    BY <1>1, <1>2, <2>1 DEF Own, Carries, RunHeld, HoldsRun, ApprovalHeld, Deciding, Found,
                            Versioned, At
  <2>2. CASE s # t
    <3>1. tx'[s] = tx[s] /\ Own(s) /\ ~HoldsRun(s) /\ ~Deciding(s)
      BY <1>1, <1>2, <2>2, CommitFinds, Types
    <3>2. ~HoldsRun(s)' /\ ~Deciding(s)'
      BY <1>1, <3>1 DEF HoldsRun, Deciding, At, Op
    <3>3. DOMAIN approvals \subseteq DOMAIN approvals'
      BY CommitWrites, Types DEF Latest
    <3>4. Carries(s)'
      BY <1>1, <3>1, <3>3 DEF Own, Carries, At, Op
    <3> QED
      BY <3>2, <3>4 DEF Own, RunHeld, ApprovalHeld, Found, Versioned, HoldsRun, At, Op, Decision
  <2> QED
    BY <2>1, <2>2
<1>5. OpenWhileWaiting'
  BY <1>1, <1>2, CommitWrites DEF OpenWhileWaiting, Latest
<1>6. ASSUME NEW j \in Keys PROVE Once(j)'
  <2>1. Once(j) /\ DOMAIN approvals \subseteq DOMAIN approvals'
    BY CommitWrites, Types DEF LInv, Latest
  <2>2. asked[j] # NotAsked => asked[j].version \in Nat
    BY DEF LInv, LocksTypeOK, Asked
  <2>3. CASE j # k
    BY <1>1, <1>2, <2>1, <2>2, <2>3 DEF Once, NotAsked
  <2>4. CASE j = k
    <3>1. asked[k] # NotAsked /\ asked[k].op = Op(t)
      BY CommitFinds DEF Asked, NotAsked, k, Op
    <3>2. effects'[k] = 1
      BY <1>1, <1>2
    <3> QED
      BY <1>1, <1>2, <2>1, <2>2, <2>4, <3>1, <3>2 DEF Once
  <2> QED
    BY <2>3, <2>4
<1>7. ASSUME NEW s \in Tx, answer'[s] = "done" PROVE effects'[Key[s]] = 1
  BY <1>1, <1>2, <1>7, LocksAssumption DEF LInv, LocksTypeOK, k
<1> QED
  BY <1>3, <1>4, <1>5, <1>6, <1>7, CommitWrites DEF LInv, Own

-----------------------------------------------------------------------------
(* The specification *)

LEMMA NextLInv == LInv /\ [LocksNext]_lockVars => LInv'
<1> SUFFICES ASSUME LInv, [LocksNext]_lockVars PROVE LInv'
  OBVIOUS
<1>1. ASSUME NEW k \in Keys, NEW op \in Operation, NEW a \in 1 .. MaxApprovals, Ask(k, op, a)
      PROVE  LInv'
  BY <1>1, AskStep
<1>2. ASSUME NEW t \in Tx, Send(t) \/ LookUp(t) \/ ReadRun(t) \/ LockRun(t) \/ Find(t)
                            \/ LockApproval(t) \/ Commit(t)
      PROVE  LInv'
  BY <1>2, SendStep, LookUpStep, ReadRunStep, LockRunStep, FindStep, LockApprovalStep, CommitStep
<1>3. ASSUME NEW t \in Tx, Replay(t) PROVE LInv'
  <2>1. effects[Key[t]] = 1 /\ RollBack(t, "done")
    BY <1>3, Types DEF Replay, Once
  <2> QED
    BY <2>1, RollBackStep
<1>4. ASSUME NEW t \in Tx, RunRefused(t) \/ ApprovalRefused(t) \/ Duplicate(t) \/ Abort(t)
      PROVE  LInv'
  <2>1. RollBack(t, "conflict") \/ RollBack(t, "aborted")
    BY <1>4 DEF RunRefused, ApprovalRefused, Duplicate, Abort
  <2> QED
    BY <2>1, RollBackStep
<1>5. CASE UNCHANGED lockVars
  <2> USE <1>5 DEF lockVars
  <2>1. LocksTypeOK' /\ OpenWhileWaiting' /\ \A k \in Keys : Once(k)'
    BY DEF LInv, LocksTypeOK, OpenWhileWaiting, Latest, Once
  <2>2. \A t \in Tx : Own(t)'
    BY DEF LInv, Own, Carries, RunHeld, HoldsRun, ApprovalHeld, Deciding, Found, Versioned, At,
           Op, Latest
  <2> QED
    BY <2>1, <2>2 DEF LInv, Own
<1> QED
  BY <1>1, <1>2, <1>3, <1>4, <1>5 DEF LocksNext, Statements

THEOREM LocksInvariant == LocksSpec => []LInv
<1>1. LocksInit => LInv
  BY InitLInv
<1>2. LInv /\ [LocksNext]_lockVars => LInv'
  BY NextLInv
<1> QED
  BY <1>1, <1>2, PTL DEF LocksSpec

(* Rows, locks and transactions of the statements of backend/main.py and   *)
(* delivery_routes.py stay well formed.                                    *)
THEOREM LocksTyped == LocksSpec => []LocksTypeOK
<1>1. LInv => LocksTypeOK
  BY DEF LInv
<1> QED
  BY <1>1, LocksInvariant, PTL

(* A run waits exactly while its latest approval is open, though decide    *)
(* locks the approval first and cancel_run and revise_configuration the    *)
(* run, and each loads the other row without a lock.                       *)
THEOREM WaitsForOpenApproval == LocksSpec => []OpenWhileWaiting
<1>1. LInv => OpenWhileWaiting
  BY DEF LInv
<1> QED
  BY <1>1, LocksInvariant, PTL

(* A request sent any number of times, at once or later, takes effect at   *)
(* most once, and is reported done only if it has.                         *)
THEOREM EffectsOnce == LocksSpec => []DoneOnce
<1>1. LInv => DoneOnce
  BY DEF LInv, Once, DoneOnce
<1> QED
  BY <1>1, LocksInvariant, PTL

-----------------------------------------------------------------------------
(* Waiting *)

(* A row is locked only by a transaction that has got its lock and has not *)
(* ended.                                                                  *)
HoldsApproval(t) == Deciding(t) \/ At(t, "commit")
LockedInUse(t) ==
  \A r \in Rows : lock[r] = t =>
    IF r = RunRow THEN HoldsRun(t) ELSE HoldsApproval(t) /\ tx[t].row = r

(* A revision looks for the approval of a run it has seen waiting under    *)
(* the lock.                                                               *)
FindsOpen(t) == At(t, "find") /\ Op(t) = "revise" => run.status = "waiting_approval"

(* There is room for the approvals the revisions asked for will open.      *)
Revising == {k \in Keys : asked[k].op = "revise" /\ effects[k] = 0}
Room == Latest + Cardinality(Revising) <= MaxApprovals

WInv == LInv /\ Room /\ \A t \in Tx : LockedInUse(t) /\ FindsOpen(t)

LEMMA InitWInv == LocksInit => WInv
<1> SUFFICES ASSUME LocksInit PROVE WInv
  OBVIOUS
<1>1. LInv
  BY InitLInv
<1>2. Revising = {} /\ Latest = 1
  BY DEF LocksInit, Revising, NotAsked, Latest
<1>3. Room
  BY <1>2, FS_EmptySet, LocksAssumption DEF Room
<1>4. \A t \in Tx : LockedInUse(t) /\ FindsOpen(t)
  BY LocksAssumption DEF LocksInit, LockedInUse, FindsOpen, At
<1> QED
  BY <1>1, <1>3, <1>4 DEF WInv

(* What the other transactions hold and have seen is theirs still.         *)
LEMMA OthersHold ==
  ASSUME WInv, NEW t \in Tx, UNCHANGED asked,
         \A s \in Tx \ {t} : tx'[s] = tx[s] /\ \A r \in Rows : lock'[r] = s => lock[r] = s,
         UNCHANGED run \/ HoldsRun(t),
         LockedInUse(t)', FindsOpen(t)'
  PROVE  \A s \in Tx : LockedInUse(s)' /\ FindsOpen(s)'
<1> SUFFICES ASSUME NEW s \in Tx \ {t} PROVE LockedInUse(s)' /\ FindsOpen(s)'
  OBVIOUS
<1>1. LockedInUse(s) /\ FindsOpen(s) /\ RunHeld(s) /\ RunHeld(t)
  BY DEF WInv, LInv
<1>2. tx'[s] = tx[s] /\ \A r \in Rows : lock'[r] = s => lock[r] = s
  OBVIOUS
<1>3. LockedInUse(s)'
  BY <1>1, <1>2 DEF LockedInUse, HoldsRun, HoldsApproval, Deciding, At, Op, RunRow
<1>4. FindsOpen(s)'
  BY <1>1, <1>2 DEF FindsOpen, RunHeld, HoldsRun, At, Op
<1> QED
  BY <1>3, <1>4

(* A transaction that ends without effect holds no lock any more.          *)
LEMMA RollBackHold ==
  ASSUME WInv, NEW t \in Tx, NEW outcome, RollBack(t, outcome)
  PROVE  Room' /\ \A s \in Tx : LockedInUse(s)' /\ FindsOpen(s)'
<1>1. tx' = [tx EXCEPT ![t] = [pc |-> "over", row |-> 0, seen |-> "none"]]
  BY DEF RollBack, End
<1>2. /\ lock' = [r \in Rows |-> IF lock[r] = t THEN Nobody ELSE lock[r]]
      /\ UNCHANGED <<run, approvals, asked, effects>>
  BY DEF RollBack, End
<1>3. Nobody \notin Tx /\ tx \in [Tx -> Loaded]
  BY Types DEF WInv
<1>4. LockedInUse(t)' /\ FindsOpen(t)'
  BY <1>1, <1>2, <1>3 DEF LockedInUse, FindsOpen, At
<1>5. Room'
  BY <1>2 DEF WInv, Room, Revising, Latest
<1> QED
  BY <1>1, <1>2, <1>3, <1>4, <1>5, OthersHold

(* A statement that neither ends the transaction nor writes a row but      *)
(* perhaps a lock.                                                         *)
LEMMA StatementHold ==
  ASSUME WInv, NEW t \in Tx,
         Send(t) \/ LookUp(t) \/ ReadRun(t) \/ LockRun(t) \/ Find(t) \/ LockApproval(t)
  PROVE  Room' /\ \A s \in Tx : LockedInUse(s)' /\ FindsOpen(s)'
<1>1. LInv /\ LockedInUse(t) /\ FindsOpen(t)
  BY DEF WInv
<1>2. /\ Carries(t) /\ RunHeld(t) /\ ApprovalHeld(t) /\ Found(t)
      /\ tx \in [Tx -> Loaded] /\ tx[t] \in Loaded /\ Wanted(t) \in Rows
      /\ lock \in [Rows -> Tx \cup {Nobody}] /\ Nobody \notin Tx
  BY <1>1, Types DEF Own
<1>3. UNCHANGED <<run, approvals, asked, effects>>
  BY DEF Send, LookUp, ReadRun, LockRun, Find, LockApproval
<1>4. Room'
  BY <1>3 DEF WInv, Room, Revising, Latest
<1>5. lock' = lock \/ (lock' = [lock EXCEPT ![Wanted(t)] = t])
  BY DEF Send, LookUp, ReadRun, LockRun, Find, LockApproval, Acquire
<1>6. \A s \in Tx \ {t} : tx'[s] = tx[s]
  BY <1>2 DEF Send, LookUp, ReadRun, LockRun, Find, LockApproval, Goto
<1>7. \A s \in Tx \ {t} : \A r \in Rows : lock'[r] = s => lock[r] = s
  BY <1>2, <1>5
<1>8. ASSUME tx[t].pc \in {"idle", "lookup"}, lock' = lock,
             tx'[t].pc \in {"lookup", "readRun", "lockRun", "lockApproval"}
      PROVE  LockedInUse(t)' /\ FindsOpen(t)'
  BY <1>1, <1>8 DEF LockedInUse, FindsOpen, HoldsRun, HoldsApproval, Deciding, At
<1>9. CASE Send(t) \/ LookUp(t)
  <2>1. /\ tx[t].pc \in {"idle", "lookup"} /\ lock' = lock
        /\ tx'[t].pc \in {"lookup", "readRun", "lockRun", "lockApproval"}
    BY <1>2, <1>9 DEF Send, LookUp, Goto, At, Loaded
  <2> QED
    BY <1>3, <1>4, <1>6, <1>7, <1>8, <2>1, OthersHold
<1>10. CASE ReadRun(t)
  <2>1. At(t, "readRun") /\ lock' = lock /\ tx'[t].pc = "lockRun" /\ tx'[t].row = tx[t].row
    BY <1>2, <1>10 DEF ReadRun, Loaded
  <2>2. LockedInUse(t)' /\ FindsOpen(t)'
    BY <1>1, <1>3, <2>1 DEF LockedInUse, FindsOpen, HoldsRun, HoldsApproval, Deciding, At, Op
  <2> QED
    BY <1>3, <1>4, <1>6, <1>7, <2>2, OthersHold
<1>11. CASE LockRun(t)
  <2>1. /\ At(t, "lockRun") /\ tx'[t].row = tx[t].row
        /\ tx'[t].pc = (IF Op(t) \in Decision THEN "commit" ELSE "find")
        /\ lock' = [lock EXCEPT ![RunRow] = t] /\ RunFits(t)
    BY <1>2, <1>11 DEF LockRun, Goto, Acquire, Wanted, Loaded
  <2>2. HoldsRun(t)'
    BY <2>1 DEF HoldsRun, At
  <2>3. LockedInUse(t)'
    BY <1>1, <1>2, <1>3, <2>1, <2>2
       DEF LockedInUse, HoldsRun, HoldsApproval, Deciding, At, Op, Decision, RunRow
  <2>4. FindsOpen(t)'
    BY <1>3, <2>1 DEF RunFits, FindsOpen, At, Op, Decision
  <2> QED
    BY <1>3, <1>4, <1>6, <1>7, <2>3, <2>4, OthersHold
<1>12. CASE Find(t)
  <2>1. At(t, "find") /\ lock' = lock /\ tx'[t].pc \in {"lockApproval", "commit"}
    BY <1>2, <1>12 DEF Find, Loaded
  <2>2. Op(t) \notin Decision
    BY <1>2, <2>1 DEF Carries, Decision
  <2>3. LockedInUse(t)' /\ FindsOpen(t)'
    BY <1>1, <1>3, <2>1, <2>2 DEF LockedInUse, FindsOpen, HoldsRun, HoldsApproval, Deciding, At, Op
  <2> QED
    BY <1>3, <1>4, <1>6, <1>7, <2>3, OthersHold
<1>13. CASE LockApproval(t)
  <2>1. At(t, "lockApproval") /\ tx[t].row # RunRow /\ tx[t].row \in Rows
    BY <1>1, <1>2, <1>13, Types DEF LockApproval, Carries, At, RunRow
  <2>2. asked[Key[t]] \in Asked
    BY <1>2, <2>1 DEF Carries, At
  <2>3. Op(t) \notin Decision => tx[t].row = Latest /\ approvals[Latest] = "pending"
    BY <1>2, <2>1, <2>2 DEF Found, At, Op, Asked, Operation, Decision, RunRow
  <2>4. /\ tx'[t].row = tx[t].row
        /\ tx'[t].pc = (IF Op(t) \in Decision THEN "readRun" ELSE "commit")
        /\ lock' = [lock EXCEPT ![tx[t].row] = t]
    BY <1>2, <1>13, <2>1, <2>3 DEF LockApproval, Acquire, Wanted, At, Loaded, Decision
  <2>5. HoldsApproval(t)'
    BY <1>3, <2>4 DEF HoldsApproval, Deciding, At, Op
  <2>6. LockedInUse(t)'
    BY <1>1, <1>2, <1>3, <2>1, <2>4, <2>5
       DEF LockedInUse, HoldsRun, HoldsApproval, Deciding, At, Op, RunRow
  <2>7. FindsOpen(t)'
    BY <2>4 DEF FindsOpen, At
  <2> QED
    BY <1>3, <1>4, <1>6, <1>7, <2>6, <2>7, OthersHold
<1> QED
  BY <1>9, <1>10, <1>11, <1>12, <1>13

(* A commit takes the room its revision has been given.                    *)
LEMMA CommitHold ==
  ASSUME WInv, NEW t \in Tx, Commit(t)
  PROVE  Room' /\ \A s \in Tx : LockedInUse(s)' /\ FindsOpen(s)'
<1>1. /\ tx' = [tx EXCEPT ![t] = [pc |-> "over", row |-> 0, seen |-> "none"]]
      /\ lock' = [r \in Rows |-> IF lock[r] = t THEN Nobody ELSE lock[r]]
      /\ effects' = [effects EXCEPT ![Key[t]] = @ + 1]
      /\ UNCHANGED asked
  BY DEF Commit, End
<1>2. LInv /\ Nobody \notin Tx /\ tx \in [Tx -> Loaded] /\ Key[t] \in Keys
  BY Types DEF WInv
<1>3. LockedInUse(t)' /\ FindsOpen(t)'
  BY <1>1, <1>2 DEF LockedInUse, FindsOpen, At
<1>4. HoldsRun(t)
  BY DEF Commit, HoldsRun, At
<1>5. \A s \in Tx : LockedInUse(s)' /\ FindsOpen(s)'
  BY <1>1, <1>2, <1>3, <1>4, OthersHold
<1>6. /\ effects[Key[t]] = 0 /\ effects \in [Keys -> Nat] /\ Latest \in Nat
      /\ Latest' = Latest + (IF Op(t) = "revise" THEN 1 ELSE 0)
  BY <1>2, CommitFinds, CommitWrites, Types DEF LInv, LocksTypeOK, Latest
<1>7. IsFiniteSet(Revising) /\ Cardinality(Revising) \in Nat
  BY FS_Subset, FS_CardinalityType, LocksAssumption DEF Revising
<1>8. Room'
  <2>1. Room /\ MaxApprovals \in Nat
    BY LocksAssumption DEF WInv
  <2>2. CASE Op(t) = "revise"
    <3>1. Revising' = Revising \ {Key[t]} /\ Key[t] \in Revising
      BY <1>1, <1>2, <1>6, <2>2 DEF Revising, Op
    <3>2. Cardinality(Revising') = Cardinality(Revising) - 1
      BY <1>7, <3>1, FS_RemoveElement
    <3> QED
      BY <1>6, <1>7, <2>1, <2>2, <3>2 DEF Room
  <2>3. CASE Op(t) # "revise"
    <3>1. Revising' = Revising
      BY <1>1, <1>2, <1>6, <2>3 DEF Revising, Op
    <3> QED
      BY <1>6, <2>1, <2>3, <3>1 DEF Room
  <2> QED
    BY <2>2, <2>3
<1> QED
  BY <1>5, <1>8

(* A client asks for a revision only while there is room for it.           *)
LEMMA AskHold ==
  ASSUME WInv, NEW k \in Keys, NEW op \in Operation, NEW a \in 1 .. MaxApprovals, Ask(k, op, a)
  PROVE  Room' /\ \A s \in Tx : LockedInUse(s)' /\ FindsOpen(s)'
<1> DEFINE r == [op |-> op, of |-> a, version |-> run.version]
           R == {j \in Keys : asked[j].op = "revise"}
<1>1. /\ asked' = [asked EXCEPT ![k] = r] /\ asked[k] = NotAsked
      /\ UNCHANGED <<run, approvals, lock, tx, effects>>
  BY DEF Ask
<1>2. asked \in [Keys -> Asked \cup {NotAsked}] /\ NotAsked \notin Asked /\ LInv
  BY DEF WInv, LInv, LocksTypeOK, Asked, NotAsked
<1>3. ASSUME NEW s \in Tx PROVE LockedInUse(s)' /\ FindsOpen(s)'
  <2>1. LockedInUse(s) /\ FindsOpen(s) /\ Own(s)
    BY <1>2, Types DEF WInv
  <2>2. CASE Key[s] # k
    <3>1. asked'[Key[s]] = asked[Key[s]]
      BY <1>1, <1>2, <2>2, LocksAssumption
    <3> QED
      BY <1>1, <2>1, <3>1
         DEF LockedInUse, FindsOpen, HoldsRun, HoldsApproval, Deciding, At, Op, RunRow
  <2>3. CASE Key[s] = k
    <3>1. At(s, "idle") \/ At(s, "over")
      BY <1>1, <1>2, <2>1, <2>3 DEF Own, Carries
    <3> QED
      BY <1>1, <2>1, <3>1 DEF LockedInUse, FindsOpen, HoldsRun, HoldsApproval, Deciding, At
  <2> QED
    BY <2>2, <2>3
<1>4. IsFiniteSet(R) /\ Cardinality(R) \in Nat
  BY FS_Subset, FS_CardinalityType, LocksAssumption
<1>5. Revising \subseteq R /\ IsFiniteSet(Revising) /\ Cardinality(Revising) \in Nat
  BY <1>4, FS_Subset, FS_CardinalityType DEF Revising
<1>6. Latest \in Nat /\ Latest' = Latest /\ MaxApprovals \in Nat /\ Room
  BY <1>1, LocksAssumption DEF WInv, LInv, LocksTypeOK, Latest
<1>7. Room'
  <2>1. CASE op = "revise"
    <3>1. Latest + Cardinality(R) < MaxApprovals /\ Cardinality(Revising) <= Cardinality(R)
      BY <1>4, <1>5, <2>1, FS_Subset DEF Ask
    <3>2. Revising' \subseteq Revising \cup {k}
      BY <1>1, <1>2 DEF Revising
    <3>3. /\ IsFiniteSet(Revising \cup {k}) /\ Cardinality(Revising \cup {k}) \in Nat
          /\ Cardinality(Revising \cup {k}) <= Cardinality(Revising) + 1
      <4>1. /\ IsFiniteSet(Revising \cup {k})
            /\ Cardinality(Revising \cup {k}) =
                 IF k \in Revising THEN Cardinality(Revising) ELSE Cardinality(Revising) + 1
        BY <1>5, FS_AddElement
      <4> QED
        BY <1>5, <4>1
    <3>4. Cardinality(Revising') \in Nat /\ Cardinality(Revising') <= Cardinality(Revising) + 1
      BY <1>5, <3>2, <3>3, FS_Subset, FS_CardinalityType
    <3> QED
      BY <1>4, <1>5, <1>6, <3>1, <3>4 DEF Room
  <2>2. CASE op # "revise"
    <3>1. Revising' = Revising
      BY <1>1, <1>2, <2>2 DEF Revising, NotAsked
    <3> QED
      BY <1>6, <3>1 DEF Room
  <2> QED
    BY <2>1, <2>2
<1> QED
  BY <1>3, <1>7

LEMMA NextWInv == WInv /\ [LocksNext]_lockVars => WInv'
<1> SUFFICES ASSUME WInv, [LocksNext]_lockVars PROVE WInv'
  OBVIOUS
<1>1. LInv'
  BY NextLInv DEF WInv
<1>2. ASSUME NEW t \in Tx, Send(t) \/ LookUp(t) \/ ReadRun(t) \/ LockRun(t) \/ Find(t)
                            \/ LockApproval(t) \/ Commit(t)
      PROVE  WInv'
  BY <1>1, <1>2, StatementHold, CommitHold DEF WInv
<1>3. ASSUME NEW t \in Tx, Replay(t) \/ RunRefused(t) \/ ApprovalRefused(t) \/ Duplicate(t) \/ Abort(t)
      PROVE  WInv'
  <2>1. RollBack(t, "done") \/ RollBack(t, "conflict") \/ RollBack(t, "aborted")
    BY <1>3 DEF Replay, RunRefused, ApprovalRefused, Duplicate, Abort
  <2> QED
    BY <1>1, <2>1, RollBackHold DEF WInv
<1>4. ASSUME NEW k \in Keys, NEW op \in Operation, NEW a \in 1 .. MaxApprovals, Ask(k, op, a)
      PROVE  WInv'
  BY <1>1, <1>4, AskHold DEF WInv
<1>5. CASE UNCHANGED lockVars
  BY <1>1, <1>5 DEF lockVars, WInv, Room, Revising, Latest, LockedInUse, FindsOpen, HoldsRun,
                    HoldsApproval, Deciding, At, Op, RunRow
<1> QED
  BY <1>2, <1>3, <1>4, <1>5 DEF LocksNext, Statements

LEMMA WaitingInvariant == LocksSpec => []WInv
<1>1. LocksInit => WInv
  BY InitWInv
<1>2. WInv /\ [LocksNext]_lockVars => WInv'
  BY NextWInv
<1> QED
  BY <1>1, <1>2, PTL DEF LocksSpec

(* Two transactions that wait for each other are a deadlock.               *)
LEMMA Embrace ==
  ASSUME NEW s \in Tx, NEW t \in Tx, WaitsFor(s, t), WaitsFor(t, s)
  PROVE  Deadlocked(s) /\ Deadlocked(t)
<1>1. {s, t} \in SUBSET {u \in Tx : Waits(u)}
  BY DEF WaitsFor
<1>2. \A u \in {s, t} : lock[Wanted(u)] \in {s, t}
  BY DEF WaitsFor
<1> QED
  BY <1>1, <1>2 DEF Deadlocked

(* Whoever holds the run goes on, or waits for a decision that holds the   *)
(* open approval and in turn goes on.                                      *)
LEMMA RunHolder ==
  ASSUME WInv, NEW h \in Tx, HoldsRun(h)
  PROVE  CanGoOn(h) \/ \E g \in Tx : WaitsFor(h, g) /\ CanGoOn(g)
<1>1. /\ LInv /\ RunHeld(h) /\ Found(h) /\ Carries(h) /\ FindsOpen(h) /\ Once(Key[h])
      /\ lock[RunRow] = h /\ lock \in [Rows -> Tx \cup {Nobody}] /\ Wanted(h) \in Rows
      /\ Key[h] \in Keys
  BY Types DEF WInv, Own, RunHeld
<1>2. CASE At(h, "find")
  BY <1>1, <1>2, Types DEF CanGoOn, FindsOpen, LInv, OpenWhileWaiting
<1>3. CASE At(h, "commit")
  <2>1. SUFFICES ASSUME Op(h) = "revise" PROVE Latest < MaxApprovals
    BY <1>3 DEF CanGoOn
  <2>2. run.version = asked[Key[h]].version
    BY <1>1, <1>3, <2>1 DEF LInv, Versioned, HoldsRun, At
  <2>3. effects[Key[h]] = 0
    BY <1>1, <2>1, <2>2, Types DEF Once, Op, LInv, LocksTypeOK
  <2>4. Key[h] \in Revising
    BY <1>1, <2>1, <2>3 DEF Revising, Op
  <2>5. Cardinality(Revising) \in Nat /\ Cardinality(Revising) # 0
    BY <2>4, FS_Subset, FS_CardinalityType, FS_EmptySet, LocksAssumption DEF Revising
  <2> QED
    BY <1>1, <2>5, Types, LocksAssumption DEF WInv, Room
<1>4. CASE At(h, "lockApproval") /\ Op(h) \notin Decision
  <2>1. SUFFICES ASSUME Waits(h) PROVE \E g \in Tx : WaitsFor(h, g) /\ CanGoOn(g)
    BY <1>4 DEF CanGoOn, At
  <2>2. asked[Key[h]] \in Asked /\ tx[h].row \in DOMAIN approvals
    BY <1>1, <1>4 DEF Carries, At
  <2>3. tx[h].row = Latest /\ Wanted(h) = Latest /\ Latest # RunRow
    BY <1>1, <1>4, <2>2, Types DEF Found, At, Op, Asked, Operation, Decision, Wanted, RunRow
  <2>4. PICK g \in Tx : WaitsFor(h, g)
    BY <1>1, <2>1 DEF WaitsFor, Waits
  <2>5. lock[Latest] = g /\ g # h
    BY <2>3, <2>4 DEF WaitsFor, Waits
  <2>6. HoldsApproval(g) /\ tx[g].row = Latest
    BY <1>1, <2>3, <2>5, Types DEF WInv, LockedInUse
  <2>7. ~HoldsRun(g)
    BY <1>1, <2>5 DEF LInv, RunHeld
  <2>8. Deciding(g) /\ tx[g].pc \in {"readRun", "lockRun"}
    BY <2>6, <2>7 DEF HoldsApproval, Deciding, HoldsRun, At
  <2>9. CanGoOn(g)
    <3>1. SUFFICES ASSUME At(g, "lockRun"), RunFits(g) PROVE CanGoOn(g)
      BY <2>8 DEF CanGoOn, At, Deciding
    <3>2. WaitsFor(g, h)
      BY <1>1, <2>5, <3>1, LocksAssumption DEF WaitsFor, Waits, Wanted, At
    <3> QED
      BY <2>4, <3>1, <3>2, Embrace DEF CanGoOn, At
  <2> QED
    BY <2>4, <2>9
<1> QED
  BY <1>2, <1>3, <1>4 DEF HoldsRun, At

(* Whoever holds an approval goes on, or waits for the run whose holder    *)
(* goes on.                                                                *)
LEMMA ApprovalHolder ==
  ASSUME WInv, NEW h \in Tx, HoldsApproval(h)
  PROVE  CanGoOn(h) \/ \E g \in Tx : WaitsFor(h, g) /\ CanGoOn(g)
<1>1. /\ LInv /\ ApprovalHeld(h) /\ lock \in [Rows -> Tx \cup {Nobody}] /\ Wanted(h) \in Rows
      /\ RunRow \in Rows
  BY Types DEF WInv, Own
<1>2. CASE At(h, "commit")
  BY <1>2, RunHolder DEF HoldsRun, At
<1>3. CASE Deciding(h) /\ ~At(h, "commit")
  <2>1. SUFFICES ASSUME At(h, "lockRun"), Waits(h)
                 PROVE  CanGoOn(h) \/ \E g \in Tx : WaitsFor(h, g) /\ CanGoOn(g)
    BY <1>3 DEF Deciding, CanGoOn, At
  <2>2. PICK g \in Tx : WaitsFor(h, g)
    BY <1>1, <2>1 DEF WaitsFor, Waits
  <2>3. lock[RunRow] = g /\ g # h
    BY <2>1, <2>2 DEF WaitsFor, Waits, Wanted
  <2>4. HoldsRun(g)
    BY <1>1, <2>3 DEF WInv, LockedInUse
  <2>5. CASE CanGoOn(g)
    BY <2>2, <2>5
  <2>6. CASE \E u \in Tx : WaitsFor(g, u)
    <3>1. At(g, "lockApproval") /\ Op(g) \notin Decision
      BY <2>4, <2>6 DEF WaitsFor, Waits, HoldsRun, At
    <3>2. asked[Key[g]] \in Asked /\ tx[g].row \in DOMAIN approvals /\ Found(g)
      BY <1>1, <3>1 DEF LInv, Carries, At
    <3>3. tx[g].row = Latest
      BY <1>1, <3>1, <3>2, Types DEF Found, At, Op, Asked, Operation, Decision
    <3>4. tx[h].row = Latest /\ lock[Latest] = h
      BY <1>1, <1>3 DEF ApprovalHeld, LInv, OpenWhileWaiting
    <3>5. WaitsFor(g, h)
      BY <2>3, <3>1, <3>3, <3>4, LocksAssumption DEF WaitsFor, Waits, Wanted, At
    <3> QED
      BY <2>1, <2>2, <3>5, Embrace DEF CanGoOn, At
  <2> QED
    BY <2>4, <2>5, <2>6, RunHolder
<1> QED
  BY <1>2, <1>3 DEF HoldsApproval

LEMMA ShortWaits == WInv => WaitsAreShort
<1> SUFFICES ASSUME WInv, NEW t \in Tx, ~At(t, "idle"), ~At(t, "over")
             PROVE  \/ CanGoOn(t)
                    \/ \E h \in Tx :
                         WaitsFor(t, h) /\ (CanGoOn(h) \/ \E g \in Tx : WaitsFor(h, g) /\ CanGoOn(g))
  BY DEF WaitsAreShort
<1>1. LInv /\ tx[t] \in Loaded /\ lock \in [Rows -> Tx \cup {Nobody}] /\ Wanted(t) \in Rows
  BY Types DEF WInv
<1>2. CASE tx[t].pc \in {"find", "commit"}
  <2>1. HoldsRun(t) /\ ~Waits(t)
    BY <1>2 DEF HoldsRun, Waits
  <2> QED
    BY <2>1, RunHolder DEF WaitsFor
<1>3. CASE tx[t].pc \in {"lockRun", "lockApproval"} /\ Waits(t)
  <2>1. PICK h \in Tx : WaitsFor(t, h)
    BY <1>1, <1>3 DEF WaitsFor, Waits
  <2>2. HoldsRun(h) \/ HoldsApproval(h)
    BY <1>1, <2>1 DEF WInv, LockedInUse, WaitsFor
  <2> QED
    BY <2>1, <2>2, RunHolder, ApprovalHolder
<1> QED
  BY <1>1, <1>2, <1>3 DEF CanGoOn, At, Loaded, Statement

(* No handler of main.py or delivery_routes.py waits in vain for a row: it *)
(* goes on, or is at most two waits behind one that does.                  *)
THEOREM NobodyWaitsInVain == LocksSpec => []WaitsAreShort
  BY WaitingInvariant, ShortWaits, PTL

(* The statements a transaction has still to go, at most.                  *)
Remaining(t) ==
  CASE At(t, "idle") -> 7 [] At(t, "lookup") -> 6
    [] At(t, "lockApproval") -> IF Op(t) \in Decision THEN 4 ELSE 2
    [] At(t, "readRun") -> IF Op(t) \in Decision THEN 3 ELSE 5
    [] At(t, "lockRun") -> IF Op(t) \in Decision THEN 2 ELSE 4
    [] At(t, "find") -> 3 [] At(t, "commit") -> 1 [] At(t, "over") -> 0

(* Every statement brings its handler nearer to the end and no step takes  *)
(* a handler back, retries and aborted deadlocks included: with            *)
(* NobodyWaitsInVain, all handlers end after at most six statements each.  *)
THEOREM StatementsRunOut ==
  LocksSpec => [][\A t \in Tx : /\ Remaining(t) \in 0 .. 7
                                /\ Remaining(t)' <= Remaining(t)
                                /\ Statements(t) => Remaining(t)' < Remaining(t)]_lockVars
<1>1. WInv /\ [LocksNext]_lockVars =>
        [\A t \in Tx : /\ Remaining(t) \in 0 .. 7
                       /\ Remaining(t)' <= Remaining(t)
                       /\ Statements(t) => Remaining(t)' < Remaining(t)]_lockVars
  <2> SUFFICES ASSUME WInv, LocksNext, NEW t \in Tx
               PROVE  /\ Remaining(t) \in 0 .. 7 /\ Remaining(t)' <= Remaining(t)
                      /\ Statements(t) => Remaining(t)' < Remaining(t)
    OBVIOUS
  <2>1. /\ tx \in [Tx -> Loaded] /\ tx[t] \in Loaded /\ Carries(t) /\ LInv
        /\ asked \in [Keys -> Asked \cup {NotAsked}] /\ Key[t] \in Keys
    BY Types DEF WInv, Own, LInv, LocksTypeOK
  <2>2. Remaining(t) \in 0 .. 7
    BY <2>1 DEF Remaining, At, Loaded, Statement
  <2>3. ASSUME Statements(t) PROVE Remaining(t)' < Remaining(t)
    <3>1. CASE tx'[t].pc = "over" /\ ~At(t, "over") /\ ~At(t, "idle")
      BY <2>1, <3>1 DEF Remaining, At, Loaded, Statement
    <3>2. CASE Replay(t) \/ RunRefused(t) \/ ApprovalRefused(t) \/ Duplicate(t) \/ Abort(t) \/ Commit(t)
      <4>1. tx' = [tx EXCEPT ![t] = [pc |-> "over", row |-> 0, seen |-> "none"]]
        BY <3>2 DEF Replay, RunRefused, ApprovalRefused, Duplicate, Abort, Commit, RollBack, End
      <4>2. ~At(t, "over") /\ ~At(t, "idle")
        BY <3>2 DEF Replay, RunRefused, ApprovalRefused, Duplicate, Abort, Commit, Waits, At
      <4> QED
        BY <2>1, <3>1, <4>1, <4>2
    <3>3. CASE LookUp(t)
      <4>1. /\ At(t, "lookup") /\ UNCHANGED asked
            /\ tx'[t].pc = (IF Op(t) = "cancel" THEN "readRun" ELSE "lockApproval")
        BY <2>1, <3>3 DEF LookUp, Goto, Loaded
      <4> QED
        BY <4>1 DEF Remaining, At, Op, Decision
    <3>4. CASE ReadRun(t)
      <4>1. At(t, "readRun") /\ UNCHANGED asked /\ tx'[t].pc = "lockRun"
        BY <2>1, <3>4 DEF ReadRun, Loaded
      <4> QED
        BY <4>1 DEF Remaining, At, Op
    <3>5. CASE LockRun(t)
      <4>1. /\ At(t, "lockRun") /\ UNCHANGED asked
            /\ tx'[t].pc = (IF Op(t) \in Decision THEN "commit" ELSE "find")
        BY <2>1, <3>5 DEF LockRun, Goto, Loaded
      <4> QED
        BY <4>1 DEF Remaining, At, Op
    <3>6. CASE Find(t)
      <4>1. /\ At(t, "find") /\ UNCHANGED asked /\ Op(t) \notin Decision
            /\ tx'[t].pc \in {"lockApproval", "commit"}
        BY <2>1, <3>6 DEF Find, Loaded, Carries, Decision
      <4> QED
        BY <4>1 DEF Remaining, At, Op
    <3>7. CASE LockApproval(t)
      <4>1. /\ At(t, "lockApproval") /\ UNCHANGED asked
            /\ tx'[t].pc = (IF Op(t) \in Decision THEN "readRun" ELSE "commit")
        BY <2>1, <3>7 DEF LockApproval, Loaded, Decision
      <4> QED
        BY <4>1 DEF Remaining, At, Op
    <3> QED
      BY <2>3, <3>2, <3>3, <3>4, <3>5, <3>6, <3>7 DEF Statements
  <2>4. ASSUME Send(t) PROVE Remaining(t)' <= Remaining(t)
    <3>1. /\ At(t, "idle") /\ UNCHANGED asked
          /\ tx'[t].pc = (IF Op(t) = "revise" THEN "lockRun" ELSE "lookup")
      BY <2>1, <2>4 DEF Send
    <3> QED
      BY <3>1 DEF Remaining, At, Op, Decision
  <2>5. ASSUME NEW s \in Tx \ {t}, Send(s) \/ Statements(s) PROVE Remaining(t)' = Remaining(t)
    <3>1. tx'[t] = tx[t] /\ UNCHANGED asked
      BY <2>1, <2>5 DEF Send, Statements, Replay, LookUp, ReadRun, LockRun, RunRefused, Find,
                  LockApproval, ApprovalRefused, Duplicate, Commit, Abort, RollBack, End, Goto
    <3> QED
      BY <3>1 DEF Remaining, At, Op
  <2>6. ASSUME NEW k \in Keys, NEW op \in Operation, NEW a \in 1 .. MaxApprovals, Ask(k, op, a)
        PROVE  Remaining(t)' = Remaining(t)
    <3>1. asked[k] = NotAsked /\ UNCHANGED tx /\ \A j \in Keys \ {k} : asked'[j] = asked[j]
      BY <2>1, <2>6 DEF Ask
    <3>2. CASE Key[t] = k
      <4>1. At(t, "idle") \/ At(t, "over")
        BY <2>1, <3>1, <3>2 DEF Carries, Asked, NotAsked
      <4> QED
        BY <3>1, <4>1 DEF Remaining, At
    <3>3. CASE Key[t] # k
      BY <2>1, <3>1, <3>3 DEF Remaining, At, Op
    <3> QED
      BY <3>2, <3>3
  <2>7. Remaining(t)' \in 0 .. 7
    <3>1. LInv'
      BY NextLInv DEF WInv
    <3>2. tx'[t] \in Loaded
      BY <3>1 DEF LInv, LocksTypeOK, Loaded
    <3> QED
      BY <3>2 DEF Remaining, At, Loaded, Statement
  <2>8. (\E s \in Tx \ {t} : Send(s) \/ Statements(s)) \/ Send(t) \/ Statements(t)
          \/ \E k \in Keys, op \in Operation, a \in 1 .. MaxApprovals : Ask(k, op, a)
    BY DEF LocksNext
  <2>9. Remaining(t)' = Remaining(t) \/ Remaining(t)' <= Remaining(t) \/ Remaining(t)' < Remaining(t)
    BY <2>3, <2>4, <2>5, <2>6, <2>8
  <2> QED
    BY <2>2, <2>3, <2>7, <2>9
<1> QED
  BY <1>1, WaitingInvariant, PTL DEF LocksSpec

-----------------------------------------------------------------------------
(* Refinement *)

LEMMA CommitImplements ==
  ASSUME LInv, NEW t \in Tx, Commit(t)
  PROVE  D!Next
<1> DEFINE v == IF Op(t) \in Decision THEN Op(t) ELSE "cancelled"
           closed == IF tx[t].row = 0 THEN approvals ELSE [approvals EXCEPT ![tx[t].row] = v]
<1>1. /\ approvals' = (IF Op(t) = "revise" THEN Append(closed, "pending") ELSE closed)
      /\ run'.status = Outcome(Op(t))
  BY DEF Commit, Written
<1>2. closed = D!Closed(v)
  <2>1. \A a \in DOMAIN approvals : approvals[a] = "pending" => a = Latest
    BY DEF LInv, OpenWhileWaiting
  <2>2. approvals \in [DOMAIN approvals -> Decision \cup {"pending", "cancelled"}]
    BY Types
  <2> QED
    BY <2>1, <2>2, CommitFinds DEF D!Closed
<1>3. Op(t) # "cancel" => run.status = "waiting_approval"
  BY CommitFinds, Types DEF LInv, OpenWhileWaiting
<1>4. Op(t) \in Operation
  BY CommitFinds
<1> QED
  BY <1>1, <1>2, <1>3, <1>4
     DEF D!Next, D!Approve, D!Reject, D!Revise, D!Cancel, Outcome, Operation, Decision

(* Statement by statement, the handlers implement Decisions: a decision, a *)
(* cancellation or a revision happens as a whole or not at all.            *)
THEOREM ImplementsDecisions == LocksSpec => ActsAsOneStep
<1>1. LocksInit => D!Init
  BY DEF LocksInit, D!Init
<1>2. LInv /\ [LocksNext]_lockVars => [D!Next]_(D!decisionVars)
  <2> SUFFICES ASSUME LInv, [LocksNext]_lockVars PROVE [D!Next]_(D!decisionVars)
    OBVIOUS
  <2>1. ASSUME NEW t \in Tx, Commit(t) PROVE D!Next
    BY <2>1, CommitImplements
  <2>2. ASSUME NEW t \in Tx, ~Commit(t), Send(t) \/ Statements(t)
        PROVE  UNCHANGED <<run, approvals>>
    BY <2>2 DEF Send, Statements, Replay, LookUp, ReadRun, LockRun, RunRefused, Find, LockApproval,
                ApprovalRefused, Duplicate, Abort, RollBack
  <2>3. ASSUME NEW k \in Keys, NEW op \in Operation, NEW a \in 1 .. MaxApprovals, Ask(k, op, a)
        PROVE  UNCHANGED <<run, approvals>>
    BY <2>3 DEF Ask
  <2> QED
    BY <2>1, <2>2, <2>3 DEF LocksNext, lockVars, D!decisionVars
<1> QED
  BY <1>1, <1>2, LocksInvariant, PTL DEF LocksSpec, ActsAsOneStep, D!Spec
=============================================================================
