-------------------------- MODULE DocumentStoreProofs --------------------------
(***************************************************************************)
(* What TLAPS proves of DocumentStore, for any requests, loaders, setups,  *)
(* numbers of chunks and bounds.                                           *)
(***************************************************************************)
EXTENDS DocumentStore, FiniteSetTheorems, TLAPS

----------------------------------------------------------------------------
(***************************************************************************)
(* Lemmas about rows                                                       *)
(***************************************************************************)
LEMMA LargestType ==
    /\ Largest \in Splits /\ Largest \in Nat /\ Largest >= 1
    /\ \A m \in Splits : m \in Nat /\ m <= Largest
<1>1. PICK n \in Splits : n >= 1 /\ \A m \in Splits : m <= n
  BY StoreAssumption DEF StoreAssumption
<1>2. Largest \in Splits /\ \A m \in Splits : m <= Largest
  BY <1>1 DEF Largest
<1>3. Splits \subseteq Nat BY StoreAssumption DEF StoreAssumption
<1> QED BY <1>1, <1>2, <1>3

LEMMA RequestsCounted ==
    Cardinality(Requests) \in Nat
BY FS_CardinalityType, StoreAssumption DEF StoreAssumption

Statuses == {"EMPTY", "SYNC", "STALE", "UPSERTING", "UPSERTED", "gone"}

\* What it takes to be a row.
LEMMA RowIntro ==
    ASSUME NEW s \in Statuses, NEW S \in SUBSET Loaders, NEW f \in [S -> Loader]
    PROVE  [status |-> s, loaders |-> f] \in Rows
<1>1. f \in UNION {[T -> Loader] : T \in SUBSET Loaders} OBVIOUS
<1> QED BY <1>1 DEF Rows, Statuses

LEMMA RowElim ==
    ASSUME NEW x \in Rows
    PROVE  /\ x.status \in Statuses
           /\ DOMAIN x.loaders \in SUBSET Loaders
           /\ x.loaders \in [DOMAIN x.loaders -> Loader]
           /\ x = [status |-> x.status, loaders |-> x.loaders]
<1>1. /\ x.status \in Statuses
      /\ x.loaders \in UNION {[T -> Loader] : T \in SUBSET Loaders}
      /\ x = [status |-> x.status, loaders |-> x.loaders]
  BY DEF Rows, Statuses
<1>2. PICK T \in SUBSET Loaders : x.loaders \in [T -> Loader] BY <1>1
<1> QED BY <1>1, <1>2

\* No loader of a row has lost more than k chunks more than it had.
AtLeast(x, k) == \A l \in DOMAIN x.loaders : x.loaders[l].total + k >= 0

LEMMA GoneType == Gone \in Rows /\ DOMAIN Gone.loaders = {} /\ \A k : AtLeast(Gone, k)
<1>1. [l \in {} |-> l] \in [{} -> Loader] OBVIOUS
<1>2. Gone \in Rows BY <1>1, RowIntro DEF Gone, Statuses
<1>3. DOMAIN Gone.loaders = {} BY DEF Gone
<1> QED BY <1>2, <1>3 DEF AtLeast

LEMMA StatusType ==
    ASSUME NEW x \in Rows, NEW s \in Statuses, NEW k \in Nat, AtLeast(x, k)
    PROVE  LET y == [x EXCEPT !.status = s] IN
           y \in Rows /\ AtLeast(y, k) /\ DOMAIN y.loaders = DOMAIN x.loaders
<1> DEFINE y == [x EXCEPT !.status = s]
<1>1. y = [status |-> s, loaders |-> x.loaders] BY RowElim
<1>2. y \in Rows BY <1>1, RowElim, RowIntro
<1>3. y.loaders = x.loaders BY <1>1
<1> QED BY <1>2, <1>3 DEF AtLeast

LEMMA ZeroType ==
    ASSUME NEW s \in {"SYNCING", "SYNC"}, NEW n \in Int, n <= Largest, n >= 0 - Cardinality(Requests)
    PROVE  [status |-> s, total |-> n] \in Loader
<1>1. n \in 0 - Cardinality(Requests) .. Largest BY LargestType, RequestsCounted
<1> QED BY <1>1 DEF Loader

LEMMA LoaderElim ==
    ASSUME NEW x \in Loader
    PROVE  /\ x.status \in {"SYNCING", "SYNC"}
           /\ x.total \in Int /\ x.total <= Largest /\ x.total >= 0 - Cardinality(Requests)
BY LargestType, RequestsCounted DEF Loader

LEMMA MarkingType ==
    ASSUME NEW x \in Rows, NEW l \in Loaders, NEW k \in Nat, AtLeast(x, k)
    PROVE  /\ Marking(x, l) \in Rows /\ AtLeast(Marking(x, l), k)
           /\ DOMAIN Marking(x, l).loaders = DOMAIN x.loaders \cup {l}
<1> DEFINE S == DOMAIN x.loaders \cup {l}
           zero == [status |-> "SYNCING", total |-> 0]
           f == [j \in S |-> IF j = l THEN zero ELSE x.loaders[j]]
<1>1. zero \in Loader BY ZeroType, LargestType, RequestsCounted
<1>2. f \in [S -> Loader] BY <1>1, RowElim
<1>3. Marking(x, l) = [status |-> x.status, loaders |-> f] BY RowElim DEF Marking
<1>4. Marking(x, l) \in Rows BY <1>2, <1>3, RowElim, RowIntro
<1>5. ASSUME NEW j \in S PROVE f[j].total + k >= 0
  <2>1. CASE j = l BY <2>1
  <2>2. CASE j # l BY <2>2 DEF AtLeast
  <2> QED BY <2>1, <2>2
<1>6. Marking(x, l).loaders = f BY <1>3
<1> HIDE DEF f, S
<1>7. DOMAIN f = S BY DEF f
<1>8. AtLeast(Marking(x, l), k) BY <1>5, <1>6, <1>7 DEF AtLeast
<1> QED BY <1>4, <1>6, <1>7, <1>8 DEF S

LEMMA ProcessedType ==
    ASSUME NEW x \in Rows, NEW l \in DOMAIN x.loaders, NEW n \in 0 .. Largest, NEW k \in Nat,
           AtLeast(x, k)
    PROVE  /\ Processed(x, l, n) \in Rows /\ AtLeast(Processed(x, l, n), k)
           /\ DOMAIN Processed(x, l, n).loaders = DOMAIN x.loaders
<1> DEFINE S == DOMAIN x.loaders
           new == [status |-> "SYNC", total |-> n]
           f == [x.loaders EXCEPT ![l] = new]
           s == IF \A j \in DOMAIN f : f[j].status = "SYNC" THEN "SYNC" ELSE "STALE"
<1>1. new \in Loader BY ZeroType, LargestType, RequestsCounted
<1>2. f \in [S -> Loader] BY <1>1, RowElim
<1>3. Processed(x, l, n) = [status |-> s, loaders |-> f] BY DEF Processed
<1>4. s \in Statuses BY DEF Statuses
<1>5. ASSUME NEW j \in S PROVE f[j].total + k >= 0
  <2>1. CASE j = l BY <2>1, <1>2, RowElim, LargestType
  <2>2. CASE j # l BY <2>2, <1>2, RowElim DEF AtLeast
  <2> QED BY <2>1, <2>2
<1> HIDE DEF f, s
<1>6. Processed(x, l, n) \in Rows BY <1>2, <1>3, <1>4, RowElim, RowIntro
<1>7. Processed(x, l, n).loaders = f /\ DOMAIN f = S BY <1>3, <1>2
<1>8. AtLeast(Processed(x, l, n), k) BY <1>5, <1>7 DEF AtLeast
<1> QED BY <1>6, <1>7, <1>8

LEMMA ConfiguredType ==
    ASSUME NEW x \in Rows, NEW k \in Nat, AtLeast(x, k)
    PROVE  /\ Configured(x) \in Rows /\ AtLeast(Configured(x), k)
           /\ DOMAIN Configured(x).loaders = DOMAIN x.loaders
<1> DEFINE s == IF x.status = "UPSERTED" THEN x.status ELSE "SYNC"
<1>1. s \in Statuses BY DEF Statuses
<1>2. Configured(x) = [x EXCEPT !.status = s] BY RowElim DEF Configured
<1> HIDE DEF s
<1> QED BY <1>1, <1>2, StatusType

\* A loader loses a chunk.
LEMMA RecountType ==
    ASSUME NEW x \in Rows, NEW l, NEW k \in Nat, AtLeast(x, k), k + 1 <= Cardinality(Requests)
    PROVE  /\ Recount(x, l) \in Rows /\ AtLeast(Recount(x, l), k + 1)
           /\ DOMAIN Recount(x, l).loaders = DOMAIN x.loaders
<1> DEFINE S == DOMAIN x.loaders
           less == [x.loaders[l] EXCEPT !.total = x.loaders[l].total - 1]
           f == [x.loaders EXCEPT ![l] = less]
<1>1. Recount(x, l) = [status |-> x.status, loaders |-> f] BY RowElim DEF Recount
<1>2. DOMAIN f = S /\ f = [j \in S |-> f[j]] BY RowElim
<1>3. ASSUME NEW j \in S PROVE f[j] \in Loader /\ f[j].total + (k + 1) >= 0
  <2>1. x.loaders[j] \in Loader /\ x.loaders[j].total + k >= 0 BY RowElim DEF AtLeast
  <2>2. /\ x.loaders[j].total \in Int /\ x.loaders[j].total <= Largest
        /\ x.loaders[j].status \in {"SYNCING", "SYNC"}
    BY <2>1, LoaderElim
  <2>3. CASE j = l
    <3>1. f[j] = less BY <2>3
    <3>2. less = [status |-> x.loaders[j].status, total |-> x.loaders[j].total - 1]
      BY <2>1, <2>3 DEF Loader
    <3> HIDE DEF f, less
    <3>3. f[j] \in Loader BY <3>1, <3>2, <2>1, <2>2, ZeroType, LargestType, RequestsCounted
    <3> QED BY <3>1, <3>2, <3>3, <2>1, <2>2
  <2>4. CASE j # l
    <3>1. f[j] = x.loaders[j] BY <2>4
    <3> QED BY <3>1, <2>1, <2>2
  <2> QED BY <2>3, <2>4
<1> HIDE DEF f
<1>4. f \in [S -> Loader] BY <1>2, <1>3
<1>5. Recount(x, l) \in Rows BY <1>1, <1>4, RowElim, RowIntro
<1>6. Recount(x, l).loaders = f BY <1>1
<1>7. AtLeast(Recount(x, l), k + 1) BY <1>2, <1>3, <1>6 DEF AtLeast
<1> QED BY <1>2, <1>5, <1>6, <1>7

\* A loader is struck off the list.
LEMMA UnlistedType ==
    ASSUME NEW x \in Rows, NEW l, NEW k \in Nat, AtLeast(x, k)
    PROVE  LET y == [x EXCEPT !.loaders = [j \in DOMAIN @ \ {l} |-> @[j]]] IN
           y \in Rows /\ AtLeast(y, k) /\ DOMAIN y.loaders = DOMAIN x.loaders \ {l}
<1> DEFINE S == DOMAIN x.loaders \ {l}
           f == [j \in S |-> x.loaders[j]]
           y == [x EXCEPT !.loaders = f]
<1>1. y = [status |-> x.status, loaders |-> f] BY RowElim
<1>2. f \in [S -> Loader] BY RowElim
<1>3. y \in Rows BY <1>1, <1>2, RowElim, RowIntro
<1>4. AtLeast(y, k) BY <1>1 DEF AtLeast
<1> QED BY <1>1, <1>3, <1>4

----------------------------------------------------------------------------
(***************************************************************************)
(* Type correctness                                                        *)
(***************************************************************************)
\* Requests that may have taken a chunk off the totals.
Dropped == {r \in Requests : op[r].pc = "done"}

Drops == Cardinality(Dropped)

\* What makes the type invariant inductive: a request that is about a
\* loader has one; rows are being inserted only while a request waits for
\* them, or after it failed; totals fall by at most one per request.
BusyOp(x) ==
    /\ x.pc \in {"marking", "marked", "splitting", "inserting", "reporting", "clearing",
                 "unlisting", "seeking", "changing", "counting"} => x.doc \in Loaders
    /\ x.pending # {} => x.pc \in {"inserting", "failed"}

StoreInv ==
    /\ StoreTypeOK
    /\ \A r \in Requests : BusyOp(op[r]) /\ AtLeast(op[r].copy, Drops)
    /\ AtLeast(row, Drops)

LEMMA AtLeastMore ==
    ASSUME NEW x \in Rows, NEW k \in Nat, NEW m \in Nat, k <= m, AtLeast(x, k)
    PROVE  AtLeast(x, m)
<1>1. ASSUME NEW l \in DOMAIN x.loaders PROVE x.loaders[l].total + m >= 0
  <2>1. x.loaders[l] \in Loader BY RowElim
  <2>2. x.loaders[l].total \in Int BY <2>1, LoaderElim
  <2>3. x.loaders[l].total + k >= 0 BY DEF AtLeast
  <2> QED BY <2>2, <2>3
<1> QED BY <1>1 DEF AtLeast

LEMMA DropsType == Drops \in Nat /\ Drops <= Cardinality(Requests)
<1>1. Dropped \subseteq Requests BY DEF Dropped
<1> QED BY <1>1, FS_Subset, FS_CardinalityType, StoreAssumption DEF StoreAssumption, Drops

\* What is done stays done.
LEMMA DropsGrow ==
    ASSUME \A r \in Requests : op[r].pc = "done" => op'[r].pc = "done"
    PROVE  Drops \in Nat /\ Drops' \in Nat /\ Drops <= Drops' /\ Drops' <= Cardinality(Requests)
<1>1. Dropped \subseteq Dropped' BY DEF Dropped
<1>2. Dropped' \subseteq Requests BY DEF Dropped
<1>3. IsFiniteSet(Requests) BY StoreAssumption DEF StoreAssumption
<1>4. IsFiniteSet(Dropped') /\ Cardinality(Dropped') <= Cardinality(Requests)
  BY <1>2, <1>3, FS_Subset
<1>5. IsFiniteSet(Dropped) /\ Cardinality(Dropped) <= Cardinality(Dropped')
  BY <1>1, <1>4, FS_Subset
<1> QED BY <1>4, <1>5, FS_CardinalityType DEF Drops

\* What every step has to show.
LEMMA AllTyped ==
    ASSUME StoreInv, setup' = setup,
           row' \in Rows, chunks' \subseteq Chunk, vectors' \subseteq Chunk, issued' \subseteq Loaders,
           budget' \in [faults : 0 .. MaxFaults, crashes : 0 .. MaxCrashes],
           suspect' \subseteq Loaders, overlapped' \in BOOLEAN, refreshed' \in BOOLEAN,
           op' \in [Requests -> Op],
           \A q \in Requests : /\ op[q].pc = "done" => op'[q].pc = "done"
                               /\ BusyOp(op'[q])
                               /\ op'[q].copy = op[q].copy \/ AtLeast(op'[q].copy, Drops'),
           row' = row \/ AtLeast(row', Drops')
    PROVE  StoreInv'
<1>1. StoreTypeOK' BY DEF StoreInv, StoreTypeOK
<1>2. Drops \in Nat /\ Drops' \in Nat /\ Drops <= Drops' BY DropsGrow
<1>3. ASSUME NEW q \in Requests PROVE AtLeast(op'[q].copy, Drops')
  <2>1. CASE op'[q].copy = op[q].copy
    <3>1. op[q].copy \in Rows BY DEF StoreInv, StoreTypeOK, Op
    <3>2. AtLeast(op[q].copy, Drops) BY DEF StoreInv
    <3> QED BY <2>1, <3>1, <3>2, <1>2, AtLeastMore
  <2>2. CASE op'[q].copy # op[q].copy BY <2>2
  <2> QED BY <2>1, <2>2
<1>4. AtLeast(row', Drops')
  <2>1. row \in Rows /\ AtLeast(row, Drops) BY DEF StoreInv, StoreTypeOK
  <2>2. CASE row' = row BY <2>1, <2>2, <1>2, AtLeastMore
  <2>3. CASE row' # row BY <2>3
  <2> QED BY <2>2, <2>3
<1> QED BY <1>1, <1>3, <1>4 DEF StoreInv

\* A step of one request that leaves the others' local state alone.
LEMMA OneTyped ==
    ASSUME StoreInv, setup' = setup, NEW r \in Requests, NEW x \in Op, BusyOp(x),
           op' = [op EXCEPT ![r] = x], op[r].pc # "done",
           x.copy = op[r].copy \/ AtLeast(x.copy, Drops'),
           row' \in Rows, chunks' \subseteq Chunk, vectors' \subseteq Chunk, issued' \subseteq Loaders,
           budget' \in [faults : 0 .. MaxFaults, crashes : 0 .. MaxCrashes],
           suspect' \subseteq Loaders, overlapped' \in BOOLEAN, refreshed' \in BOOLEAN,
           row' = row \/ AtLeast(row', Drops')
    PROVE  StoreInv'
<1>1. op \in [Requests -> Op] BY DEF StoreInv, StoreTypeOK
<1>2. op' \in [Requests -> Op] BY <1>1
<1>3. ASSUME NEW q \in Requests
      PROVE  /\ op[q].pc = "done" => op'[q].pc = "done"
             /\ BusyOp(op'[q])
             /\ op'[q].copy = op[q].copy \/ AtLeast(op'[q].copy, Drops')
  <2>1. CASE q = r BY <2>1, <1>1
  <2>2. CASE q # r
    <3>1. op'[q] = op[q] BY <2>2, <1>1
    <3> QED BY <3>1 DEF StoreInv
  <2> QED BY <2>1, <2>2
<1> QED BY <1>2, <1>3, AllTyped

\* The common case: only the local state changes.
LEMMA LocalTyped ==
    ASSUME StoreInv, NEW r \in Requests, NEW x \in Op, BusyOp(x),
           op' = [op EXCEPT ![r] = x], op[r].pc # "done",
           x.copy = op[r].copy \/ AtLeast(x.copy, Drops'),
           issued' \subseteq Loaders, budget' = budget,
           suspect' \subseteq Loaders, overlapped' \in BOOLEAN, refreshed' \in BOOLEAN,
           UNCHANGED <<setup, row, chunks, vectors>>
    PROVE  StoreInv'
BY OneTyped DEF StoreInv, StoreTypeOK

LEMMA OpType ==
    ASSUME StoreInv, NEW r \in Requests
    PROVE  op[r] \in Op /\ BusyOp(op[r]) /\ row \in Rows /\ AtLeast(row, Drops)
BY DEF StoreInv, StoreTypeOK

LEMMA RestType == Rest \in Op /\ BusyOp(Rest) /\ Rest.copy = Gone
<1>1. 0 \in 0 .. Largest BY LargestType
<1> QED BY <1>1, GoneType DEF Rest, Op, Phases, BusyOp

LEMMA OverType ==
    ASSUME NEW o \in Op, NEW end \in {"done", "failed"}
    PROVE  /\ Over(o, end) \in Op /\ Over(o, end).copy = Gone /\ Over(o, end).pc = end
           /\ Over(o, end).pending = o.pending
           /\ end = "failed" \/ o.pending = {} => BusyOp(Over(o, end))
<1>1. 0 \in 0 .. Largest BY LargestType
<1>2. Over(o, end) = [o EXCEPT !.pc = end, !.copy = Gone, !.docs = {}, !.size = 0, !.left = {}]
  BY DEF Over
<1>3. Over(o, end) \in Op BY <1>1, <1>2, GoneType DEF Op, Phases
<1>4. /\ Over(o, end).copy = Gone /\ Over(o, end).pc = end
      /\ Over(o, end).pending = o.pending
  BY <1>2 DEF Op
<1> QED BY <1>3, <1>4 DEF BusyOp

\* A request that ends.
LEMMA EndsTyped ==
    ASSUME StoreInv, NEW r \in Requests, NEW end \in {"done", "failed"}, EndsAs(r, end),
           op[r].pc # "done", end = "failed" \/ op[r].pending = {}, setup' = setup,
           row' \in Rows, chunks' \subseteq Chunk, vectors' \subseteq Chunk, issued' \subseteq Loaders,
           budget' \in [faults : 0 .. MaxFaults, crashes : 0 .. MaxCrashes],
           suspect' \subseteq Loaders, overlapped' \in BOOLEAN, refreshed' \in BOOLEAN,
           row' = row \/ AtLeast(row', Drops')
    PROVE  StoreInv'
<1> DEFINE x == Over(op[r], end)
<1>1. op' = [op EXCEPT ![r] = x] BY DEF EndsAs
<1>2. x \in Op /\ x.copy = Gone /\ BusyOp(x) BY OpType, OverType
<1>3. AtLeast(x.copy, Drops') BY <1>2, GoneType
<1> HIDE DEF x
<1> QED BY <1>1, <1>2, <1>3, OneTyped

\* A request that ends and changes nothing else.
LEMMA FailsTyped ==
    ASSUME StoreInv, NEW r \in Requests, EndsAs(r, "failed"), op[r].pc # "done",
           UNCHANGED <<setup, row, chunks, vectors, issued, budget>>,
           suspect' \subseteq Loaders, overlapped' \in BOOLEAN, refreshed' \in BOOLEAN
    PROVE  StoreInv'
BY EndsTyped DEF StoreInv, StoreTypeOK

LEMMA EnterTyped ==
    ASSUME StoreInv, NEW r \in Requests, NEW start \in Op, BusyOp(start),
           start.copy \in {row, Gone}, Enter(r, start), issued' \subseteq Loaders
    PROVE  StoreInv'
<1> DEFINE others == {q \in Requests : InFlight(q)}
           next(q) == IF q = r THEN [start EXCEPT !.alone = (others = {})]
                      ELSE IF q \in others THEN [op[q] EXCEPT !.alone = FALSE] ELSE op[q]
<1>1. op' = [q \in Requests |-> next(q)] /\ UNCHANGED <<setup, row, chunks, vectors, budget>>
  BY DEF Enter
<1>2. op[r].pc = "idle" BY DEF Enter
<1>3. suspect' \subseteq Loaders /\ overlapped' \in BOOLEAN /\ refreshed' \in BOOLEAN
  BY DEF Enter, StoreInv, StoreTypeOK
<1>4. setup' = setup /\ \A q \in Requests : op[q].pc = "done" => op'[q].pc = "done"
  <2>1. ASSUME NEW q \in Requests, op[q].pc = "done" PROVE next(q).pc = "done"
    BY <2>1, <1>2, OpType DEF Op
  <2> QED BY <2>1, <1>1
<1>5. Drops \in Nat /\ Drops' \in Nat /\ Drops <= Drops' BY <1>4, DropsGrow
<1>6. ASSUME NEW q \in Requests
      PROVE  /\ next(q) \in Op /\ BusyOp(next(q))
             /\ next(q).copy = op[q].copy \/ AtLeast(next(q).copy, Drops')
  <2>1. CASE q = r
    <3>1. next(q) = [start EXCEPT !.alone = (others = {})] BY <2>1
    <3>2. (others = {}) \in BOOLEAN OBVIOUS
    <3> HIDE DEF others, next
    <3>3. next(q) \in Op /\ next(q).copy = start.copy /\ next(q).pc = start.pc
          /\ next(q).doc = start.doc /\ next(q).pending = start.pending
      BY <3>1, <3>2 DEF Op
    <3>4. BusyOp(next(q)) BY <3>3 DEF BusyOp
    <3>5. AtLeast(row, Drops') BY <1>5, AtLeastMore, OpType
    <3> QED BY <3>3, <3>4, <3>5, GoneType
  <2>2. CASE q # r /\ q \in others
    <3>1. next(q) = [op[q] EXCEPT !.alone = FALSE] BY <2>2
    <3> HIDE DEF others, next
    <3>2. next(q) \in Op /\ next(q).copy = op[q].copy /\ next(q).pc = op[q].pc
          /\ next(q).doc = op[q].doc /\ next(q).pending = op[q].pending
      BY <3>1, OpType DEF Op
    <3> QED BY <3>2, OpType DEF BusyOp
  <2>3. CASE q # r /\ q \notin others
    <3>1. next(q) = op[q] BY <2>3
    <3> HIDE DEF others, next
    <3> QED BY <3>1, OpType
  <2> QED BY <2>1, <2>2, <2>3
<1> HIDE DEF others, next
<1>7. op' \in [Requests -> Op] /\ \A q \in Requests : op'[q] = next(q) BY <1>1, <1>6
<1>8. row \in Rows /\ chunks \subseteq Chunk /\ vectors \subseteq Chunk
      /\ budget \in [faults : 0 .. MaxFaults, crashes : 0 .. MaxCrashes]
  BY DEF StoreInv, StoreTypeOK
<1> QED BY <1>1, <1>3, <1>4, <1>6, <1>7, <1>8, AllTyped

LEMMA ItemsType ==
    ASSUME NEW r \in Requests, Kind(r) \in UpsertKinds, DOMAIN row.loaders \in SUBSET Loaders,
           NEW S \in Items(r)
    PROVE  S \subseteq Loaders \cup {NoLoader}
<1>1. CASE Kind(r) = "upsertNew" BY <1>1 DEF Items
<1>2. CASE Kind(r) = "replace" BY <1>2 DEF Items
<1>3. CASE Kind(r) = "refresh" BY <1>3 DEF Items
<1> QED BY <1>1, <1>2, <1>3 DEF UpsertKinds

LEMMA BeginTyped ==
    ASSUME StoreInv, NEW r \in Requests, Begin(r)
    PROVE  StoreInv'
<1>1. Rest \in Op /\ Rest.pending = {} BY RestType DEF Rest
<1>2. row \in Rows /\ DOMAIN row.loaders \in SUBSET Loaders BY OpType, RowElim
<1>3. chunks \subseteq Chunk /\ issued \subseteq Loaders BY DEF StoreInv, StoreTypeOK
<1>4. CASE BeginUpload(r)
  <2>1. PICK l \in Loaders :
           /\ Enter(r, [Rest EXCEPT !.pc = "marking", !.doc = l, !.items = {l}, !.copy = row])
           /\ issued' = issued \cup {l}
    BY <1>2, <1>4 DEF BeginUpload, Fresh
  <2> DEFINE x == [Rest EXCEPT !.pc = "marking", !.doc = l, !.items = {l}, !.copy = row]
  <2>2. x \in Op /\ x.pending = {} /\ x.doc = l /\ x.copy = row BY <1>1, <1>2 DEF Op, Phases
  <2>3. BusyOp(x) BY <2>2 DEF BusyOp
  <2> HIDE DEF x
  <2> QED BY <2>1, <2>2, <2>3, <1>3, EnterTyped DEF x
<1>5. CASE BeginUpsert(r)
  <2>1. PICK S \in Items(r) : Enter(r, [Rest EXCEPT !.pc = "item", !.items = S, !.left = S])
    BY <1>5 DEF BeginUpsert
  <2>2. Kind(r) \in UpsertKinds BY <1>5 DEF BeginUpsert
  <2>3. S \subseteq Loaders \cup {NoLoader} BY <1>2, <2>2, ItemsType
  <2> DEFINE x == [Rest EXCEPT !.pc = "item", !.items = S, !.left = S]
  <2>4. x \in Op /\ x.pending = {} /\ x.copy = Gone /\ x.pc = "item"
    BY <1>1, <2>3, RestType DEF Op, Phases
  <2>5. BusyOp(x) BY <2>4 DEF BusyOp
  <2>6. issued' \subseteq Loaders BY <1>3, <1>5 DEF BeginUpsert
  <2> HIDE DEF x
  <2> QED BY <2>1, <2>4, <2>5, <2>6, EnterTyped DEF x
<1>6. CASE BeginInsert(r)
  <2> DEFINE x == [Rest EXCEPT !.pc = "configuring"]
  <2>1. x \in Op /\ x.pending = {} /\ x.copy = Gone /\ x.pc = "configuring"
    BY <1>1, RestType DEF Op, Phases
  <2>2. BusyOp(x) BY <2>1 DEF BusyOp
  <2>3. Enter(r, x) /\ issued' \subseteq Loaders BY <1>3, <1>6 DEF BeginInsert
  <2> HIDE DEF x
  <2> QED BY <2>1, <2>2, <2>3, EnterTyped
<1>7. CASE BeginUnlist(r)
  <2>1. PICK l \in Loaders :
           Enter(r, [Rest EXCEPT !.pc = "clearing", !.doc = l, !.copy = row])
    BY <1>2, <1>7 DEF BeginUnlist
  <2> DEFINE x == [Rest EXCEPT !.pc = "clearing", !.doc = l, !.copy = row]
  <2>2. x \in Op /\ x.pending = {} /\ x.copy = row /\ x.pc = "clearing" /\ x.doc = l
    BY <1>1, <1>2 DEF Op, Phases
  <2>3. BusyOp(x) BY <2>2 DEF BusyOp
  <2>4. issued' \subseteq Loaders BY <1>3, <1>7 DEF BeginUnlist
  <2> HIDE DEF x
  <2> QED BY <2>1, <2>2, <2>3, <2>4, EnterTyped DEF x
<1>8. CASE BeginChunk(r)
  <2>1. PICK c \in chunks :
           Enter(r, [Rest EXCEPT !.pc = "seeking", !.doc = c.doc, !.docs = {c}, !.copy = row])
    BY <1>8 DEF BeginChunk
  <2>2. c \in Chunk /\ c.doc \in Loaders BY <1>3 DEF Chunk
  <2> DEFINE x == [Rest EXCEPT !.pc = "seeking", !.doc = c.doc, !.docs = {c}, !.copy = row]
  <2>3. x \in Op /\ x.pending = {} /\ x.copy = row /\ x.pc = "seeking" /\ x.doc = c.doc
    BY <1>1, <1>2, <2>2 DEF Op, Phases
  <2>4. BusyOp(x) BY <2>2, <2>3 DEF BusyOp
  <2>5. issued' \subseteq Loaders BY <1>3, <1>8 DEF BeginChunk
  <2> HIDE DEF x
  <2> QED BY <2>1, <2>3, <2>4, <2>5, EnterTyped DEF x
<1>9. CASE BeginDelete(r)
  <2> DEFINE x == [Rest EXCEPT !.pc = "erasing"]
  <2>1. x \in Op /\ x.pending = {} /\ x.copy = Gone /\ x.pc = "erasing"
    BY <1>1, RestType DEF Op, Phases
  <2>2. BusyOp(x) BY <2>1 DEF BusyOp
  <2>3. Enter(r, x) /\ issued' \subseteq Loaders BY <1>3, <1>9 DEF BeginDelete
  <2> HIDE DEF x
  <2> QED BY <2>1, <2>2, <2>3, EnterTyped
<1>10. CASE BeginTouch(r)
  <2> DEFINE x == [Rest EXCEPT !.pc = "touching", !.copy = row]
  <2>1. x \in Op /\ x.pending = {} /\ x.copy = row /\ x.pc = "touching"
    BY <1>1, <1>2 DEF Op, Phases
  <2>2. BusyOp(x) BY <2>1 DEF BusyOp
  <2>3. Enter(r, x) /\ issued' \subseteq Loaders BY <1>3, <1>10 DEF BeginTouch
  <2> HIDE DEF x
  <2> QED BY <2>1, <2>2, <2>3, EnterTyped
<1>11. CASE BeginUnindex(r)
  <2>1. PICK l \in Loaders \cup {NoLoader} :
           Enter(r, [Rest EXCEPT !.pc = "unindexing", !.doc = l, !.copy = row])
    BY <1>2, <1>11 DEF BeginUnindex
  <2> DEFINE x == [Rest EXCEPT !.pc = "unindexing", !.doc = l, !.copy = row]
  <2>2. x \in Op /\ x.pending = {} /\ x.copy = row /\ x.pc = "unindexing"
    BY <1>1, <1>2, RestType DEF Op, Phases
  <2>3. BusyOp(x) BY <2>2 DEF BusyOp
  <2>4. issued' \subseteq Loaders BY <1>3, <1>11 DEF BeginUnindex
  <2> HIDE DEF x
  <2> QED BY <2>1, <2>2, <2>3, <2>4, EnterTyped DEF x
<1> QED BY <1>4, <1>5, <1>6, <1>7, <1>8, <1>9, <1>10, <1>11 DEF Begin

----------------------------------------------------------------------------
\* Going on to another phase keeps the rest of the local state.
LEMMA GotoType ==
    ASSUME NEW o \in Op, NEW pc \in Phases
    PROVE  LET x == [o EXCEPT !.pc = pc] IN
           /\ x \in Op /\ x.pc = pc /\ x.doc = o.doc /\ x.copy = o.copy /\ x.pending = o.pending
BY DEF Op

LEMMA GotoTyped ==
    ASSUME StoreInv, NEW r \in Requests, NEW pc \in Phases, Goto(r, pc), op[r].pc # "done",
           BusyOp([op[r] EXCEPT !.pc = pc]), setup' = setup,
           row' \in Rows, chunks' \subseteq Chunk, vectors' \subseteq Chunk, issued' \subseteq Loaders,
           budget' = budget,
           suspect' \subseteq Loaders, overlapped' \in BOOLEAN, refreshed' \in BOOLEAN,
           row' = row \/ AtLeast(row', Drops')
    PROVE  StoreInv'
<1> DEFINE x == [op[r] EXCEPT !.pc = pc]
<1>1. op' = [op EXCEPT ![r] = x] BY DEF Goto
<1>2. x \in Op /\ x.copy = op[r].copy BY OpType, GotoType
<1>3. budget' \in [faults : 0 .. MaxFaults, crashes : 0 .. MaxCrashes] BY DEF StoreInv, StoreTypeOK
<1> HIDE DEF x
<1> QED BY <1>1, <1>2, <1>3, OneTyped DEF x

\* A copy of the row is kept.
LEMMA FindTyped ==
    ASSUME StoreInv, NEW r \in Requests, NEW pc \in Phases, Find(r, pc), op[r].pc # "done",
           BusyOp([op[r] EXCEPT !.pc = pc]), pc # "done",
           UNCHANGED <<setup, row, chunks, vectors, issued, budget, history>>
    PROVE  StoreInv'
<1> DEFINE x == [op[r] EXCEPT !.copy = row, !.pc = pc]
<1>1. op' = [op EXCEPT ![r] = x] BY DEF Find
<1>2. x \in Op /\ x.copy = row /\ x.pc = pc /\ x.doc = op[r].doc /\ x.pending = op[r].pending
  BY OpType DEF Op
<1>3. [op[r] EXCEPT !.pc = pc].doc = op[r].doc /\ [op[r] EXCEPT !.pc = pc].pc = pc
      /\ [op[r] EXCEPT !.pc = pc].pending = op[r].pending
  BY OpType, GotoType
<1>4. BusyOp(x) BY <1>2, <1>3 DEF BusyOp
<1>5. \A q \in Requests : op[q].pc = "done" => op'[q].pc = "done"
  <2>1. op \in [Requests -> Op] BY DEF StoreInv, StoreTypeOK
  <2> HIDE DEF x
  <2> QED BY <1>1, <2>1
<1>6. AtLeast(row, Drops') BY <1>5, DropsGrow, AtLeastMore, OpType
<1>7. issued' \subseteq Loaders /\ suspect' \subseteq Loaders /\ overlapped' \in BOOLEAN
      /\ refreshed' \in BOOLEAN
  BY DEF history, StoreInv, StoreTypeOK
<1> HIDE DEF x
<1> QED BY <1>1, <1>2, <1>4, <1>6, <1>7, LocalTyped

\* What was said of a copy and of the row is true after the step as well.
LEMMA CopyStill ==
    ASSUME StoreInv, NEW r \in Requests,
           \A q \in Requests : op[q].pc = "done" => op'[q].pc = "done"
    PROVE  Drops' \in Nat /\ AtLeast(op[r].copy, Drops') /\ AtLeast(row, Drops')
<1>1. op[r].copy \in Rows /\ AtLeast(op[r].copy, Drops) /\ row \in Rows /\ AtLeast(row, Drops)
  BY DEF StoreInv, StoreTypeOK, Op
<1> QED BY <1>1, DropsGrow, AtLeastMore

LEMMA DoneStays ==
    ASSUME StoreInv, NEW r \in Requests, op[r].pc # "done", NEW x, op' = [op EXCEPT ![r] = x]
    PROVE  \A q \in Requests : op[q].pc = "done" => op'[q].pc = "done"
<1>1. op \in [Requests -> Op] BY DEF StoreInv, StoreTypeOK
<1> QED BY <1>1

LEMMA StillTyped ==
    ASSUME StoreInv
    PROVE  /\ row \in Rows /\ chunks \subseteq Chunk /\ vectors \subseteq Chunk /\ issued \subseteq Loaders
           /\ suspect \subseteq Loaders /\ overlapped \in BOOLEAN /\ refreshed \in BOOLEAN
           /\ budget \in [faults : 0 .. MaxFaults, crashes : 0 .. MaxCrashes]
BY DEF StoreInv, StoreTypeOK

----------------------------------------------------------------------------
LEMMA MarkTyped ==
    ASSUME StoreInv, NEW r \in Requests, Mark(r)
    PROVE  StoreInv'
<1>1. op[r].pc = "marking" /\ op[r].doc \in Loaders BY OpType DEF Mark, At, BusyOp
<1>2. Goto(r, "marked") /\ row' = Marking(op[r].copy, op[r].doc)
      /\ UNCHANGED <<setup, chunks, vectors, issued, budget, suspect, overlapped, refreshed>>
  BY DEF Mark, history
<1>3. Drops' \in Nat /\ AtLeast(op[r].copy, Drops')
  BY <1>1, <1>2, CopyStill, DoneStays DEF Goto
<1>4. op[r].copy \in Rows BY OpType DEF Op
<1>5. row' \in Rows /\ AtLeast(row', Drops') BY <1>1, <1>2, <1>3, <1>4, MarkingType
<1>6. "marked" \in Phases BY DEF Phases
<1>7. BusyOp([op[r] EXCEPT !.pc = "marked"])
  BY <1>1, <1>6, OpType, GotoType DEF BusyOp
<1> QED BY <1>1, <1>2, <1>5, <1>6, <1>7, StillTyped, GotoTyped

LEMMA FindToProcessTyped ==
    ASSUME StoreInv, NEW r \in Requests, FindToProcess(r)
    PROVE  StoreInv'
<1>1. op[r].pc = "marked" /\ Find(r, "splitting") BY DEF FindToProcess, At
<1>2. "splitting" \in Phases BY DEF Phases
<1>3. BusyOp([op[r] EXCEPT !.pc = "splitting"])
  BY <1>1, <1>2, OpType, GotoType DEF BusyOp
<1> QED BY <1>1, <1>2, <1>3, FindTyped DEF FindToProcess

LEMMA SplitTyped ==
    ASSUME StoreInv, NEW r \in Requests, Split(r)
    PROVE  StoreInv'
<1>1. op[r].pc = "splitting" /\ op[r].doc \in Loaders BY OpType DEF Split, At, BusyOp
<1>2. PICK n \in Splits :
        op' = [op EXCEPT ![r].pc = "inserting", ![r].size = n,
                         ![r].pending = [doc : {op[r].doc}, by : {r}, no : 1 .. n, edited : {FALSE}]]
  BY DEF Split
<1> DEFINE new == [doc : {op[r].doc}, by : {r}, no : 1 .. n, edited : {FALSE}]
           x == [op[r] EXCEPT !.pc = "inserting", !.size = n, !.pending = new]
<1>3. op' = [op EXCEPT ![r] = x] BY <1>2
<1>4. n \in Nat /\ n <= Largest /\ Largest \in Nat BY LargestType
<1>5. 1 .. n \subseteq 1 .. Largest /\ n \in 0 .. Largest BY <1>4
<1>6. new \subseteq Chunk BY <1>1, <1>5 DEF Chunk
<1> HIDE DEF new
<1>7. x \in Op /\ x.copy = op[r].copy /\ x.pc = "inserting" /\ x.doc = op[r].doc
  BY <1>5, <1>6, OpType DEF Op, Phases
<1>8. BusyOp(x) BY <1>1, <1>7 DEF BusyOp
<1>9. chunks' \subseteq Chunk /\ UNCHANGED <<setup, row, vectors, issued, budget, suspect, overlapped, refreshed>>
  BY StillTyped DEF Split, history
<1> HIDE DEF x
<1> QED BY <1>1, <1>3, <1>7, <1>8, <1>9, StillTyped, OneTyped

LEMMA InsertChunkTyped ==
    ASSUME StoreInv, NEW r \in Requests, InsertChunk(r)
    PROVE  StoreInv'
<1>1. PICK c \in op[r].pending : /\ chunks' = chunks \cup {c}
                                 /\ op' = [op EXCEPT ![r].pending = @ \ {c}]
  BY DEF InsertChunk
<1> DEFINE x == [op[r] EXCEPT !.pending = @ \ {c}]
<1>2. op' = [op EXCEPT ![r] = x] BY <1>1
<1>3. op[r].pending \subseteq Chunk /\ op[r].pc # "done" BY OpType DEF Op, BusyOp
<1>4. x \in Op /\ x.copy = op[r].copy /\ x.pc = op[r].pc /\ x.doc = op[r].doc
      /\ x.pending \subseteq op[r].pending
  BY OpType DEF Op
<1>5. BusyOp(x) BY <1>4, OpType DEF BusyOp
<1>6. chunks' \subseteq Chunk BY <1>1, <1>3, StillTyped
<1>7. UNCHANGED <<setup, row, vectors, issued, budget, suspect, overlapped, refreshed>>
  BY DEF InsertChunk, history
<1> HIDE DEF x
<1> QED BY <1>2, <1>3, <1>4, <1>5, <1>6, <1>7, StillTyped, OneTyped

LEMMA FinishProcessingTyped ==
    ASSUME StoreInv, NEW r \in Requests, FinishProcessing(r)
    PROVE  StoreInv'
<1>1. /\ op[r].pc = "inserting" /\ op[r].pending = {}
      /\ UNCHANGED <<setup, chunks, vectors, issued, budget, overlapped, refreshed>>
  BY DEF FinishProcessing, At
<1>2. CASE Listed(op[r].copy, op[r].doc)
  <2> DEFINE x == [op[r] EXCEPT !.pc = "reporting", !.copy = Gone, !.size = 0]
  <2>1. /\ row' = Processed(op[r].copy, op[r].doc, op[r].size)
        /\ op' = [op EXCEPT ![r].pc = "reporting", ![r].copy = Gone, ![r].size = 0]
        /\ Clears(r, op[r].doc)
    BY <1>2 DEF FinishProcessing
  <2>2. op' = [op EXCEPT ![r] = x] BY <2>1
  <2>3. x \in Op /\ x.copy = Gone /\ x.pc = "reporting" /\ x.doc = op[r].doc /\ x.pending = {}
    <3>1. 0 \in 0 .. Largest /\ Gone \in Rows BY LargestType, GoneType
    <3>2. op[r] \in Op BY OpType
    <3> QED BY <1>1, <3>1, <3>2 DEF Op, Phases
  <2>4. BusyOp(x) BY <1>1, <2>3, OpType DEF BusyOp
  <2>5. Drops' \in Nat /\ AtLeast(op[r].copy, Drops') BY <1>1, <2>2, CopyStill, DoneStays
  <2>6. op[r].copy \in Rows /\ op[r].size \in 0 .. Largest /\ op[r].doc \in DOMAIN op[r].copy.loaders
    BY <1>2, OpType DEF Op, Listed
  <2>7. row' \in Rows /\ AtLeast(row', Drops') BY <2>1, <2>5, <2>6, ProcessedType
  <2>8. suspect' \subseteq Loaders BY <2>1, StillTyped DEF Clears
  <2> HIDE DEF x
  <2> QED BY <1>1, <2>2, <2>3, <2>4, <2>7, <2>8, GoneType, StillTyped, OneTyped
<1>3. CASE ~Listed(op[r].copy, op[r].doc)
  <2>1. EndsAs(r, "failed") /\ UNCHANGED <<row, suspect>> BY <1>3 DEF FinishProcessing
  <2> QED BY <1>1, <2>1, StillTyped, FailsTyped
<1> QED BY <1>2, <1>3

LEMMA ReportTyped ==
    ASSUME StoreInv, NEW r \in Requests, Report(r)
    PROVE  StoreInv'
<1>1. /\ op[r].pc = "reporting"
      /\ UNCHANGED <<setup, row, chunks, vectors, issued, budget, suspect, overlapped, refreshed>>
  BY DEF Report, At, history
<1>2. op[r].pending = {} BY <1>1, OpType DEF BusyOp
<1>3. CASE EndsAs(r, "failed") BY <1>1, <1>3, StillTyped, FailsTyped
<1>4. CASE EndsAs(r, "done") BY <1>1, <1>2, <1>4, StillTyped, EndsTyped
<1>5. CASE Goto(r, "configuring")
  <2>1. "configuring" \in Phases BY DEF Phases
  <2>2. BusyOp([op[r] EXCEPT !.pc = "configuring"])
    BY <1>2, <2>1, OpType, GotoType DEF BusyOp
  <2> QED BY <1>1, <1>5, <2>1, <2>2, StillTyped, GotoTyped
<1> QED BY <1>3, <1>4, <1>5 DEF Report

----------------------------------------------------------------------------
LEMMA NoItemTyped ==
    ASSUME StoreInv, NEW r \in Requests, NoItem(r)
    PROVE  StoreInv'
<1>1. /\ op[r].pc = "item" /\ EndsAs(r, "done") /\ refreshed' \in BOOLEAN
      /\ UNCHANGED <<setup, row, chunks, vectors, issued, budget, suspect, overlapped>>
  BY OpType DEF NoItem, At, Complete, Op
<1>2. op[r].pending = {} BY <1>1, OpType DEF BusyOp
<1> QED BY <1>1, <1>2, StillTyped, EndsTyped

LEMMA TakeItemTyped ==
    ASSUME StoreInv, NEW r \in Requests, TakeItem(r)
    PROVE  StoreInv'
<1>1. /\ op[r].pc = "item"
      /\ UNCHANGED <<setup, row, chunks, vectors, issued, budget, suspect, overlapped, refreshed>>
  BY DEF TakeItem, At, history
<1>2. CASE EndsAs(r, "failed") BY <1>1, <1>2, StillTyped, FailsTyped
<1>3. CASE ~EndsAs(r, "failed")
  <2>1. PICK l \in op[r].left :
           op' = [op EXCEPT ![r].pc = "found", ![r].doc = l, ![r].left = @ \ {l}]
    BY <1>3 DEF TakeItem
  <2> DEFINE x == [op[r] EXCEPT !.pc = "found", !.doc = l, !.left = @ \ {l}]
  <2>2. op' = [op EXCEPT ![r] = x] BY <2>1
  <2>3. op[r] \in Op /\ op[r].pending = {} BY <1>1, OpType DEF BusyOp
  <2>4. x \in Op /\ x.copy = op[r].copy /\ x.pc = "found" /\ x.pending = {}
    BY <2>3 DEF Op, Phases
  <2>5. BusyOp(x) BY <2>4 DEF BusyOp
  <2> HIDE DEF x
  <2> QED BY <1>1, <2>2, <2>4, <2>5, StillTyped, LocalTyped
<1> QED BY <1>2, <1>3

LEMMA FindToMarkTyped ==
    ASSUME StoreInv, NEW r \in Requests, FindToMark(r)
    PROVE  StoreInv'
<1>1. /\ op[r].pc = "found"
      /\ UNCHANGED <<setup, row, chunks, vectors, budget, suspect, overlapped, refreshed>>
  BY DEF FindToMark, At, history
<1>2. PICK l \in Target(op[r].doc) :
         /\ op' = [op EXCEPT ![r].pc = "marking", ![r].doc = l, ![r].copy = row]
         /\ issued' = issued \cup {l}
  BY DEF FindToMark
<1>3. op[r] \in Op /\ op[r].pending = {} BY <1>1, OpType DEF BusyOp
<1>4. l \in Loaders
  <2>1. op[r].doc \in Loaders \cup {NoLoader} BY <1>3 DEF Op
  <2> QED BY <2>1 DEF Target, Fresh
<1> DEFINE x == [op[r] EXCEPT !.pc = "marking", !.doc = l, !.copy = row]
<1>5. op' = [op EXCEPT ![r] = x] BY <1>2
<1>6. x \in Op /\ x.copy = row /\ x.pc = "marking" /\ x.pending = {} /\ x.doc = l
  <2>1. row \in Rows BY OpType
  <2> QED BY <1>3, <1>4, <2>1 DEF Op, Phases
<1>7. BusyOp(x) BY <1>4, <1>6 DEF BusyOp
<1> HIDE DEF x
<1>8. AtLeast(row, Drops') BY <1>1, <1>5, CopyStill, DoneStays
<1>9. issued' \subseteq Loaders BY <1>2, <1>4, StillTyped
<1> QED BY <1>1, <1>5, <1>6, <1>7, <1>8, <1>9, StillTyped, LocalTyped

LEMMA FindToConfigureTyped ==
    ASSUME StoreInv, NEW r \in Requests, FindToConfigure(r)
    PROVE  StoreInv'
<1>1. op[r].pc = "configuring" /\ Find(r, "saving") BY DEF FindToConfigure, At
<1>2. "saving" \in Phases BY DEF Phases
<1>3. BusyOp([op[r] EXCEPT !.pc = "saving"])
  BY <1>1, <1>2, OpType, GotoType DEF BusyOp
<1> QED BY <1>1, <1>2, <1>3, FindTyped DEF FindToConfigure

LEMMA SaveConfigTyped ==
    ASSUME StoreInv, NEW r \in Requests, SaveConfig(r)
    PROVE  StoreInv'
<1>1. /\ op[r].pc = "saving" /\ row' = Configured(op[r].copy)
      /\ EndsAs(r, "done") \/ Goto(r, "upserting")
      /\ UNCHANGED <<setup, chunks, vectors, issued, budget, suspect, overlapped, refreshed>>
  BY DEF SaveConfig, At, history
<1>2. op[r].copy \in Rows /\ op[r].pending = {} BY <1>1, OpType DEF Op, BusyOp
<1>3. Drops' \in Nat /\ AtLeast(op[r].copy, Drops')
  BY <1>1, CopyStill, DoneStays DEF EndsAs, Goto
<1>4. row' \in Rows /\ AtLeast(row', Drops') BY <1>1, <1>2, <1>3, ConfiguredType
<1>5. CASE EndsAs(r, "done") BY <1>1, <1>2, <1>4, <1>5, StillTyped, EndsTyped
<1>6. CASE Goto(r, "upserting")
  <2>1. "upserting" \in Phases BY DEF Phases
  <2>2. BusyOp([op[r] EXCEPT !.pc = "upserting"])
    BY <1>2, <2>1, OpType, GotoType DEF BusyOp
  <2> QED BY <1>1, <1>4, <1>6, <2>1, <2>2, StillTyped, GotoTyped
<1> QED BY <1>1, <1>5, <1>6

LEMMA SaveUpsertingTyped ==
    ASSUME StoreInv, NEW r \in Requests, SaveUpserting(r)
    PROVE  StoreInv'
<1>1. /\ op[r].pc = "upserting" /\ row' = [op[r].copy EXCEPT !.status = "UPSERTING"]
      /\ Goto(r, "loading")
      /\ UNCHANGED <<setup, chunks, vectors, issued, budget, suspect, overlapped, refreshed>>
  BY DEF SaveUpserting, At, history
<1>2. op[r].copy \in Rows /\ op[r].pending = {} BY <1>1, OpType DEF Op, BusyOp
<1>3. Drops' \in Nat /\ AtLeast(op[r].copy, Drops') BY <1>1, CopyStill, DoneStays DEF Goto
<1>4. "UPSERTING" \in Statuses BY DEF Statuses
<1>5. row' \in Rows /\ AtLeast(row', Drops') BY <1>1, <1>2, <1>3, <1>4, StatusType
<1>6. "loading" \in Phases BY DEF Phases
<1>7. BusyOp([op[r] EXCEPT !.pc = "loading"])
  BY <1>2, <1>6, OpType, GotoType DEF BusyOp
<1> QED BY <1>1, <1>5, <1>6, <1>7, StillTyped, GotoTyped

LEMMA FindToUpsertTyped ==
    ASSUME StoreInv, NEW r \in Requests, FindToUpsert(r)
    PROVE  StoreInv'
<1>1. op[r].pc = "loading" /\ Find(r, "reading") BY DEF FindToUpsert, At
<1>2. "reading" \in Phases BY DEF Phases
<1>3. BusyOp([op[r] EXCEPT !.pc = "reading"])
  BY <1>1, <1>2, OpType, GotoType DEF BusyOp
<1> QED BY <1>1, <1>2, <1>3, FindTyped DEF FindToUpsert

LEMMA KeysType ==
    ASSUME NEW S \in SUBSET Chunk
    PROVE  Keys(S) \subseteq Chunk
<1>1. ASSUME NEW c \in Chunk PROVE Key(c) \in Chunk
  <2>1. [c EXCEPT !.by = NoRequest] \in Chunk BY DEF Chunk
  <2> QED BY <2>1 DEF Key
<1> QED BY <1>1 DEF Keys

\* The phases of indexing, and of deleting from the vector store.
IndexPhases == {"sending", "adding", "recording", "listing", "pruning", "forgetting"}

Indexing(r) ==
    \/ ReadChunks(r) \/ LookUp(r) \/ AddDocuments(r) \/ Record(r) \/ List(r) \/ Prune(r)
    \/ Unindex(r) \/ (Forget(r) /\ Kind(r) # "unindex")

After(pc) ==
    CASE pc = "reading" -> {"sending", "adding"}
      [] pc = "sending" -> {"adding"}
      [] pc = "adding" -> {"recording", "finishing"}
      [] pc = "recording" -> {"listing"}
      [] pc = "listing" -> {"pruning", "finishing"}
      [] pc = "unindexing" -> {"pruning"}
      [] pc = "pruning" -> {"forgetting"}
      [] OTHER -> {"finishing"}

\* They change what the request is about to send, and nothing of the store but its
\* vectors and records.
LEMMA IndexingStep ==
    ASSUME StoreInv, NEW r \in Requests, Indexing(r)
    PROVE  \E pc \in IndexPhases \cup {"finishing"} : \E docs :
              /\ op' = [op EXCEPT ![r] = [op[r] EXCEPT !.pc = pc, !.docs = docs]]
              /\ docs \in {op[r].docs, op'[r].docs}
              /\ op[r].pc \in IndexPhases \cup {"reading", "unindexing"}
              /\ pc \in After(op[r].pc)
              /\ op[r].pc = "forgetting" => Kind(r) # "unindex"
              /\ UNCHANGED <<setup, row, chunks, issued, budget, suspect, overlapped, refreshed>>
<1>1. op[r] \in Op /\ op \in [Requests -> Op] BY OpType DEF StoreInv, StoreTypeOK
<1>2. ASSUME NEW pc, Goto(r, pc)
      PROVE  op' = [op EXCEPT ![r] = [op[r] EXCEPT !.pc = pc, !.docs = op[r].docs]]
  <2>1. [op[r] EXCEPT !.pc = pc] = [op[r] EXCEPT !.pc = pc, !.docs = op[r].docs]
    BY <1>1 DEF Op
  <2> QED BY <1>2, <2>1 DEF Goto
<1>3. ASSUME NEW pc, NEW docs, op' = [op EXCEPT ![r].pc = pc, ![r].docs = docs]
      PROVE  /\ op' = [op EXCEPT ![r] = [op[r] EXCEPT !.pc = pc, !.docs = docs]]
             /\ docs = op'[r].docs
  <2>1. op' = [op EXCEPT ![r] = [op[r] EXCEPT !.pc = pc, !.docs = docs]] BY <1>3
  <2>2. op'[r] = [op[r] EXCEPT !.pc = pc, !.docs = docs] BY <1>1, <2>1
  <2> QED BY <1>1, <2>1, <2>2 DEF Op
<1>4. CASE ReadChunks(r)
  <2> DEFINE pc == IF Managed THEN "sending" ELSE "adding"
             docs == Keys(IF op[r].doc = NoLoader THEN chunks ELSE ChunksOf(op[r].doc))
  <2>1. /\ op[r].pc = "reading" /\ op' = [op EXCEPT ![r].pc = pc, ![r].docs = docs]
        /\ UNCHANGED <<setup, row, chunks, issued, budget, suspect, overlapped, refreshed>>
    BY <1>4 DEF ReadChunks, At, history
  <2>2. pc \in {"sending", "adding"} OBVIOUS
  <2> HIDE DEF pc, docs
  <2> QED BY <1>3, <2>1, <2>2 DEF IndexPhases, After
<1>5. CASE LookUp(r)
  BY <1>2, <1>5 DEF LookUp, At, history, IndexPhases, After
<1>6. CASE AddDocuments(r)
  <2> DEFINE pc == IF Managed THEN "recording" ELSE "finishing"
  <2>1. /\ op[r].pc = "adding" /\ Goto(r, pc)
        /\ UNCHANGED <<setup, row, chunks, issued, budget, suspect, overlapped, refreshed>>
    BY <1>6 DEF AddDocuments, At, history
  <2>2. pc \in {"recording", "finishing"} OBVIOUS
  <2> HIDE DEF pc
  <2> QED BY <1>2, <2>1, <2>2 DEF IndexPhases, After
<1>7. CASE Record(r)
  BY <1>2, <1>7 DEF Record, At, history, IndexPhases, After
<1>8. CASE List(r)
  <2> DEFINE pc == IF session[r].older \cap records = {} THEN "finishing" ELSE "pruning"
             docs == session[r].older \cap records
  <2>1. op' = [op EXCEPT ![r].pc = pc, ![r].docs = docs]
    <3>1. op' = [op EXCEPT ![r].docs = docs, ![r].pc = pc] BY <1>8 DEF List
    <3>2. [op[r] EXCEPT !.docs = docs, !.pc = pc] = [op[r] EXCEPT !.pc = pc, !.docs = docs]
      BY <1>1 DEF Op
    <3> QED BY <3>1, <3>2
  <2>2. pc \in {"finishing", "pruning"} OBVIOUS
  <2>3. /\ op[r].pc = "listing"
        /\ UNCHANGED <<setup, row, chunks, issued, budget, suspect, overlapped, refreshed>>
    BY <1>8 DEF List, At, history
  <2> HIDE DEF pc, docs
  <2> QED BY <1>3, <2>1, <2>2, <2>3 DEF IndexPhases, After
<1>9. CASE Prune(r)
  BY <1>2, <1>9 DEF Prune, At, history, IndexPhases, After
<1>10. CASE Unindex(r)
  BY <1>3, <1>10 DEF Unindex, At, history, IndexPhases, After
<1>11. CASE Forget(r) /\ Kind(r) # "unindex"
  BY <1>2, <1>11 DEF Forget, At, history, IndexPhases, After
<1> QED BY <1>4, <1>5, <1>6, <1>7, <1>8, <1>9, <1>10, <1>11 DEF Indexing

LEMMA DocsTyped ==
    ASSUME StoreInv, IndexTypeOK, NEW r \in Requests, Indexing(r)
    PROVE  op'[r].docs \subseteq Chunk /\ vectors' \subseteq Chunk
<1>1. /\ op[r] \in Op /\ op \in [Requests -> Op] /\ op[r].docs \subseteq Chunk
      /\ chunks \subseteq Chunk /\ vectors \subseteq Chunk
  BY OpType DEF StoreInv, StoreTypeOK, Op
<1>2. /\ records \subseteq Chunk /\ session[r].known \subseteq Chunk
      /\ session[r].older \subseteq Chunk
  BY DEF IndexTypeOK
<1>3. ASSUME NEW pc, Goto(r, pc) PROVE op'[r].docs = op[r].docs
  BY <1>1, <1>3 DEF Goto, Op
<1>4. ASSUME NEW pc, NEW docs, op' = [op EXCEPT ![r].pc = pc, ![r].docs = docs]
      PROVE  op'[r].docs = docs
  BY <1>1, <1>4 DEF Op
<1>5. CASE ReadChunks(r)
  <2> DEFINE read == IF op[r].doc = NoLoader THEN chunks ELSE ChunksOf(op[r].doc)
  <2>1. read \subseteq Chunk BY <1>1 DEF ChunksOf
  <2>2. Keys(read) \subseteq Chunk BY <2>1, KeysType
  <2> QED BY <1>1, <1>4, <1>5, <2>2 DEF ReadChunks
<1>6. CASE LookUp(r) BY <1>1, <1>3, <1>6 DEF LookUp
<1>7. CASE AddDocuments(r) BY <1>1, <1>3, <1>7 DEF AddDocuments
<1>8. CASE Record(r) BY <1>1, <1>3, <1>8 DEF Record
<1>9. CASE List(r) BY <1>1, <1>2, <1>9 DEF List, Op
<1>10. CASE Prune(r) BY <1>1, <1>3, <1>10 DEF Prune
<1>11. CASE Unindex(r) BY <1>1, <1>2, <1>4, <1>11 DEF Unindex
<1>12. CASE Forget(r) /\ Kind(r) # "unindex" BY <1>1, <1>3, <1>12 DEF Forget
<1> QED BY <1>5, <1>6, <1>7, <1>8, <1>9, <1>10, <1>11, <1>12 DEF Indexing

LEMMA IndexingTyped ==
    ASSUME StoreInv, IndexTypeOK, NEW r \in Requests, Indexing(r)
    PROVE  StoreInv'
<1>1. PICK pc \in IndexPhases \cup {"finishing"} : \E docs :
         /\ op' = [op EXCEPT ![r] = [op[r] EXCEPT !.pc = pc, !.docs = docs]]
         /\ docs \in {op[r].docs, op'[r].docs}
         /\ op[r].pc \in IndexPhases \cup {"reading", "unindexing"}
         /\ UNCHANGED <<setup, row, chunks, issued, budget, suspect, overlapped, refreshed>>
  BY IndexingStep
<1>2. PICK docs :
         /\ op' = [op EXCEPT ![r] = [op[r] EXCEPT !.pc = pc, !.docs = docs]]
         /\ docs \in {op[r].docs, op'[r].docs}
         /\ op[r].pc \in IndexPhases \cup {"reading", "unindexing"}
         /\ UNCHANGED <<setup, row, chunks, issued, budget, suspect, overlapped, refreshed>>
  BY <1>1
<1> DEFINE x == [op[r] EXCEPT !.pc = pc, !.docs = docs]
<1>3. op[r] \in Op /\ op[r].pending = {} /\ op[r].pc # "done"
  BY <1>2, OpType DEF BusyOp, IndexPhases
<1>4. docs \subseteq Chunk BY <1>2, <1>3, DocsTyped DEF Op
<1>5. x \in Op /\ x.copy = op[r].copy /\ x.pc = pc /\ x.pending = {}
  BY <1>3, <1>4 DEF Op, Phases, IndexPhases
<1>6. op' = [op EXCEPT ![r] = x] BY <1>2
<1> HIDE DEF x
<1>7. BusyOp(x) BY <1>5 DEF BusyOp, IndexPhases
<1>8. vectors' \subseteq Chunk BY DocsTyped
<1> QED BY <1>2, <1>3, <1>5, <1>6, <1>7, <1>8, StillTyped, OneTyped

LEMMA ForgetTyped ==
    ASSUME StoreInv, NEW r \in Requests, Forget(r), Kind(r) = "unindex"
    PROVE  StoreInv'
<1>1. /\ op[r].pc = "forgetting" /\ EndsAs(r, "done")
      /\ UNCHANGED <<setup, row, chunks, vectors, issued, budget, suspect, overlapped, refreshed>>
  BY DEF Forget, At, history
<1>2. op[r].pending = {} BY <1>1, OpType DEF BusyOp
<1> QED BY <1>1, <1>2, StillTyped, EndsTyped

LEMMA FinishUpsertTyped ==
    ASSUME StoreInv, NEW r \in Requests, FinishUpsert(r)
    PROVE  StoreInv'
<1>1. /\ op[r].pc = "finishing" /\ row' = [op[r].copy EXCEPT !.status = "UPSERTED"]
      /\ UNCHANGED <<setup, chunks, vectors, issued, budget, suspect, overlapped>>
  BY DEF FinishUpsert, At
<1>2. op[r] \in Op /\ op[r].copy \in Rows /\ op[r].pending = {} BY <1>1, OpType DEF Op, BusyOp
<1> DEFINE x == [op[r] EXCEPT !.pc = "item", !.copy = Gone, !.docs = {}]
<1>3. \/ EndsAs(r, "done") /\ refreshed' \in BOOLEAN
      \/ op' = [op EXCEPT ![r] = x] /\ refreshed' = refreshed
  BY <1>2 DEF FinishUpsert, Complete, Op
<1>4. Drops' \in Nat /\ AtLeast(op[r].copy, Drops')
  BY <1>1, <1>3, CopyStill, DoneStays DEF EndsAs
<1>5. "UPSERTED" \in Statuses BY DEF Statuses
<1>6. row' \in Rows /\ AtLeast(row', Drops') BY <1>1, <1>2, <1>4, <1>5, StatusType
<1>7. CASE EndsAs(r, "done") /\ refreshed' \in BOOLEAN
  BY <1>1, <1>2, <1>6, <1>7, StillTyped, EndsTyped
<1>8. CASE op' = [op EXCEPT ![r] = x] /\ refreshed' = refreshed
  <2>1. x \in Op /\ x.copy = Gone /\ x.pc = "item" /\ x.pending = {}
    <3>1. Gone \in Rows BY GoneType
    <3> QED BY <1>2, <3>1 DEF Op, Phases
  <2>2. BusyOp(x) BY <2>1 DEF BusyOp
  <2> HIDE DEF x
  <2> QED BY <1>1, <1>6, <1>8, <2>1, <2>2, GoneType, StillTyped, OneTyped
<1> QED BY <1>3, <1>7, <1>8

----------------------------------------------------------------------------
LEMMA ClearTyped ==
    ASSUME StoreInv, NEW r \in Requests, Clear(r)
    PROVE  StoreInv'
<1>1. /\ op[r].pc = "clearing" /\ chunks' \subseteq Chunk /\ Goto(r, "unlisting")
      /\ UNCHANGED <<setup, row, vectors, issued, budget, suspect, overlapped, refreshed>>
  BY StillTyped DEF Clear, ClearChunks, At, history
<1>2. op[r].pending = {} BY <1>1, OpType DEF BusyOp
<1>3. "unlisting" \in Phases BY DEF Phases
<1>4. BusyOp([op[r] EXCEPT !.pc = "unlisting"])
  BY <1>1, <1>2, <1>3, OpType, GotoType DEF BusyOp
<1> QED BY <1>1, <1>3, <1>4, StillTyped, GotoTyped

LEMMA UnlistTyped ==
    ASSUME StoreInv, NEW r \in Requests, Unlist(r)
    PROVE  StoreInv'
<1> DEFINE y == [op[r].copy EXCEPT !.loaders = [j \in DOMAIN @ \ {op[r].doc} |-> @[j]]]
<1>1. /\ op[r].pc = "unlisting" /\ row' = y /\ EndsAs(r, "done")
      /\ UNCHANGED <<setup, chunks, vectors, issued, budget, suspect, overlapped, refreshed>>
  BY DEF Unlist, At, history
<1>2. op[r].copy \in Rows /\ op[r].pending = {} BY <1>1, OpType DEF Op, BusyOp
<1>3. Drops' \in Nat /\ AtLeast(op[r].copy, Drops') BY <1>1, CopyStill, DoneStays DEF EndsAs
<1>4. y \in Rows /\ AtLeast(y, Drops') BY <1>2, <1>3, UnlistedType
<1> HIDE DEF y
<1> QED BY <1>1, <1>2, <1>4, StillTyped, EndsTyped

LEMMA FindChunkTyped ==
    ASSUME StoreInv, NEW r \in Requests, FindChunk(r)
    PROVE  StoreInv'
<1> DEFINE found == {c \in chunks : \E d \in op[r].docs : Same(c, d)}
           x == [op[r] EXCEPT !.pc = "changing", !.docs = found]
<1>1. /\ EndsAs(r, "failed") \/ op' = [op EXCEPT ![r] = x]
      /\ UNCHANGED <<setup, row, chunks, vectors, issued, budget, suspect, overlapped, refreshed>>
  BY DEF FindChunk, At, history
<1>2. op[r] \in Op /\ op[r].pending = {} /\ op[r].pc # "done"
  BY OpType DEF FindChunk, At, BusyOp
<1>3. found \subseteq Chunk BY StillTyped
<1> HIDE DEF found
<1>4. x \in Op /\ x.copy = op[r].copy /\ x.pc = "changing" /\ x.pending = {}
      /\ x.doc = op[r].doc
  BY <1>2, <1>3 DEF Op, Phases
<1>5. BusyOp(x)
  <2>1. op[r].pc = "seeking" BY DEF FindChunk, At
  <2>2. op[r].doc \in Loaders BY <2>1, OpType DEF BusyOp
  <2> QED BY <1>4, <2>2 DEF BusyOp
<1> HIDE DEF x
<1>6. CASE EndsAs(r, "failed") BY <1>1, <1>2, <1>6, StillTyped, FailsTyped
<1>7. CASE op' = [op EXCEPT ![r] = x] BY <1>1, <1>2, <1>4, <1>5, <1>7, StillTyped, LocalTyped
<1> QED BY <1>1, <1>6, <1>7

LEMMA ChangeChunkTyped ==
    ASSUME StoreInv, NEW r \in Requests, ChangeChunk(r)
    PROVE  StoreInv'
<1>1. /\ op[r].pc = "changing" /\ Goto(r, "counting")
      /\ UNCHANGED <<setup, row, vectors, issued, budget, suspect, overlapped, refreshed>>
  BY DEF ChangeChunk, At, history
<1>2. op[r].docs \subseteq Chunk /\ op[r].pending = {} BY <1>1, OpType DEF Op, BusyOp
<1>3. ASSUME NEW d \in Chunk PROVE [d EXCEPT !.edited = TRUE] \in Chunk BY DEF Chunk
<1>4. chunks' \subseteq Chunk BY <1>2, <1>3, StillTyped DEF ChangeChunk
<1>5. "counting" \in Phases BY DEF Phases
<1>6. BusyOp([op[r] EXCEPT !.pc = "counting"])
  BY <1>1, <1>2, <1>5, OpType, GotoType DEF BusyOp
<1> QED BY <1>1, <1>4, <1>5, <1>6, StillTyped, GotoTyped

\* The one step that lowers a total: its request is one more that is done.
LEMMA SaveTotalsTyped ==
    ASSUME StoreInv, NEW r \in Requests, SaveTotals(r)
    PROVE  StoreInv'
<1>1. /\ op[r].pc = "counting" /\ EndsAs(r, "done")
      /\ row' = IF Kind(r) = "editChunk" THEN op[r].copy ELSE Recount(op[r].copy, op[r].doc)
      /\ UNCHANGED <<setup, chunks, vectors, issued, budget, suspect, overlapped, refreshed>>
  BY DEF SaveTotals, At, history
<1>2. op[r].copy \in Rows /\ op[r].pending = {} /\ AtLeast(op[r].copy, Drops)
  BY <1>1, OpType DEF StoreInv, Op, BusyOp
<1>3. /\ Drops \in Nat /\ Drops' \in Nat /\ Drops' <= Cardinality(Requests)
      /\ AtLeast(op[r].copy, Drops')
  BY <1>1, DropsGrow, CopyStill, DoneStays DEF EndsAs
<1>4. Drops' = Drops + 1
  <2>1. op \in [Requests -> Op] BY DEF StoreInv, StoreTypeOK
  <2>2. op' = [op EXCEPT ![r] = Over(op[r], "done")] BY <1>1 DEF EndsAs
  <2>3. Over(op[r], "done").pc = "done" BY OpType, OverType
  <2>4. Dropped' = Dropped \cup {r} BY <2>1, <2>2, <2>3 DEF Dropped
  <2>5. r \notin Dropped BY <1>1 DEF Dropped
  <2>6. IsFiniteSet(Dropped)
    BY FS_Subset, StoreAssumption DEF Dropped, StoreAssumption
  <2> QED BY <2>4, <2>5, <2>6, FS_AddElement DEF Drops
<1>5. row' \in Rows /\ AtLeast(row', Drops')
  <2>1. CASE Kind(r) = "editChunk" BY <1>1, <1>2, <1>3, <2>1
  <2>2. CASE Kind(r) # "editChunk" BY <1>1, <1>2, <1>3, <1>4, <2>2, RecountType
  <2> QED BY <2>1, <2>2
<1> QED BY <1>1, <1>2, <1>5, StillTyped, EndsTyped

LEMMA EraseChunksTyped ==
    ASSUME StoreInv, NEW r \in Requests, EraseChunks(r)
    PROVE  StoreInv'
<1>1. /\ op[r].pc = "erasing" /\ chunks' \subseteq Chunk /\ Goto(r, "removing")
      /\ UNCHANGED <<setup, row, vectors, issued, budget, suspect, overlapped, refreshed>>
  BY DEF EraseChunks, At, history
<1>2. op[r].pending = {} BY <1>1, OpType DEF BusyOp
<1>3. "removing" \in Phases BY DEF Phases
<1>4. BusyOp([op[r] EXCEPT !.pc = "removing"])
  BY <1>2, <1>3, OpType, GotoType DEF BusyOp
<1> QED BY <1>1, <1>3, <1>4, StillTyped, GotoTyped

LEMMA RemoveRowTyped ==
    ASSUME StoreInv, NEW r \in Requests, RemoveRow(r)
    PROVE  StoreInv'
<1>1. /\ op[r].pc = "removing" /\ row' = Gone /\ EndsAs(r, "done")
      /\ overlapped' = (overlapped /\ ~op[r].alone)
      /\ UNCHANGED <<setup, chunks, vectors, issued, budget, suspect, refreshed>>
  BY DEF RemoveRow, At
<1>2. op[r].pending = {} /\ overlapped' \in BOOLEAN BY <1>1, OpType DEF BusyOp
<1> QED BY <1>1, <1>2, GoneType, StillTyped, EndsTyped

LEMMA TouchTyped ==
    ASSUME StoreInv, NEW r \in Requests, Touch(r)
    PROVE  StoreInv'
<1>1. /\ op[r].pc = "touching" /\ row' = op[r].copy /\ EndsAs(r, "done")
      /\ UNCHANGED <<setup, chunks, vectors, issued, budget, suspect, overlapped, refreshed>>
  BY DEF Touch, At, history
<1>2. op[r].copy \in Rows /\ op[r].pending = {} BY <1>1, OpType DEF Op, BusyOp
<1>3. AtLeast(op[r].copy, Drops') BY <1>1, CopyStill, DoneStays DEF EndsAs
<1> QED BY <1>1, <1>2, <1>3, StillTyped, EndsTyped

LEMMA NotFoundTyped ==
    ASSUME StoreInv, NEW r \in Requests, NotFound(r)
    PROVE  StoreInv'
<1>1. /\ op[r].pc # "done" /\ EndsAs(r, "failed")
      /\ UNCHANGED <<setup, row, chunks, vectors, issued, budget, suspect, overlapped, refreshed>>
  BY DEF NotFound, history
<1> QED BY <1>1, StillTyped, FailsTyped

----------------------------------------------------------------------------
LEMMA CutOffType ==
    ASSUME StoreInv, NEW S \in SUBSET Requests
    PROVE  CutOff(S) \subseteq Loaders
<1>1. ASSUME NEW q \in S,
             \/ op[q].pc \in {"unlisting", "counting"}
             \/ op[q].pc \in {"marked", "splitting", "inserting"} /\ Unmarked(op[q])
      PROVE  op[q].doc \in Loaders
  BY <1>1, OpType DEF BusyOp
<1> QED BY <1>1 DEF CutOff

LEMMA ThrowTyped ==
    ASSUME StoreInv, NEW r \in Requests, Throw(r)
    PROVE  StoreInv'
<1>1. /\ op[r].pc # "done" /\ budget.faults > 0
      /\ budget' = [budget EXCEPT !.faults = @ - 1] /\ suspect' = suspect \cup CutOff({r})
      /\ UNCHANGED <<setup, row, chunks, vectors, issued, overlapped, refreshed>>
  BY DEF Throw
<1>2. budget' \in [faults : 0 .. MaxFaults, crashes : 0 .. MaxCrashes]
  BY <1>1, StillTyped, StoreAssumption DEF StoreAssumption
<1>3. suspect' \subseteq Loaders BY <1>1, CutOffType, StillTyped
<1>4. CASE EndsAs(r, "failed") BY <1>1, <1>2, <1>3, <1>4, StillTyped, EndsTyped
<1>5. CASE ~EndsAs(r, "failed")
  <2>1. PICK c \in op[r].pending :
           LET o == Over(op[r], "failed") IN
           op' = [op EXCEPT ![r] = [o EXCEPT !.pending = o.pending \ {c}]]
    BY <1>5 DEF Throw
  <2> DEFINE o == Over(op[r], "failed")
             x == [o EXCEPT !.pending = o.pending \ {c}]
  <2>2. op' = [op EXCEPT ![r] = x] BY <2>1
  <2>3. o \in Op /\ o.copy = Gone /\ o.pc = "failed" BY OpType, OverType
  <2> HIDE DEF o
  <2>4. x \in Op /\ x.copy = Gone /\ x.pc = "failed" BY <2>3 DEF Op
  <2>5. BusyOp(x) BY <2>4 DEF BusyOp
  <2> HIDE DEF x
  <2> QED BY <1>1, <1>2, <1>3, <2>2, <2>4, <2>5, GoneType, StillTyped, OneTyped
<1> QED BY <1>4, <1>5

LEMMA RestartedType ==
    ASSUME StoreInv, NEW r \in Requests, InJob(r)
    PROVE  /\ Restarted(r) \in Op /\ BusyOp(Restarted(r)) /\ Restarted(r).copy = Gone
           /\ op[r].pc # "done" /\ Restarted(r).alone = op[r].alone /\ Restarted(r).pending = {}
<1> DEFINE pc == IF Kind(r) \in UploadKinds THEN "marked"
                 ELSE IF Kind(r) \in UpsertKinds THEN "item" ELSE "configuring"
           doc == IF Kind(r) \in UploadKinds THEN op[r].doc ELSE NoLoader
           x == [Rest EXCEPT !.pc = pc, !.doc = doc, !.items = op[r].items,
                             !.left = op[r].items, !.alone = op[r].alone]
<1>1. Restarted(r) = x BY DEF Restarted
<1>2. op[r] \in Op /\ op[r].pc # "done" BY OpType DEF InJob
<1>3. pc \in Phases /\ doc \in Loaders \cup {NoLoader} BY <1>2 DEF Phases, Op
<1>4. op[r].items \subseteq Loaders \cup {NoLoader} /\ op[r].alone \in BOOLEAN BY <1>2 DEF Op
<1>5. Rest \in Op /\ Rest.pending = {} /\ Rest.copy = Gone BY RestType DEF Rest
<1>6. (pc = "marked" /\ doc \in Loaders) \/ pc \in {"item", "configuring"}
  <2>1. CASE Kind(r) \in UploadKinds
    <3>1. op[r].pc \in {"marked", "splitting", "inserting", "reporting"}
      BY <2>1 DEF InJob, UploadKinds, UpsertKinds
    <3>2. op[r].doc \in Loaders BY <3>1, OpType DEF BusyOp
    <3> QED BY <2>1, <3>2
  <2>2. CASE Kind(r) \notin UploadKinds BY <2>2
  <2> QED BY <2>1, <2>2
<1> HIDE DEF pc, doc
<1>7. /\ x \in Op /\ x.copy = Gone /\ x.pending = {} /\ x.pc = pc /\ x.doc = doc
      /\ x.alone = op[r].alone
  BY <1>3, <1>4, <1>5 DEF Op
<1> HIDE DEF x
<1>8. BusyOp(x) BY <1>6, <1>7 DEF BusyOp
<1> QED BY <1>1, <1>2, <1>7, <1>8

LEMMA DroppedPendingType ==
    ASSUME NEW o \in Op, BusyOp(o)
    PROVE  LET x == [o EXCEPT !.pending = {}] IN
           /\ x \in Op /\ BusyOp(x) /\ x.copy = o.copy /\ x.pc = o.pc /\ x.alone = o.alone
           /\ x.doc = o.doc /\ x.docs = o.docs /\ x.pending = {}
<1> DEFINE x == [o EXCEPT !.pending = {}]
<1>1. /\ x \in Op /\ x.copy = o.copy /\ x.pc = o.pc /\ x.alone = o.alone
      /\ x.doc = o.doc /\ x.docs = o.docs /\ x.pending = {}
  BY DEF Op
<1> HIDE DEF x
<1>2. BusyOp(x) BY <1>1 DEF BusyOp
<1> QED BY <1>1, <1>2 DEF x

LEMMA WorkerDiesTyped ==
    ASSUME StoreInv, WorkerDies
    PROVE  StoreInv'
<1> DEFINE next(q) == IF InJob(q) THEN Restarted(q) ELSE [op[q] EXCEPT !.pending = {}]
<1>1. /\ budget.crashes > 0 /\ budget' = [budget EXCEPT !.crashes = @ - 1]
      /\ op' = [q \in Requests |-> next(q)]
      /\ UNCHANGED <<setup, row, chunks, vectors, issued, suspect, overlapped, refreshed>>
  BY DEF WorkerDies, history
<1>2. budget' \in [faults : 0 .. MaxFaults, crashes : 0 .. MaxCrashes]
  BY <1>1, StillTyped, StoreAssumption DEF StoreAssumption
<1>3. ASSUME NEW q \in Requests
      PROVE  /\ next(q) \in Op /\ BusyOp(next(q))
             /\ op[q].pc = "done" => next(q).pc = "done"
             /\ next(q).copy = op[q].copy \/ AtLeast(next(q).copy, Drops')
  <2>1. CASE InJob(q) BY <2>1, RestartedType, GoneType
  <2>2. CASE ~InJob(q) BY <2>2, OpType, DroppedPendingType
  <2> QED BY <2>1, <2>2
<1> HIDE DEF next
<1> QED BY <1>1, <1>2, <1>3, StillTyped, AllTyped

LEMMA ServerDiesTyped ==
    ASSUME StoreInv, ServerDies
    PROVE  StoreInv'
<1> DEFINE lost == {q \in Requests : op[q].pc \notin {"idle", "done", "failed"} /\ ~InJob(q)}
           o(q) == IF q \in lost THEN Over(op[q], "failed") ELSE op[q]
           next(q) == IF setup.queue THEN o(q) ELSE [o(q) EXCEPT !.pending = {}]
<1>1. /\ budget.crashes > 0 /\ budget' = [budget EXCEPT !.crashes = @ - 1]
      /\ op' = [q \in Requests |-> next(q)]
      /\ suspect' = suspect \cup CutOff(lost)
      /\ UNCHANGED <<setup, row, chunks, vectors, issued, overlapped, refreshed>>
  BY DEF ServerDies
<1>2. budget' \in [faults : 0 .. MaxFaults, crashes : 0 .. MaxCrashes]
  BY <1>1, StillTyped, StoreAssumption DEF StoreAssumption
<1>3. suspect' \subseteq Loaders BY <1>1, CutOffType, StillTyped
<1>4. ASSUME NEW q \in Requests
      PROVE  /\ next(q) \in Op /\ BusyOp(next(q))
             /\ op[q].pc = "done" => next(q).pc = "done"
             /\ next(q).copy = op[q].copy \/ AtLeast(next(q).copy, Drops')
  <2>1. /\ o(q) \in Op /\ BusyOp(o(q))
        /\ op[q].pc = "done" => o(q).pc = "done"
        /\ o(q).copy = op[q].copy \/ AtLeast(o(q).copy, Drops')
    <3>1. CASE q \in lost BY <3>1, OpType, OverType, GoneType
    <3>2. CASE q \notin lost BY <3>2, OpType
    <3> QED BY <3>1, <3>2
  <2> HIDE DEF o
  <2>2. CASE setup.queue BY <2>1, <2>2
  <2>3. CASE ~setup.queue BY <2>1, <2>3, DroppedPendingType
  <2> QED BY <2>2, <2>3
<1> HIDE DEF next
<1> QED BY <1>1, <1>2, <1>3, <1>4, StillTyped, AllTyped

LEMMA InitTyped == Init => StoreInv
<1> SUFFICES ASSUME Init PROVE StoreInv OBVIOUS
<1>1. setup \in Setup BY StoreAssumption DEF Init, StoreAssumption
<1>2. /\ setup.first \subseteq Loaders /\ setup.faults \in 0 .. MaxFaults
      /\ setup.crashes \in 0 .. MaxCrashes
  BY <1>1 DEF Setup
<1> DEFINE f == [l \in setup.first |-> [status |-> "SYNC", total |-> 1]]
<1>3. [status |-> "SYNC", total |-> 1] \in Loader BY ZeroType, LargestType, RequestsCounted
<1>4. f \in [setup.first -> Loader] BY <1>3
<1>5. row = Listing(f) BY DEF Init
<1>6. Drops \in Nat BY DropsType
<1>7. row \in Rows /\ AtLeast(row, Drops)
  <2> DEFINE s == IF DOMAIN f = {} THEN "EMPTY" ELSE "UPSERTED"
  <2>1. row = [status |-> s, loaders |-> f] BY <1>5 DEF Listing
  <2>2. s \in Statuses BY DEF Statuses
  <2>3. \A l \in DOMAIN f : f[l].total = 1 OBVIOUS
  <2> HIDE DEF f, s
  <2>4. row \in Rows BY <1>2, <1>4, <2>1, <2>2, RowIntro
  <2>5. AtLeast(row, Drops) BY <1>6, <2>1, <2>3 DEF AtLeast
  <2> QED BY <2>4, <2>5
<1>8. [doc : setup.first, by : {NoRequest}, no : {1}, edited : {FALSE}] \subseteq Chunk
  <2>1. 1 \in 1 .. Largest BY LargestType
  <2> QED BY <1>2, <2>1 DEF Chunk
<1>9. op \in [Requests -> Op]
      /\ \A r \in Requests : BusyOp(op[r]) /\ AtLeast(op[r].copy, Drops)
  BY RestType, GoneType DEF Init
<1>10. vectors \subseteq Chunk
  <2>1. ASSUME NEW c \in Chunk PROVE Key(c) \in Chunk
    <3>1. [c EXCEPT !.by = NoRequest] \in Chunk BY DEF Chunk
    <3> QED BY <3>1 DEF Key
  <2> QED BY <1>8, <2>1 DEF Init, Keys
<1> QED BY <1>1, <1>2, <1>7, <1>8, <1>9, <1>10 DEF Init, StoreInv, StoreTypeOK

LEMMA NextTyped == StoreInv /\ IndexTypeOK /\ [Next]_vars => StoreInv'
<1> SUFFICES ASSUME StoreInv, IndexTypeOK, [Next]_vars PROVE StoreInv' OBVIOUS
<1>1. ASSUME NEW r \in Requests, Begin(r) PROVE StoreInv' BY <1>1, BeginTyped
<1>2. ASSUME NEW r \in Requests, Step(r) PROVE StoreInv'
  BY <1>2, MarkTyped, FindToProcessTyped, SplitTyped, InsertChunkTyped, FinishProcessingTyped,
     ReportTyped, NoItemTyped, TakeItemTyped, FindToMarkTyped, FindToConfigureTyped,
     SaveConfigTyped, SaveUpsertingTyped, FindToUpsertTyped, IndexingTyped, ForgetTyped,
     FinishUpsertTyped, ClearTyped, UnlistTyped, FindChunkTyped, ChangeChunkTyped,
     SaveTotalsTyped, EraseChunksTyped, RemoveRowTyped, TouchTyped, NotFoundTyped
     DEF Step, Indexing
<1>3. ASSUME NEW r \in Requests, Throw(r) PROVE StoreInv' BY <1>3, ThrowTyped
<1>4. CASE WorkerDies BY <1>4, WorkerDiesTyped
<1>5. CASE ServerDies BY <1>5, ServerDiesTyped
<1>6. CASE UNCHANGED vars
  <2>1. /\ UNCHANGED <<setup, row, chunks, vectors, issued, op, budget, suspect, overlapped,
                       refreshed>>
        /\ Drops' = Drops
    BY <1>6 DEF vars, Drops, Dropped
  <2> QED BY <2>1 DEF StoreInv, StoreTypeOK
<1> QED BY <1>1, <1>2, <1>3, <1>4, <1>5, <1>6 DEF Next

LEMMA InitIndexTyped == Init => IndexTypeOK
<1> SUFFICES ASSUME Init PROVE IndexTypeOK OBVIOUS
<1>1. vectors \subseteq Chunk BY InitTyped DEF StoreInv, StoreTypeOK
<1>2. session = [r \in Requests |-> Nothing] /\ muddled = FALSE BY DEF Init
<1>3. records \subseteq Chunk BY <1>1 DEF Init
<1>4. Nothing \in [known : SUBSET Chunk, older : SUBSET Chunk] BY DEF Nothing
<1> QED BY <1>2, <1>3, <1>4 DEF IndexTypeOK

LEMMA RenewedType ==
    ASSUME IndexTypeOK, NEW keys
    PROVE  /\ Renewed(keys) \in [Requests -> [known : SUBSET Chunk, older : SUBSET Chunk]]
           /\ \A q \in Requests : /\ Renewed(keys)[q].known = session[q].known
                                  /\ Renewed(keys)[q].older = session[q].older \ keys
BY DEF IndexTypeOK, Renewed

LEMMA NextIndexTyped == StoreInv /\ IndexTypeOK /\ [Next]_vars => IndexTypeOK'
<1> SUFFICES ASSUME StoreInv, IndexTypeOK, [Next]_vars PROVE IndexTypeOK' OBVIOUS
<1>1. ASSUME UNCHANGED index PROVE IndexTypeOK' BY <1>1 DEF index, IndexTypeOK
<1>2. ASSUME NEW S, CutsIndex(S), records' = records PROVE IndexTypeOK'
  BY <1>2 DEF CutsIndex, IndexTypeOK, Nothing
<1>3. ASSUME NEW r \in Requests, Begin(r) PROVE IndexTypeOK'
  <2>1. PICK start : Enter(r, start)
    BY <1>3 DEF Begin, BeginUpload, BeginUpsert, BeginInsert, BeginUnlist, BeginChunk,
                BeginDelete, BeginTouch, BeginUnindex
  <2>2. muddled' \in BOOLEAN /\ UNCHANGED <<records, session>> BY <2>1 DEF Enter, IndexTypeOK
  <2> QED BY <2>2 DEF IndexTypeOK
<1>4. ASSUME NEW r \in Requests, Step(r) PROVE IndexTypeOK'
  <2>1. op[r].docs \subseteq Chunk /\ session \in [Requests -> [known : SUBSET Chunk, older : SUBSET Chunk]]
    BY OpType DEF Op, IndexTypeOK
  <2>2. CASE LookUp(r)
    <3> DEFINE known == op[r].docs \cap records
               s == [known |-> known, older |-> Outdated(op[r].docs)]
    <3>1. session' = [Renewed(known) EXCEPT ![r] = s] /\ UNCHANGED <<records, muddled>>
      BY <2>2 DEF LookUp
    <3>2. s \in [known : SUBSET Chunk, older : SUBSET Chunk] BY <2>1 DEF Outdated, IndexTypeOK
    <3> HIDE DEF s, known
    <3> QED BY <3>1, <3>2, RenewedType DEF IndexTypeOK
  <2>3. CASE Record(r) BY <2>1, <2>3, RenewedType DEF Record, IndexTypeOK
  <2>4. CASE List(r) BY <2>1, <2>4 DEF List, IndexTypeOK, Nothing
  <2>5. CASE Forget(r)
    <3>1. records' \subseteq records /\ session' = session /\ muddled' \in BOOLEAN
      BY <2>5 DEF Forget, ForgetKeys, IndexTypeOK
    <3> QED BY <3>1 DEF IndexTypeOK
  <2>6. CASE ~(LookUp(r) \/ Record(r) \/ List(r) \/ Forget(r))
    BY <1>1, <1>4, <2>6
       DEF Step, Mark, FindToProcess, Split, InsertChunk, FinishProcessing, Report, NoItem,
           TakeItem, FindToMark, FindToConfigure, SaveConfig, SaveUpserting, FindToUpsert,
           ReadChunks, AddDocuments, Prune, FinishUpsert, Clear, Unlist, FindChunk, ChangeChunk,
           SaveTotals, EraseChunks, RemoveRow, Touch, Unindex, NotFound
  <2> QED BY <2>2, <2>3, <2>4, <2>5, <2>6
<1>5. ASSUME NEW r \in Requests, Throw(r) PROVE IndexTypeOK' BY <1>2, <1>5 DEF Throw
<1>6. CASE WorkerDies BY <1>2, <1>6 DEF WorkerDies
<1>7. CASE ServerDies BY <1>2, <1>7 DEF ServerDies
<1>8. CASE UNCHANGED vars BY <1>1, <1>8 DEF vars
<1> QED BY <1>3, <1>4, <1>5, <1>6, <1>7, <1>8 DEF Next

\* Every variable of the model stays what its declaration says: rows that are
\* saved from a copy are rows again, whatever happened since the copy was read,
\* a loader's total exceeds no document and falls by at most one per request, and
\* what is embedded or recorded are keys of chunks.
THEOREM StoreTypeCorrect == Spec => []TypeOK
<1>1. StoreInv /\ IndexTypeOK => TypeOK BY DEF StoreInv, TypeOK
<1>2. Init => StoreInv /\ IndexTypeOK BY InitTyped, InitIndexTyped
<1>3. StoreInv /\ IndexTypeOK /\ [Next]_vars => (StoreInv /\ IndexTypeOK)'
  BY NextTyped, NextIndexTyped
<1> QED BY <1>1, <1>2, <1>3, PTL DEF Spec

----------------------------------------------------------------------------
(***************************************************************************)
(* No orphans                                                              *)
(***************************************************************************)
\* Phases in which a copy is held that will be saved, or looked into.
CopyPhases == {"marking", "splitting", "inserting", "saving", "upserting", "reading", "sending",
               "adding", "recording", "listing", "pruning", "forgetting", "finishing", "clearing",
               "unlisting", "seeking", "changing", "counting", "touching", "unindexing"}

Flying(x) == x.pc \notin {"idle", "done", "failed"} \/ x.pending # {}

\* The local state x of a request agrees with the row and the chunk rows: its
\* copy lists the same loaders, what it processes or inserts is listed, and what
\* it is about to strike off the list has no rows left.
Agrees(x, now, rows) ==
    /\ x.pc \in CopyPhases => DOMAIN x.copy.loaders = DOMAIN now.loaders
    /\ x.pc \in {"marked", "splitting", "inserting", "reporting"} => Listed(now, x.doc)
    /\ \A c \in x.pending : Listed(now, c.doc)
    /\ x.pc \in {"seeking", "changing"} => \A c \in x.docs : Listed(now, c.doc)
    /\ x.pc = "unlisting" => \A c \in rows : c.doc # x.doc

\* A request that is alone is the only one in flight, and as long as nothing
\* overlapped every request in flight is alone.
Serial ==
    /\ \A r, q \in Requests : Flying(op[r]) /\ Flying(op[q]) /\ op[r].alone => q = r
    /\ ~overlapped => \A r \in Requests : Flying(op[r]) => op[r].alone

OrphanInv ==
    /\ Serial
    /\ ~overlapped => /\ \A c \in chunks : Listed(row, c.doc)
                      /\ \A r \in Requests : Flying(op[r]) => Agrees(op[r], row, chunks)
    /\ \A r \in Requests : op[r].pc = "removing" /\ op[r].alone => chunks = {}

LEMMA FlyingInFlight == ASSUME NEW r \in Requests PROVE InFlight(r) <=> Flying(op[r])
BY DEF InFlight, Flying

\* What a step of one request in flight has to show.
LEMMA OneKept ==
    ASSUME StoreInv, OrphanInv, NEW r \in Requests, NEW x, Flying(op[r]),
           op' = [op EXCEPT ![r] = x], x.alone = op[r].alone, overlapped' = overlapped,
           ~overlapped => /\ \A c \in chunks' : Listed(row', c.doc)
                          /\ Flying(x) => Agrees(x, row', chunks'),
           x.pc = "removing" /\ x.alone => chunks' = {}
    PROVE  OrphanInv'
<1>1. op \in [Requests -> Op] BY DEF StoreInv, StoreTypeOK
<1>2. op'[r] = x /\ \A q \in Requests \ {r} : op'[q] = op[q] BY <1>1
<1>3. ASSUME NEW q \in Requests, NEW p \in Requests, Flying(op'[q]), Flying(op'[p]), op'[q].alone
      PROVE  p = q
  <2>1. Flying(op[q]) /\ Flying(op[p]) /\ op[q].alone BY <1>2, <1>3
  <2> QED BY <2>1 DEF OrphanInv, Serial
<1>4. ASSUME NEW q \in Requests, ~overlapped', Flying(op'[q]) PROVE op'[q].alone
  <2>1. Flying(op[q]) BY <1>2, <1>4
  <2>2. op[q].alone BY <1>4, <2>1 DEF OrphanInv, Serial
  <2> QED BY <1>2, <2>2
<1>5. Serial' BY <1>3, <1>4 DEF Serial
<1>6. ASSUME NEW q \in Requests, ~overlapped', Flying(op'[q]) PROVE Agrees(op'[q], row', chunks')
  <2>1. op[r].alone BY <1>6 DEF OrphanInv, Serial
  <2>2. Flying(op[q]) BY <1>2, <1>6
  <2>3. q = r BY <2>1, <2>2 DEF OrphanInv, Serial
  <2> QED BY <1>2, <1>6, <2>3
<1>7. ASSUME NEW q \in Requests, op'[q].pc = "removing" /\ op'[q].alone PROVE chunks' = {}
  <2>1. CASE q = r BY <1>2, <1>7, <2>1
  <2>2. CASE q # r
    <3>1. op[q].pc = "removing" /\ op[q].alone BY <1>2, <1>7, <2>2
    <3>2. Flying(op[q]) BY <3>1 DEF Flying
    <3>3. r = q BY <3>1, <3>2 DEF OrphanInv, Serial
    <3> QED BY <2>2, <3>3
  <2> QED BY <2>1, <2>2
<1>8. ~overlapped' => \A c \in chunks' : Listed(row', c.doc) OBVIOUS
<1> QED BY <1>5, <1>6, <1>7, <1>8 DEF OrphanInv

\* What the invariant says of a request in flight.
LEMMA KeptElim ==
    ASSUME OrphanInv, NEW r \in Requests, Flying(op[r]), ~overlapped
    PROVE  Agrees(op[r], row, chunks) /\ \A c \in chunks : Listed(row, c.doc)
BY DEF OrphanInv

\* A request that ends has only to leave the rows listed.
LEMMA EndsKept ==
    ASSUME StoreInv, OrphanInv, NEW r \in Requests, NEW end \in {"done", "failed"}, EndsAs(r, end),
           Flying(op[r]), overlapped' = overlapped,
           ~overlapped => /\ \A c \in chunks' : Listed(row', c.doc)
                          /\ \A c \in op[r].pending : Listed(row', c.doc)
    PROVE  OrphanInv'
<1> DEFINE x == Over(op[r], end)
<1>1. op' = [op EXCEPT ![r] = x] BY DEF EndsAs
<1>2. /\ x.pc = end /\ x.pending = op[r].pending /\ x.alone = op[r].alone
  <2>1. op[r] \in Op BY OpType
  <2> QED BY <2>1, OverType DEF Over, Op
<1> HIDE DEF x
<1>3. ~overlapped => Agrees(x, row', chunks') BY <1>2 DEF Agrees, CopyPhases
<1> QED BY <1>1, <1>2, <1>3, OneKept

\* One that ends and leaves the rows as they are has nothing to show.
LEMMA FailsKept ==
    ASSUME StoreInv, OrphanInv, NEW r \in Requests, NEW end \in {"done", "failed"}, EndsAs(r, end),
           Flying(op[r]), UNCHANGED <<row, chunks, overlapped>>
    PROVE  OrphanInv'
<1>1. ~overlapped => Agrees(op[r], row, chunks) /\ \A c \in chunks : Listed(row, c.doc)
  BY KeptElim
<1> QED BY <1>1, EndsKept DEF Agrees

LEMMA BusyFlies == ASSUME NEW x, x.pc \notin {"idle", "done", "failed"} PROVE Flying(x)
BY DEF Flying

----------------------------------------------------------------------------
\* Going on to a phase of which nothing is said that was not said before.
Careless == {"configuring", "loading", "removing", "item", "found", "erasing"}

LEMMA GotoKept ==
    ASSUME StoreInv, OrphanInv, NEW r \in Requests, NEW pc \in Phases, Goto(r, pc),
           Flying(op[r]), op[r].pending = {}, overlapped' = overlapped,
           ~overlapped => \A c \in chunks' : Listed(row', c.doc),
           pc = "removing" => chunks' = {},
           ~overlapped /\ pc \notin Careless => Agrees([op[r] EXCEPT !.pc = pc], row', chunks')
    PROVE  OrphanInv'
<1> DEFINE x == [op[r] EXCEPT !.pc = pc]
<1>1. op' = [op EXCEPT ![r] = x] BY DEF Goto
<1>2. x.pc = pc /\ x.alone = op[r].alone /\ x.pending = {} BY OpType DEF Op
<1>3. ~overlapped => Agrees(x, row', chunks')
  <2>1. CASE pc \notin Careless BY <2>1
  <2>2. CASE pc \in Careless
    <3> HIDE DEF x
    <3> QED BY <1>2, <2>2 DEF Agrees, Careless, CopyPhases
  <2> QED BY <2>1, <2>2
<1> HIDE DEF x
<1> QED BY <1>1, <1>2, <1>3, OneKept

LEMMA MarkKept ==
    ASSUME StoreInv, OrphanInv, NEW r \in Requests, Mark(r)
    PROVE  OrphanInv'
<1> DEFINE x == [op[r] EXCEPT !.pc = "marked"]
<1>1. /\ op[r].pc = "marking" /\ row' = Marking(op[r].copy, op[r].doc)
      /\ UNCHANGED <<chunks, overlapped>> /\ Goto(r, "marked")
  BY DEF Mark, At, history
<1>2. op[r] \in Op /\ op[r].doc \in Loaders /\ op[r].pending = {} BY <1>1, OpType DEF BusyOp
<1>3. AtLeast(op[r].copy, Drops) /\ Drops \in Nat BY DropsType DEF StoreInv
<1>4. DOMAIN row'.loaders = DOMAIN op[r].copy.loaders \cup {op[r].doc}
  BY <1>1, <1>2, <1>3, MarkingType DEF Op
<1>5. Flying(op[r]) BY <1>1 DEF Flying
<1>6. ~overlapped => /\ DOMAIN op[r].copy.loaders = DOMAIN row.loaders
                     /\ \A c \in chunks : Listed(row, c.doc)
  BY <1>1, <1>5, KeptElim DEF Agrees, CopyPhases
<1>7. x.pc = "marked" /\ x.doc = op[r].doc /\ x.pending = {} BY <1>2 DEF Op
<1> HIDE DEF x
<1>8. Agrees(x, row', chunks') BY <1>4, <1>7 DEF Agrees, Listed, CopyPhases
<1>9. ~overlapped => \A c \in chunks' : Listed(row', c.doc) BY <1>1, <1>4, <1>6 DEF Listed
<1>10. "marked" \in Phases BY DEF Phases
<1> QED BY <1>1, <1>2, <1>5, <1>8, <1>9, <1>10, GotoKept DEF x

\* A copy that is just taken agrees with the row.
LEMMA FindKept ==
    ASSUME StoreInv, OrphanInv, NEW r \in Requests,
           NEW pc \in {"splitting", "saving", "reading"}, Find(r, pc),
           Flying(op[r]), op[r].pending = {}, UNCHANGED <<row, chunks, overlapped>>,
           pc = "splitting" => op[r].pc = "marked"
    PROVE  OrphanInv'
<1> DEFINE x == [op[r] EXCEPT !.copy = row, !.pc = pc]
<1>1. op' = [op EXCEPT ![r] = x] BY DEF Find
<1>2. x.pc = pc /\ x.copy = row /\ x.pending = {} /\ x.alone = op[r].alone /\ x.doc = op[r].doc
  BY OpType DEF Op
<1> HIDE DEF x
<1>3. ~overlapped => (pc = "splitting" => Listed(row, op[r].doc))
  BY KeptElim DEF Agrees
<1>4. ~overlapped => Agrees(x, row', chunks') BY <1>2, <1>3 DEF Agrees
<1>5. ~overlapped => \A c \in chunks' : Listed(row', c.doc) BY KeptElim
<1> QED BY <1>1, <1>2, <1>4, <1>5, OneKept

LEMMA FindsKept ==
    ASSUME StoreInv, OrphanInv, NEW r \in Requests,
           FindToProcess(r) \/ FindToConfigure(r) \/ FindToUpsert(r)
    PROVE  OrphanInv'
<1>1. /\ op[r].pc \in {"marked", "configuring", "loading"} /\ UNCHANGED <<row, chunks, overlapped>>
      /\ \/ Find(r, "splitting") /\ op[r].pc = "marked"
         \/ Find(r, "saving") \/ Find(r, "reading")
  BY DEF FindToProcess, FindToConfigure, FindToUpsert, At, history
<1>2. Flying(op[r]) /\ op[r].pending = {} BY <1>1, OpType DEF Flying, BusyOp
<1> QED BY <1>1, <1>2, FindKept

LEMMA SplitKept ==
    ASSUME StoreInv, OrphanInv, NEW r \in Requests, Split(r)
    PROVE  OrphanInv'
<1>1. /\ op[r].pc = "splitting" /\ chunks' = chunks \ ChunksOf(op[r].doc)
      /\ UNCHANGED <<row, overlapped>>
  BY DEF Split, At, history
<1>2. PICK n \in Splits :
        op' = [op EXCEPT ![r].pc = "inserting", ![r].size = n,
                         ![r].pending = [doc : {op[r].doc}, by : {r}, no : 1 .. n, edited : {FALSE}]]
  BY DEF Split
<1> DEFINE new == [doc : {op[r].doc}, by : {r}, no : 1 .. n, edited : {FALSE}]
           x == [op[r] EXCEPT !.pc = "inserting", !.size = n, !.pending = new]
<1>3. op' = [op EXCEPT ![r] = x] BY <1>2
<1>4. \A c \in new : c.doc = op[r].doc OBVIOUS
<1> HIDE DEF new
<1>5. x.pc = "inserting" /\ x.pending = new /\ x.doc = op[r].doc /\ x.copy = op[r].copy
      /\ x.alone = op[r].alone
  BY OpType DEF Op
<1> HIDE DEF x
<1>6. Flying(op[r]) BY <1>1 DEF Flying
<1>7. ~overlapped => /\ DOMAIN op[r].copy.loaders = DOMAIN row.loaders
                     /\ Listed(row, op[r].doc)
                     /\ \A c \in chunks : Listed(row, c.doc)
  BY <1>1, <1>6, KeptElim DEF Agrees, CopyPhases
<1>8. ~overlapped => Agrees(x, row', chunks') BY <1>1, <1>4, <1>5, <1>7 DEF Agrees
<1>9. ~overlapped => \A c \in chunks' : Listed(row', c.doc) BY <1>1, <1>7
<1> QED BY <1>1, <1>3, <1>5, <1>6, <1>8, <1>9, OneKept

LEMMA InsertChunkKept ==
    ASSUME StoreInv, OrphanInv, NEW r \in Requests, InsertChunk(r)
    PROVE  OrphanInv'
<1>1. PICK c \in op[r].pending : /\ chunks' = chunks \cup {c}
                                 /\ op' = [op EXCEPT ![r].pending = @ \ {c}]
  BY DEF InsertChunk
<1> DEFINE x == [op[r] EXCEPT !.pending = @ \ {c}]
<1>2. op' = [op EXCEPT ![r] = x] /\ UNCHANGED <<row, overlapped>> BY <1>1 DEF InsertChunk, history
<1>3. x.pc = op[r].pc /\ x.pending \subseteq op[r].pending /\ x.doc = op[r].doc
      /\ x.copy = op[r].copy /\ x.alone = op[r].alone
  BY OpType DEF Op
<1> HIDE DEF x
<1>4. Flying(op[r]) /\ op[r].pc \in {"inserting", "failed"} BY <1>1, OpType DEF Flying, BusyOp
<1>5. ~overlapped => Agrees(op[r], row, chunks) /\ \A d \in chunks : Listed(row, d.doc)
  BY <1>4, KeptElim
<1>6. ~overlapped => Agrees(x, row', chunks') BY <1>2, <1>3, <1>4, <1>5 DEF Agrees
<1>7. ~overlapped => \A d \in chunks' : Listed(row', d.doc) BY <1>1, <1>2, <1>5 DEF Agrees
<1> QED BY <1>2, <1>3, <1>4, <1>6, <1>7, OneKept

LEMMA FinishProcessingKept ==
    ASSUME StoreInv, OrphanInv, NEW r \in Requests, FinishProcessing(r)
    PROVE  OrphanInv'
<1>1. op[r].pc = "inserting" /\ op[r].pending = {} /\ UNCHANGED <<chunks, overlapped>>
  BY DEF FinishProcessing, At
<1>2. Flying(op[r]) BY <1>1 DEF Flying
<1>3. CASE Listed(op[r].copy, op[r].doc)
  <2> DEFINE x == [op[r] EXCEPT !.pc = "reporting", !.copy = Gone, !.size = 0]
  <2>1. /\ row' = Processed(op[r].copy, op[r].doc, op[r].size)
        /\ op' = [op EXCEPT ![r].pc = "reporting", ![r].copy = Gone, ![r].size = 0]
    BY <1>3 DEF FinishProcessing
  <2>2. op' = [op EXCEPT ![r] = x] BY <2>1
  <2>3. x.pc = "reporting" /\ x.doc = op[r].doc /\ x.pending = {} /\ x.alone = op[r].alone
    BY <1>1, OpType DEF Op
  <2> HIDE DEF x
  <2>4. AtLeast(op[r].copy, Drops) /\ Drops \in Nat BY DropsType DEF StoreInv
  <2>5. DOMAIN row'.loaders = DOMAIN op[r].copy.loaders
    BY <1>3, <2>1, <2>4, OpType, ProcessedType DEF Op, Listed
  <2>6. ~overlapped => /\ DOMAIN op[r].copy.loaders = DOMAIN row.loaders
                       /\ \A c \in chunks : Listed(row, c.doc)
    BY <1>1, <1>2, KeptElim DEF Agrees, CopyPhases
  <2>7. Agrees(x, row', chunks') BY <1>3, <2>3, <2>5 DEF Agrees, Listed, CopyPhases
  <2>8. ~overlapped => \A c \in chunks' : Listed(row', c.doc) BY <1>1, <2>5, <2>6 DEF Listed
  <2> QED BY <1>1, <1>2, <2>2, <2>3, <2>7, <2>8, OneKept
<1>4. CASE ~Listed(op[r].copy, op[r].doc)
  <2>1. EndsAs(r, "failed") /\ row' = row BY <1>4 DEF FinishProcessing
  <2> QED BY <1>1, <1>2, <2>1, FailsKept
<1> QED BY <1>3, <1>4

LEMMA ReportKept ==
    ASSUME StoreInv, OrphanInv, NEW r \in Requests, Report(r)
    PROVE  OrphanInv'
<1>1. op[r].pc = "reporting" /\ UNCHANGED <<row, chunks, overlapped>> BY DEF Report, At, history
<1>2. Flying(op[r]) /\ op[r].pending = {} BY <1>1, OpType DEF Flying, BusyOp
<1>3. CASE EndsAs(r, "failed") \/ EndsAs(r, "done") BY <1>1, <1>2, <1>3, FailsKept
<1>4. CASE Goto(r, "configuring")
  <2>1. "configuring" \in Phases /\ "configuring" \in Careless BY DEF Phases, Careless
  <2>2. ~overlapped => \A c \in chunks' : Listed(row', c.doc) BY <1>1, <1>2, KeptElim
  <2> QED BY <1>1, <1>2, <1>4, <2>1, <2>2, GotoKept
<1> QED BY <1>3, <1>4 DEF Report

----------------------------------------------------------------------------
LEMMA NoItemKept ==
    ASSUME StoreInv, OrphanInv, NEW r \in Requests, NoItem(r)
    PROVE  OrphanInv'
<1>1. op[r].pc = "item" /\ EndsAs(r, "done") /\ UNCHANGED <<row, chunks, overlapped>>
  BY DEF NoItem, At, Complete
<1>2. Flying(op[r]) BY <1>1 DEF Flying
<1> QED BY <1>1, <1>2, FailsKept

LEMMA TakeItemKept ==
    ASSUME StoreInv, OrphanInv, NEW r \in Requests, TakeItem(r)
    PROVE  OrphanInv'
<1>1. op[r].pc = "item" /\ UNCHANGED <<row, chunks, overlapped>> BY DEF TakeItem, At, history
<1>2. Flying(op[r]) /\ op[r].pending = {} BY <1>1, OpType DEF Flying, BusyOp
<1>3. CASE EndsAs(r, "failed") BY <1>1, <1>2, <1>3, FailsKept
<1>4. CASE ~EndsAs(r, "failed")
  <2>1. PICK l \in op[r].left :
           op' = [op EXCEPT ![r].pc = "found", ![r].doc = l, ![r].left = @ \ {l}]
    BY <1>4 DEF TakeItem
  <2> DEFINE x == [op[r] EXCEPT !.pc = "found", !.doc = l, !.left = @ \ {l}]
  <2>2. op' = [op EXCEPT ![r] = x] BY <2>1
  <2>3. x.pc = "found" /\ x.pending = {} /\ x.alone = op[r].alone BY <1>2, OpType DEF Op
  <2> HIDE DEF x
  <2>4. Agrees(x, row', chunks') BY <2>3 DEF Agrees, CopyPhases
  <2>5. ~overlapped => \A c \in chunks' : Listed(row', c.doc) BY <1>1, <1>2, KeptElim
  <2> QED BY <1>1, <1>2, <2>2, <2>3, <2>4, <2>5, OneKept
<1> QED BY <1>3, <1>4

LEMMA FindToMarkKept ==
    ASSUME StoreInv, OrphanInv, NEW r \in Requests, FindToMark(r)
    PROVE  OrphanInv'
<1>1. op[r].pc = "found" /\ UNCHANGED <<row, chunks, overlapped>> BY DEF FindToMark, At, history
<1>2. Flying(op[r]) /\ op[r].pending = {} BY <1>1, OpType DEF Flying, BusyOp
<1>3. PICK l \in Target(op[r].doc) :
         op' = [op EXCEPT ![r].pc = "marking", ![r].doc = l, ![r].copy = row]
  BY DEF FindToMark
<1> DEFINE x == [op[r] EXCEPT !.pc = "marking", !.doc = l, !.copy = row]
<1>4. op' = [op EXCEPT ![r] = x] BY <1>3
<1>5. x.pc = "marking" /\ x.pending = {} /\ x.copy = row /\ x.alone = op[r].alone
  BY <1>2, OpType DEF Op
<1> HIDE DEF x
<1>6. Agrees(x, row', chunks') BY <1>1, <1>5 DEF Agrees
<1>7. ~overlapped => \A c \in chunks' : Listed(row', c.doc) BY <1>1, <1>2, KeptElim
<1> QED BY <1>1, <1>2, <1>4, <1>5, <1>6, <1>7, OneKept

\* Saves of the copy with another status.
LEMMA SaveConfigKept ==
    ASSUME StoreInv, OrphanInv, NEW r \in Requests, SaveConfig(r)
    PROVE  OrphanInv'
<1>1. /\ op[r].pc = "saving" /\ row' = Configured(op[r].copy) /\ UNCHANGED <<chunks, overlapped>>
      /\ EndsAs(r, "done") \/ Goto(r, "upserting")
  BY DEF SaveConfig, At, history
<1>2. op[r] \in Op /\ Flying(op[r]) /\ op[r].pending = {} BY <1>1, OpType DEF Flying, BusyOp
<1>3. AtLeast(op[r].copy, Drops) /\ Drops \in Nat BY DropsType DEF StoreInv
<1>4. DOMAIN row'.loaders = DOMAIN op[r].copy.loaders
  BY <1>1, <1>2, <1>3, ConfiguredType DEF Op
<1>5. ~overlapped => /\ DOMAIN op[r].copy.loaders = DOMAIN row.loaders
                     /\ \A c \in chunks : Listed(row, c.doc)
  BY <1>1, <1>2, KeptElim DEF Agrees, CopyPhases
<1>6. ~overlapped => \A c \in chunks' : Listed(row', c.doc) BY <1>1, <1>4, <1>5 DEF Listed
<1>7. CASE EndsAs(r, "done") BY <1>1, <1>2, <1>6, <1>7, EndsKept
<1>8. CASE Goto(r, "upserting")
  <2> DEFINE x == [op[r] EXCEPT !.pc = "upserting"]
  <2>1. x.pc = "upserting" /\ x.copy = op[r].copy /\ x.pending = {} BY <1>2 DEF Op
  <2> HIDE DEF x
  <2>2. Agrees(x, row', chunks') BY <1>4, <2>1 DEF Agrees
  <2>3. "upserting" \in Phases BY DEF Phases
  <2> QED BY <1>1, <1>2, <1>6, <1>8, <2>2, <2>3, GotoKept DEF x
<1> QED BY <1>1, <1>7, <1>8

LEMMA SaveUpsertingKept ==
    ASSUME StoreInv, OrphanInv, NEW r \in Requests, SaveUpserting(r)
    PROVE  OrphanInv'
<1>1. /\ op[r].pc = "upserting" /\ row' = [op[r].copy EXCEPT !.status = "UPSERTING"]
      /\ Goto(r, "loading") /\ UNCHANGED <<chunks, overlapped>>
  BY DEF SaveUpserting, At, history
<1>2. op[r].copy \in Rows /\ Flying(op[r]) /\ op[r].pending = {}
  BY <1>1, OpType DEF Flying, BusyOp, Op
<1>3. DOMAIN row'.loaders = DOMAIN op[r].copy.loaders BY <1>1, <1>2 DEF Rows
<1>4. ~overlapped => /\ DOMAIN op[r].copy.loaders = DOMAIN row.loaders
                     /\ \A c \in chunks : Listed(row, c.doc)
  BY <1>1, <1>2, KeptElim DEF Agrees, CopyPhases
<1>5. ~overlapped => \A c \in chunks' : Listed(row', c.doc) BY <1>1, <1>3, <1>4 DEF Listed
<1>6. "loading" \in Phases /\ "loading" \in Careless BY DEF Phases, Careless
<1> QED BY <1>1, <1>2, <1>5, <1>6, GotoKept

LEMMA IndexingKept ==
    ASSUME StoreInv, OrphanInv, NEW r \in Requests, Indexing(r)
    PROVE  OrphanInv'
<1>1. PICK pc \in IndexPhases \cup {"finishing"} : \E docs :
         /\ op' = [op EXCEPT ![r] = [op[r] EXCEPT !.pc = pc, !.docs = docs]]
         /\ op[r].pc \in IndexPhases \cup {"reading", "unindexing"}
         /\ UNCHANGED <<row, chunks, overlapped>>
  BY IndexingStep
<1>2. PICK docs :
         /\ op' = [op EXCEPT ![r] = [op[r] EXCEPT !.pc = pc, !.docs = docs]]
         /\ op[r].pc \in IndexPhases \cup {"reading", "unindexing"}
         /\ UNCHANGED <<row, chunks, overlapped>>
  BY <1>1
<1> DEFINE x == [op[r] EXCEPT !.pc = pc, !.docs = docs]
<1>3. Flying(op[r]) /\ op[r].pending = {} /\ op[r].pc \in CopyPhases
  BY <1>2, OpType DEF Flying, BusyOp, IndexPhases, CopyPhases
<1>4. x.pc = pc /\ x.copy = op[r].copy /\ x.pending = {} /\ x.alone = op[r].alone
  BY <1>3, OpType DEF Op
<1>5. op' = [op EXCEPT ![r] = x] BY <1>2
<1> HIDE DEF x
<1>6. ~overlapped => /\ DOMAIN op[r].copy.loaders = DOMAIN row.loaders
                     /\ \A c \in chunks : Listed(row, c.doc)
  BY <1>3, KeptElim DEF Agrees
<1>7. ~overlapped => Agrees(x, row', chunks') BY <1>2, <1>4, <1>6 DEF Agrees, IndexPhases
<1>8. x.pc # "removing" BY <1>4 DEF IndexPhases
<1> QED BY <1>2, <1>3, <1>4, <1>5, <1>6, <1>7, <1>8, OneKept

LEMMA FinishUpsertKept ==
    ASSUME StoreInv, OrphanInv, NEW r \in Requests, FinishUpsert(r)
    PROVE  OrphanInv'
<1> DEFINE x == [op[r] EXCEPT !.pc = "item", !.copy = Gone, !.docs = {}]
<1>1. /\ op[r].pc = "finishing" /\ row' = [op[r].copy EXCEPT !.status = "UPSERTED"]
      /\ UNCHANGED <<chunks, overlapped>>
      /\ EndsAs(r, "done") \/ op' = [op EXCEPT ![r] = x]
  BY OpType DEF FinishUpsert, At, Complete, Op
<1>2. op[r].copy \in Rows /\ Flying(op[r]) /\ op[r].pending = {}
  BY <1>1, OpType DEF Flying, BusyOp, Op
<1>3. DOMAIN row'.loaders = DOMAIN op[r].copy.loaders BY <1>1, <1>2 DEF Rows
<1>4. ~overlapped => /\ DOMAIN op[r].copy.loaders = DOMAIN row.loaders
                     /\ \A c \in chunks : Listed(row, c.doc)
  BY <1>1, <1>2, KeptElim DEF Agrees, CopyPhases
<1>5. ~overlapped => \A c \in chunks' : Listed(row', c.doc) BY <1>1, <1>3, <1>4 DEF Listed
<1>6. CASE EndsAs(r, "done") BY <1>1, <1>2, <1>5, <1>6, EndsKept
<1>7. CASE op' = [op EXCEPT ![r] = x]
  <2>1. x.pc = "item" /\ x.pending = {} /\ x.alone = op[r].alone BY <1>2, OpType DEF Op
  <2> HIDE DEF x
  <2>2. Agrees(x, row', chunks') BY <2>1 DEF Agrees, CopyPhases
  <2> QED BY <1>1, <1>2, <1>5, <1>7, <2>1, <2>2, OneKept
<1> QED BY <1>1, <1>6, <1>7

----------------------------------------------------------------------------
LEMMA ClearKept ==
    ASSUME StoreInv, OrphanInv, NEW r \in Requests, Clear(r)
    PROVE  OrphanInv'
<1> DEFINE x == [op[r] EXCEPT !.pc = "unlisting"]
<1>1. /\ op[r].pc = "clearing" /\ Goto(r, "unlisting") /\ UNCHANGED <<row, overlapped>>
      /\ chunks' = chunks \ ChunksOf(op[r].doc)
  BY DEF Clear, ClearChunks, At, history
<1>2. Flying(op[r]) /\ op[r].pending = {} BY <1>1, OpType DEF Flying, BusyOp
<1>3. x.pc = "unlisting" /\ x.copy = op[r].copy /\ x.pending = {} /\ x.doc = op[r].doc
  BY <1>2, OpType DEF Op
<1> HIDE DEF x
<1>4. ~overlapped => /\ DOMAIN op[r].copy.loaders = DOMAIN row.loaders
                     /\ \A c \in chunks : Listed(row, c.doc)
  BY <1>1, <1>2, KeptElim DEF Agrees, CopyPhases
<1>5. \A c \in chunks' : c.doc # x.doc BY <1>1, <1>3 DEF ChunksOf
<1>6. ~overlapped => Agrees(x, row', chunks') BY <1>1, <1>3, <1>4, <1>5 DEF Agrees
<1>7. ~overlapped => \A c \in chunks' : Listed(row', c.doc) BY <1>1, <1>4
<1>8. "unlisting" \in Phases BY DEF Phases
<1> QED BY <1>1, <1>2, <1>6, <1>7, <1>8, GotoKept DEF x

\* The chunk rows went before the loader does.
LEMMA UnlistKept ==
    ASSUME StoreInv, OrphanInv, NEW r \in Requests, Unlist(r)
    PROVE  OrphanInv'
<1> DEFINE y == [op[r].copy EXCEPT !.loaders = [j \in DOMAIN @ \ {op[r].doc} |-> @[j]]]
<1>1. /\ op[r].pc = "unlisting" /\ row' = y /\ EndsAs(r, "done") /\ UNCHANGED <<chunks, overlapped>>
  BY DEF Unlist, At, history
<1>2. op[r].copy \in Rows /\ Flying(op[r]) /\ op[r].pending = {}
  BY <1>1, OpType DEF Flying, BusyOp, Op
<1>3. AtLeast(op[r].copy, Drops) /\ Drops \in Nat BY DropsType DEF StoreInv
<1>4. DOMAIN y.loaders = DOMAIN op[r].copy.loaders \ {op[r].doc} BY <1>2, <1>3, UnlistedType
<1> HIDE DEF y
<1>5. ~overlapped => /\ DOMAIN op[r].copy.loaders = DOMAIN row.loaders
                     /\ \A c \in chunks : Listed(row, c.doc) /\ c.doc # op[r].doc
  BY <1>1, <1>2, KeptElim DEF Agrees, CopyPhases
<1>6. ~overlapped => \A c \in chunks' : Listed(row', c.doc) BY <1>1, <1>4, <1>5 DEF Listed
<1> QED BY <1>1, <1>2, <1>6, EndsKept

LEMMA FindChunkKept ==
    ASSUME StoreInv, OrphanInv, NEW r \in Requests, FindChunk(r)
    PROVE  OrphanInv'
<1> DEFINE found == {c \in chunks : \E d \in op[r].docs : Same(c, d)}
           x == [op[r] EXCEPT !.pc = "changing", !.docs = found]
<1>1. /\ op[r].pc = "seeking" /\ UNCHANGED <<row, chunks, overlapped>>
      /\ EndsAs(r, "failed") \/ op' = [op EXCEPT ![r] = x]
  BY DEF FindChunk, At, history
<1>2. Flying(op[r]) /\ op[r].pending = {} BY <1>1, OpType DEF Flying, BusyOp
<1>3. found \subseteq chunks OBVIOUS
<1> HIDE DEF found
<1>4. /\ x.pc = "changing" /\ x.copy = op[r].copy /\ x.pending = {} /\ x.alone = op[r].alone
      /\ x.docs = found
  BY <1>2, OpType DEF Op
<1> HIDE DEF x
<1>5. ~overlapped => /\ DOMAIN op[r].copy.loaders = DOMAIN row.loaders
                     /\ \A c \in chunks : Listed(row, c.doc)
  BY <1>1, <1>2, KeptElim DEF Agrees, CopyPhases
<1>6. ~overlapped => Agrees(x, row', chunks') BY <1>1, <1>3, <1>4, <1>5 DEF Agrees
<1>7. CASE EndsAs(r, "failed") BY <1>1, <1>2, <1>7, FailsKept
<1>8. CASE op' = [op EXCEPT ![r] = x] BY <1>1, <1>2, <1>4, <1>5, <1>6, <1>8, OneKept
<1> QED BY <1>1, <1>7, <1>8

\* The save of an edited row may insert it, but then its loader is listed.
LEMMA ChangeChunkKept ==
    ASSUME StoreInv, OrphanInv, NEW r \in Requests, ChangeChunk(r)
    PROVE  OrphanInv'
<1> DEFINE x == [op[r] EXCEPT !.pc = "counting"]
<1>1. op[r].pc = "changing" /\ Goto(r, "counting") /\ UNCHANGED <<row, overlapped>>
  BY DEF ChangeChunk, At, history
<1>2. /\ Flying(op[r]) /\ op[r].pending = {} /\ op[r].docs \subseteq Chunk
  BY <1>1, OpType DEF Flying, BusyOp, Op
<1>3. x.pc = "counting" /\ x.copy = op[r].copy /\ x.pending = {} BY <1>2, OpType DEF Op
<1> HIDE DEF x
<1>4. ~overlapped => /\ DOMAIN op[r].copy.loaders = DOMAIN row.loaders
                     /\ \A c \in chunks \cup op[r].docs : Listed(row, c.doc)
  BY <1>1, <1>2, KeptElim DEF Agrees, CopyPhases
<1>5. ASSUME NEW d \in Chunk PROVE [d EXCEPT !.edited = TRUE].doc = d.doc BY DEF Chunk
<1>6. \A c \in chunks' : \E d \in chunks \cup op[r].docs : c.doc = d.doc
  BY <1>2, <1>5 DEF ChangeChunk
<1>7. ~overlapped => \A c \in chunks' : Listed(row', c.doc) BY <1>1, <1>4, <1>6
<1>8. ~overlapped => Agrees(x, row', chunks') BY <1>1, <1>3, <1>4 DEF Agrees
<1>9. "counting" \in Phases BY DEF Phases
<1> QED BY <1>1, <1>2, <1>7, <1>8, <1>9, GotoKept DEF x

LEMMA SaveTotalsKept ==
    ASSUME StoreInv, OrphanInv, NEW r \in Requests, SaveTotals(r)
    PROVE  OrphanInv'
<1>1. /\ op[r].pc = "counting" /\ EndsAs(r, "done") /\ UNCHANGED <<chunks, overlapped>>
      /\ row' = op[r].copy \/ row' = Recount(op[r].copy, op[r].doc)
  BY DEF SaveTotals, At, history
<1>2. op[r].copy \in Rows /\ Flying(op[r]) /\ op[r].pending = {}
  BY <1>1, OpType DEF Flying, BusyOp, Op
<1>3. DOMAIN row'.loaders = DOMAIN op[r].copy.loaders
  BY <1>1, <1>2 DEF Recount, Rows
<1>4. ~overlapped => /\ DOMAIN op[r].copy.loaders = DOMAIN row.loaders
                     /\ \A c \in chunks : Listed(row, c.doc)
  BY <1>1, <1>2, KeptElim DEF Agrees, CopyPhases
<1>5. ~overlapped => \A c \in chunks' : Listed(row', c.doc) BY <1>1, <1>3, <1>4 DEF Listed
<1> QED BY <1>1, <1>2, <1>5, EndsKept

LEMMA EraseChunksKept ==
    ASSUME StoreInv, OrphanInv, NEW r \in Requests, EraseChunks(r)
    PROVE  OrphanInv'
<1>1. op[r].pc = "erasing" /\ chunks' = {} /\ Goto(r, "removing") /\ UNCHANGED <<row, overlapped>>
  BY DEF EraseChunks, At, history
<1>2. Flying(op[r]) /\ op[r].pending = {} BY <1>1, OpType DEF Flying, BusyOp
<1>3. "removing" \in Phases /\ "removing" \in Careless BY DEF Phases, Careless
<1> QED BY <1>1, <1>2, <1>3, GotoKept

\* A deletion that was alone finds no chunk rows when it removes the row, and no
\* other request in flight: whatever overlapped before is over.
LEMMA RemoveRowKept ==
    ASSUME StoreInv, OrphanInv, NEW r \in Requests, RemoveRow(r)
    PROVE  OrphanInv'
<1>1. /\ op[r].pc = "removing" /\ row' = Gone /\ EndsAs(r, "done") /\ chunks' = chunks
      /\ overlapped' = (overlapped /\ ~op[r].alone)
  BY DEF RemoveRow, At
<1>2. Flying(op[r]) /\ op[r].pending = {} BY <1>1, OpType DEF Flying, BusyOp
<1>3. CASE ~op[r].alone
  <2>1. overlapped BY <1>2, <1>3 DEF OrphanInv, Serial
  <2>2. overlapped' = overlapped BY <1>1, <1>3, StillTyped
  <2> QED BY <1>1, <1>2, <2>1, <2>2, EndsKept
<1>4. CASE op[r].alone
  <2>1. chunks' = {} BY <1>1, <1>4 DEF OrphanInv
  <2>2. op \in [Requests -> Op] /\ op' = [op EXCEPT ![r] = Over(op[r], "done")]
    BY <1>1 DEF StoreInv, StoreTypeOK, EndsAs
  <2>3. ~Flying(Over(op[r], "done")) BY <1>2, OpType, OverType DEF Flying
  <2>4. ASSUME NEW q \in Requests PROVE ~Flying(op'[q])
    <3>1. CASE q = r BY <2>2, <2>3, <3>1
    <3>2. CASE q # r
      <4>1. op'[q] = op[q] BY <2>2, <3>2
      <4>2. ~Flying(op[q]) BY <1>2, <1>4, <3>2 DEF OrphanInv, Serial
      <4> QED BY <4>1, <4>2
    <3> QED BY <3>1, <3>2
  <2> QED BY <2>1, <2>4 DEF OrphanInv, Serial
<1> QED BY <1>3, <1>4

LEMMA TouchKept ==
    ASSUME StoreInv, OrphanInv, NEW r \in Requests, Touch(r)
    PROVE  OrphanInv'
<1>1. /\ op[r].pc = "touching" /\ row' = op[r].copy /\ EndsAs(r, "done")
      /\ UNCHANGED <<chunks, overlapped>>
  BY DEF Touch, At, history
<1>2. Flying(op[r]) /\ op[r].pending = {} BY <1>1, OpType DEF Flying, BusyOp
<1>3. ~overlapped => /\ DOMAIN op[r].copy.loaders = DOMAIN row.loaders
                     /\ \A c \in chunks : Listed(row, c.doc)
  BY <1>1, <1>2, KeptElim DEF Agrees, CopyPhases
<1>4. ~overlapped => \A c \in chunks' : Listed(row', c.doc) BY <1>1, <1>3 DEF Listed
<1> QED BY <1>1, <1>2, <1>4, EndsKept

LEMMA LooksKept ==
    ASSUME StoreInv, OrphanInv, NEW r \in Requests,
           (Forget(r) /\ Kind(r) = "unindex") \/ NotFound(r)
    PROVE  OrphanInv'
<1>1. EndsAs(r, "done") \/ EndsAs(r, "failed") BY DEF Forget, NotFound
<1>2. UNCHANGED <<row, chunks, overlapped>> /\ Flying(op[r])
  BY DEF Forget, NotFound, history, At, Flying
<1> QED BY <1>1, <1>2, FailsKept

LEMMA ThrowKept ==
    ASSUME StoreInv, OrphanInv, NEW r \in Requests, Throw(r)
    PROVE  OrphanInv'
<1>1. Flying(op[r]) /\ UNCHANGED <<row, chunks, overlapped>> BY DEF Throw, Flying
<1>2. CASE EndsAs(r, "failed") BY <1>1, <1>2, FailsKept
<1>3. CASE ~EndsAs(r, "failed")
  <2>1. PICK c \in op[r].pending :
           LET o == Over(op[r], "failed") IN
           op' = [op EXCEPT ![r] = [o EXCEPT !.pending = o.pending \ {c}]]
    BY <1>3 DEF Throw
  <2> DEFINE o == Over(op[r], "failed")
             x == [o EXCEPT !.pending = o.pending \ {c}]
  <2>2. op' = [op EXCEPT ![r] = x] BY <2>1
  <2>3. o \in Op /\ o.pc = "failed" /\ o.pending = op[r].pending BY OpType, OverType
  <2>4. o.alone = op[r].alone BY OpType DEF Over, Op
  <2> HIDE DEF o
  <2>5. x.pc = "failed" /\ x.pending \subseteq op[r].pending /\ x.alone = op[r].alone
    BY <2>3, <2>4 DEF Op
  <2> HIDE DEF x
  <2>6. ~overlapped => Agrees(op[r], row, chunks) /\ \A d \in chunks : Listed(row, d.doc)
    BY <1>1, KeptElim
  <2>7. ~overlapped => Agrees(x, row', chunks') BY <1>1, <2>5, <2>6 DEF Agrees, CopyPhases
  <2> QED BY <1>1, <2>2, <2>5, <2>6, <2>7, OneKept
<1> QED BY <1>2, <1>3

----------------------------------------------------------------------------
\* A process that dies takes pending insertions with it and puts nothing in
\* flight that was not.
LEMMA AllKept ==
    ASSUME StoreInv, OrphanInv, UNCHANGED <<row, chunks, overlapped>>,
           \A q \in Requests :
              /\ op'[q].alone = op[q].alone
              /\ Flying(op'[q]) => Flying(op[q])
              /\ Flying(op'[q]) /\ ~overlapped => Agrees(op'[q], row, chunks)
              /\ op'[q].pc = "removing" => op[q].pc = "removing"
    PROVE  OrphanInv'
<1>1. Serial' BY DEF OrphanInv, Serial
<1> QED BY <1>1 DEF OrphanInv

LEMMA RestartedKept ==
    ASSUME StoreInv, OrphanInv, NEW r \in Requests, InJob(r)
    PROVE  /\ Flying(op[r]) /\ Restarted(r).pc # "removing"
           /\ ~overlapped => Agrees(Restarted(r), row, chunks)
<1> DEFINE x == Restarted(r)
<1>1. Flying(op[r]) BY DEF InJob, Flying
<1>2. x.pending = {} BY RestartedType
<1>3. /\ x.pc \in {"marked", "item", "configuring"}
      /\ x.pc = "marked" =>
            /\ x.doc = op[r].doc
            /\ op[r].pc \in {"marked", "splitting", "inserting", "reporting"}
  <2>1. x.pc = IF Kind(r) \in UploadKinds THEN "marked"
               ELSE IF Kind(r) \in UpsertKinds THEN "item" ELSE "configuring"
    BY RestType DEF Restarted, Op
  <2>2. x.doc = IF Kind(r) \in UploadKinds THEN op[r].doc ELSE NoLoader
    BY RestType DEF Restarted, Op
  <2>3. Kind(r) \in UploadKinds => op[r].pc \in {"marked", "splitting", "inserting", "reporting"}
    BY DEF InJob, UploadKinds, UpsertKinds
  <2> HIDE DEF x
  <2> QED BY <2>1, <2>2, <2>3
<1> HIDE DEF x
<1>4. ~overlapped => Agrees(op[r], row, chunks) BY <1>1, KeptElim
<1>5. ~overlapped => Agrees(x, row, chunks) BY <1>2, <1>3, <1>4 DEF Agrees, CopyPhases
<1> QED BY <1>1, <1>3, <1>5 DEF x

LEMMA DroppedPendingKept ==
    ASSUME NEW o \in Op, NEW now, NEW rows
    PROVE  LET x == [o EXCEPT !.pending = {}] IN
           /\ Flying(x) => Flying(o)
           /\ Agrees(o, now, rows) => Agrees(x, now, rows)
<1> DEFINE x == [o EXCEPT !.pending = {}]
<1>1. /\ x.copy = o.copy /\ x.pc = o.pc /\ x.doc = o.doc /\ x.docs = o.docs /\ x.pending = {}
  BY DEF Op
<1> HIDE DEF x
<1>2. Flying(x) => Flying(o) BY <1>1 DEF Flying
<1>3. Agrees(o, now, rows) => Agrees(x, now, rows) BY <1>1 DEF Agrees
<1> QED BY <1>2, <1>3 DEF x

LEMMA WorkerDiesKept ==
    ASSUME StoreInv, OrphanInv, WorkerDies
    PROVE  OrphanInv'
<1> DEFINE next(q) == IF InJob(q) THEN Restarted(q) ELSE [op[q] EXCEPT !.pending = {}]
<1>1. op' = [q \in Requests |-> next(q)] /\ UNCHANGED <<row, chunks, overlapped>>
  BY DEF WorkerDies, history
<1>2. ASSUME NEW q \in Requests
      PROVE  /\ next(q).alone = op[q].alone
             /\ Flying(next(q)) => Flying(op[q])
             /\ Flying(next(q)) /\ ~overlapped => Agrees(next(q), row, chunks)
             /\ next(q).pc = "removing" => op[q].pc = "removing"
  <2>1. CASE InJob(q) BY <2>1, RestartedKept, RestartedType
  <2>2. CASE ~InJob(q)
    <3>1. next(q) = [op[q] EXCEPT !.pending = {}] BY <2>2
    <3>2. Flying(next(q)) => Flying(op[q]) BY <3>1, OpType, DroppedPendingKept
    <3>3. Agrees(op[q], row, chunks) => Agrees(next(q), row, chunks)
      BY <3>1, OpType, DroppedPendingKept
    <3>4. next(q).alone = op[q].alone /\ next(q).pc = op[q].pc
      BY <3>1, OpType, DroppedPendingType
    <3> HIDE DEF next
    <3> QED BY <3>2, <3>3, <3>4, KeptElim
  <2> QED BY <2>1, <2>2
<1> HIDE DEF next
<1>3. \A q \in Requests : op'[q] = next(q) BY <1>1
<1> QED BY <1>1, <1>2, <1>3, AllKept

LEMMA ServerDiesKept ==
    ASSUME StoreInv, OrphanInv, ServerDies
    PROVE  OrphanInv'
<1> DEFINE lost == {q \in Requests : op[q].pc \notin {"idle", "done", "failed"} /\ ~InJob(q)}
           o(q) == IF q \in lost THEN Over(op[q], "failed") ELSE op[q]
           next(q) == IF setup.queue THEN o(q) ELSE [o(q) EXCEPT !.pending = {}]
<1>1. op' = [q \in Requests |-> next(q)] /\ UNCHANGED <<row, chunks, overlapped>>
  BY DEF ServerDies
<1>2. ASSUME NEW q \in Requests
      PROVE  /\ next(q).alone = op[q].alone
             /\ Flying(next(q)) => Flying(op[q])
             /\ Flying(next(q)) /\ ~overlapped => Agrees(next(q), row, chunks)
             /\ next(q).pc = "removing" => op[q].pc = "removing"
  <2>1. /\ o(q) \in Op /\ BusyOp(o(q)) /\ o(q).alone = op[q].alone
        /\ Flying(o(q)) => Flying(op[q])
        /\ Agrees(op[q], row, chunks) => Agrees(o(q), row, chunks)
        /\ o(q).pc = "removing" => op[q].pc = "removing"
    <3>1. CASE q \in lost
      <4> DEFINE x == Over(op[q], "failed")
      <4>1. /\ x \in Op /\ x.pc = "failed" /\ x.pending = op[q].pending /\ BusyOp(x)
        BY OpType, OverType
      <4>2. x.alone = op[q].alone BY OpType DEF Over, Op
      <4>3. o(q) = x BY <3>1
      <4> HIDE DEF x, o
      <4>4. Flying(x) => Flying(op[q]) BY <4>1 DEF Flying
      <4>5. Agrees(op[q], row, chunks) => Agrees(x, row, chunks)
        BY <4>1 DEF Agrees, CopyPhases
      <4> QED BY <4>1, <4>2, <4>3, <4>4, <4>5
    <3>2. CASE q \notin lost BY <3>2, OpType
    <3> QED BY <3>1, <3>2
  <2> HIDE DEF o
  <2>2. CASE setup.queue BY <2>1, <2>2, KeptElim
  <2>3. CASE ~setup.queue
    <3>1. next(q) = [o(q) EXCEPT !.pending = {}] BY <2>3
    <3>2. Flying(next(q)) => Flying(o(q)) BY <3>1, <2>1, DroppedPendingKept
    <3>3. Agrees(o(q), row, chunks) => Agrees(next(q), row, chunks)
      BY <3>1, <2>1, DroppedPendingKept
    <3>4. next(q).alone = o(q).alone /\ next(q).pc = o(q).pc
      BY <3>1, <2>1, DroppedPendingType
    <3> HIDE DEF next
    <3> QED BY <2>1, <3>2, <3>3, <3>4, KeptElim
  <2> QED BY <2>2, <2>3
<1> HIDE DEF next
<1>3. \A q \in Requests : op'[q] = next(q) BY <1>1
<1> QED BY <1>1, <1>2, <1>3, AllKept

----------------------------------------------------------------------------
\* A request that begins alone agrees with the row it reads.
LEMMA EnterKept ==
    ASSUME StoreInv, OrphanInv, NEW r \in Requests, NEW start \in Op, Enter(r, start),
           start.pc # "removing", Agrees(start, row, chunks)
    PROVE  OrphanInv'
<1> DEFINE others == {q \in Requests : InFlight(q)}
           next(q) == IF q = r THEN [start EXCEPT !.alone = (others = {})]
                      ELSE IF q \in others THEN [op[q] EXCEPT !.alone = FALSE] ELSE op[q]
<1>1. /\ op' = [q \in Requests |-> next(q)] /\ UNCHANGED <<row, chunks>>
      /\ overlapped' = (overlapped \/ others # {})
  BY DEF Enter
<1>2. \A q \in Requests : q \in others <=> Flying(op[q]) BY FlyingInFlight
<1>3. (others = {}) \in BOOLEAN OBVIOUS
<1>4. next(r) = [start EXCEPT !.alone = (others = {})] OBVIOUS
<1>5. \A q \in Requests \ {r} : IF q \in others THEN next(q) = [op[q] EXCEPT !.alone = FALSE]
                                ELSE next(q) = op[q]
  OBVIOUS
<1>6. \A q \in Requests : op'[q] = next(q) BY <1>1
<1> HIDE DEF next, others
<1>7. /\ next(r).alone = (others = {}) /\ next(r).pc = start.pc /\ next(r).doc = start.doc
      /\ next(r).copy = start.copy /\ next(r).pending = start.pending /\ next(r).docs = start.docs
  BY <1>3, <1>4 DEF Op
<1>8. ASSUME NEW q \in Requests \ {r}
      PROVE  /\ Flying(next(q)) => q \in others
             /\ q \in others => ~next(q).alone
             /\ q \notin others => next(q) = op[q]
  <2>1. CASE q \in others
    <3>1. next(q).alone = FALSE BY <1>5, <2>1, OpType DEF Op
    <3> QED BY <2>1, <3>1
  <2>2. CASE q \notin others BY <1>2, <1>5, <2>2
  <2> QED BY <2>1, <2>2
<1>9. ASSUME NEW q \in Requests, NEW p \in Requests, Flying(op'[q]), Flying(op'[p]), op'[q].alone
      PROVE  p = q
  <2>1. q = r BY <1>6, <1>8, <1>9
  <2>2. others = {} BY <1>6, <1>7, <1>9, <2>1
  <2>3. p = r BY <1>6, <1>8, <1>9, <2>2
  <2> QED BY <2>1, <2>3
<1>10. ASSUME NEW q \in Requests, ~overlapped', Flying(op'[q])
       PROVE  op'[q].alone /\ Agrees(op'[q], row', chunks')
  <2>1. others = {} BY <1>1, <1>10
  <2>2. q = r BY <1>6, <1>8, <1>10, <2>1
  <2>3. op'[q].alone BY <1>6, <1>7, <2>1, <2>2
  <2>4. Agrees(op'[q], row', chunks') BY <1>1, <1>6, <1>7, <2>2 DEF Agrees
  <2> QED BY <2>3, <2>4
<1>11. Serial' BY <1>9, <1>10 DEF Serial
<1>12. ~overlapped' => ~overlapped BY <1>1
<1>13. ~overlapped' => \A c \in chunks' : Listed(row', c.doc) BY <1>1, <1>12 DEF OrphanInv
<1>14. ASSUME NEW q \in Requests, op'[q].pc = "removing", op'[q].alone PROVE chunks' = {}
  <2>1. q # r BY <1>6, <1>7, <1>14
  <2>2. q \notin others BY <1>6, <1>8, <1>14, <2>1
  <2>3. op[q].pc = "removing" BY <1>6, <1>8, <1>14, <2>1, <2>2
  <2> QED BY <1>2, <2>2, <2>3, BusyFlies
<1> QED BY <1>10, <1>11, <1>13, <1>14 DEF OrphanInv

LEMMA StartKept ==
    ASSUME StoreInv, OrphanInv, NEW r \in Requests, NEW start \in Op, Enter(r, start),
           start.pc \in {"marking", "item", "configuring", "clearing", "seeking", "erasing",
                         "touching", "unindexing"},
           start.pending = {}, \A c \in start.docs : Listed(row, c.doc),
           start.copy = row \/ start.pc \notin CopyPhases
    PROVE  OrphanInv'
<1>1. Agrees(start, row, chunks) BY DEF Agrees
<1> QED BY <1>1, EnterKept

LEMMA BeginKept ==
    ASSUME StoreInv, OrphanInv, NEW r \in Requests, Begin(r)
    PROVE  OrphanInv'
<1>1. Rest \in Op /\ Rest.pending = {} /\ Rest.docs = {} BY RestType DEF Rest
<1>2. row \in Rows /\ DOMAIN row.loaders \in SUBSET Loaders /\ chunks \subseteq Chunk
  BY OpType, StillTyped, RowElim
<1>3. CASE BeginUpload(r)
  <2>1. PICK l \in Loaders :
           Enter(r, [Rest EXCEPT !.pc = "marking", !.doc = l, !.items = {l}, !.copy = row])
    BY <1>2, <1>3 DEF BeginUpload, Fresh
  <2> DEFINE x == [Rest EXCEPT !.pc = "marking", !.doc = l, !.items = {l}, !.copy = row]
  <2>2. x \in Op /\ x.pending = {} /\ x.docs = {} /\ x.copy = row /\ x.pc = "marking"
    BY <1>1, <1>2 DEF Op, Phases
  <2> HIDE DEF x
  <2> QED BY <2>1, <2>2, StartKept DEF x
<1>4. CASE BeginUpsert(r)
  <2>1. PICK S \in Items(r) : Enter(r, [Rest EXCEPT !.pc = "item", !.items = S, !.left = S])
    BY <1>4 DEF BeginUpsert
  <2>2. Kind(r) \in UpsertKinds BY <1>4 DEF BeginUpsert
  <2>3. S \subseteq Loaders \cup {NoLoader} BY <1>2, <2>2, ItemsType
  <2> DEFINE x == [Rest EXCEPT !.pc = "item", !.items = S, !.left = S]
  <2>4. x \in Op /\ x.pending = {} /\ x.docs = {} /\ x.pc = "item"
    BY <1>1, <2>3 DEF Op, Phases
  <2> HIDE DEF x
  <2> QED BY <2>1, <2>4, StartKept DEF x, CopyPhases
<1>5. CASE BeginInsert(r) \/ BeginDelete(r)
  <2>1. PICK pc \in {"configuring", "erasing"} : Enter(r, [Rest EXCEPT !.pc = pc])
    BY <1>5 DEF BeginInsert, BeginDelete
  <2> DEFINE x == [Rest EXCEPT !.pc = pc]
  <2>2. x \in Op /\ x.pending = {} /\ x.docs = {} /\ x.pc \in {"configuring", "erasing"}
    BY <1>1 DEF Op, Phases
  <2> HIDE DEF x
  <2> QED BY <2>1, <2>2, StartKept DEF x, CopyPhases
<1>6. CASE BeginUnlist(r)
  <2>1. PICK l \in Loaders : Enter(r, [Rest EXCEPT !.pc = "clearing", !.doc = l, !.copy = row])
    BY <1>2, <1>6 DEF BeginUnlist
  <2> DEFINE x == [Rest EXCEPT !.pc = "clearing", !.doc = l, !.copy = row]
  <2>2. x \in Op /\ x.pending = {} /\ x.docs = {} /\ x.copy = row /\ x.pc = "clearing"
    BY <1>1, <1>2 DEF Op, Phases
  <2> HIDE DEF x
  <2> QED BY <2>1, <2>2, StartKept DEF x
<1>7. CASE BeginChunk(r)
  <2>1. PICK c \in chunks :
           /\ Listed(row, c.doc)
           /\ Enter(r, [Rest EXCEPT !.pc = "seeking", !.doc = c.doc, !.docs = {c}, !.copy = row])
    BY <1>7 DEF BeginChunk
  <2>2. c \in Chunk /\ c.doc \in Loaders BY <1>2 DEF Chunk
  <2> DEFINE x == [Rest EXCEPT !.pc = "seeking", !.doc = c.doc, !.docs = {c}, !.copy = row]
  <2>3. x \in Op /\ x.pending = {} /\ x.docs = {c} /\ x.copy = row /\ x.pc = "seeking"
    BY <1>1, <1>2, <2>2 DEF Op, Phases
  <2> HIDE DEF x
  <2>4. Enter(r, x) BY <2>1 DEF x
  <2> QED BY <2>1, <2>3, <2>4, StartKept
<1>8. CASE BeginTouch(r)
  <2> DEFINE x == [Rest EXCEPT !.pc = "touching", !.copy = row]
  <2>1. x \in Op /\ x.pending = {} /\ x.docs = {} /\ x.copy = row /\ x.pc = "touching"
    BY <1>1, <1>2 DEF Op, Phases
  <2>2. Enter(r, x) BY <1>8 DEF BeginTouch
  <2> HIDE DEF x
  <2> QED BY <2>1, <2>2, StartKept
<1>9. CASE BeginUnindex(r)
  <2>1. PICK l \in Loaders \cup {NoLoader} :
           Enter(r, [Rest EXCEPT !.pc = "unindexing", !.doc = l, !.copy = row])
    BY <1>2, <1>9 DEF BeginUnindex
  <2> DEFINE x == [Rest EXCEPT !.pc = "unindexing", !.doc = l, !.copy = row]
  <2>2. x \in Op /\ x.pending = {} /\ x.docs = {} /\ x.copy = row /\ x.pc = "unindexing"
    BY <1>1, <1>2 DEF Op, Phases
  <2> HIDE DEF x
  <2>3. Enter(r, x) BY <2>1 DEF x
  <2> QED BY <2>2, <2>3, StartKept
<1> QED BY <1>3, <1>4, <1>5, <1>6, <1>7, <1>8, <1>9 DEF Begin

LEMMA InitKept == Init => OrphanInv
<1> SUFFICES ASSUME Init PROVE OrphanInv OBVIOUS
<1>1. \A r \in Requests : op[r] = Rest BY DEF Init
<1>2. ~Flying(Rest) /\ Rest.pc # "removing" BY DEF Flying, Rest
<1>3. \A c \in chunks : Listed(row, c.doc) BY DEF Init, Listing, Listed
<1> QED BY <1>1, <1>2, <1>3 DEF OrphanInv, Serial

LEMMA NextKept == StoreInv /\ OrphanInv /\ [Next]_vars => OrphanInv'
<1> SUFFICES ASSUME StoreInv, OrphanInv, [Next]_vars PROVE OrphanInv' OBVIOUS
<1>1. ASSUME NEW r \in Requests, Begin(r) PROVE OrphanInv' BY <1>1, BeginKept
<1>2. ASSUME NEW r \in Requests, Step(r) PROVE OrphanInv'
  BY <1>2, MarkKept, FindsKept, SplitKept, InsertChunkKept, FinishProcessingKept, ReportKept,
     NoItemKept, TakeItemKept, FindToMarkKept, SaveConfigKept, SaveUpsertingKept, IndexingKept,
     FinishUpsertKept, ClearKept, UnlistKept, FindChunkKept, ChangeChunkKept,
     SaveTotalsKept, EraseChunksKept, RemoveRowKept, TouchKept, LooksKept
     DEF Step, Indexing
<1>3. ASSUME NEW r \in Requests, Throw(r) PROVE OrphanInv' BY <1>3, ThrowKept
<1>4. CASE WorkerDies BY <1>4, WorkerDiesKept
<1>5. CASE ServerDies BY <1>5, ServerDiesKept
<1>6. CASE UNCHANGED vars BY <1>6 DEF vars, OrphanInv, Serial
<1> QED BY <1>1, <1>2, <1>3, <1>4, <1>5, <1>6 DEF Next

\* As long as operations do not overlap, no chunk row is left without a loader
\* that lists it, whatever throws and whoever dies; and a deletion of the store
\* that runs alone makes good whatever overlapped before it.
THEOREM NothingOrphaned == Spec => []NoOrphans
<1>1. OrphanInv => NoOrphans BY DEF OrphanInv, NoOrphans
<1>2. Init => StoreInv /\ IndexTypeOK /\ OrphanInv BY InitTyped, InitIndexTyped, InitKept
<1>3. StoreInv /\ IndexTypeOK /\ OrphanInv /\ [Next]_vars
         => (StoreInv /\ IndexTypeOK /\ OrphanInv)'
  BY NextTyped, NextIndexTyped, NextKept
<1> QED BY <1>1, <1>2, <1>3, PTL DEF Spec

----------------------------------------------------------------------------
(***************************************************************************)
(* Totals                                                                  *)
(***************************************************************************)
RowsOf(rows, l) == {c \in rows : c.doc = l}

\* The loader is listed as SYNC, and nothing may have spoilt its totals.
Clean(now, sus, l) == Listed(now, l) /\ l \notin sus /\ now.loaders[l].status = "SYNC"

\* The loader has n chunk rows, no two of them versions of the same chunk.
Counts(rows, l, n) ==
    /\ IsFiniteSet(RowsOf(rows, l)) /\ Cardinality(RowsOf(rows, l)) = n
    /\ \A c, d \in RowsOf(rows, l) : Same(c, d) => c = d

Right(now, rows, sus, l) == Clean(now, sus, l) => Counts(rows, l, now.loaders[l].total)

Processing == {"marked", "splitting", "inserting"}

\* The loaders whose rows and totals need not agree now.
Open(x) == CASE x.pc \in Processing \cup {"unlisting", "counting"} -> {x.doc}
             [] x.pc = "removing" -> Loaders
             [] OTHER -> {}

Full(r, l, n) == [doc : {l}, by : {r}, no : 1 .. n, edited : {FALSE}]

\* What a request that is alone in flight may rely on: the copy it will save lists what
\* the row lists; the loader it processes is marked, unless its job was taken again; the
\* rows inserted and those still to be are all that the split made; the chunk it
\* changes is the one it found, and the totals lag by that chunk.
Careful(s, r, x, now, rows, sus) ==
    /\ x.pc \in CopyPhases => x.copy.loaders = now.loaders
    /\ x.pc \in Processing /\ Clean(now, sus, x.doc)
          => s.queue /\ s.kind[r] \in UploadKinds
    /\ x.pc = "inserting" => RowsOf(rows, x.doc) \cup x.pending = Full(r, x.doc, x.size)
    /\ x.pc = "failed" => \A c \in x.pending : ~ Clean(now, sus, c.doc)
    /\ x.pc = "seeking" => \E c \in rows : c.doc = x.doc /\ x.docs = {c}
    /\ x.pc = "changing" => /\ \A c \in x.docs : c.doc = x.doc
                            /\ Clean(now, sus, x.doc) => \E c \in rows : x.docs = {c}
    /\ x.pc = "counting" /\ Clean(now, sus, x.doc)
          => Counts(rows, x.doc, now.loaders[x.doc].total
                                    - (IF s.kind[r] = "editChunk" THEN 0 ELSE 1))

InsertingKinds == UploadKinds \cup UpsertKinds

\* The phases belong to the kinds of requests that go through them.
Suits(k, x) ==
    /\ x.pc \in Processing \cup {"marking", "reporting"} => k \in InsertingKinds
    /\ x.pc \in {"item", "found"} => k \in UpsertKinds
    /\ x.pc \in {"configuring", "saving", "upserting", "loading", "reading", "sending",
                 "adding", "recording", "listing", "finishing"}
          => k \in UpsertKinds \cup {"insert", "config"}
    /\ x.pc \in {"pruning", "forgetting"} => k \in UpsertKinds \cup {"insert", "config", "unindex"}
    /\ x.pc = "unindexing" => k = "unindex"
    /\ x.left # {} \/ x.items # {} => k \in InsertingKinds
    /\ x.pc \in {"seeking", "changing", "counting"} => k \in ChunkKinds
    /\ x.pc \in {"clearing", "unlisting", "erasing", "removing"}
          => k \in {"unlist", "deleteStore"}

Watched == \A r \in Requests : Flying(op[r]) /\ ~ op[r].alone => suspect = Loaders

AllRight ==
    \A l \in Loaders : (\A r \in Requests : Flying(op[r]) => l \notin Open(op[r]))
                          => Right(row, chunks, suspect, l)

AllCareful ==
    \A r \in Requests : Flying(op[r]) /\ op[r].alone
                           => Careful(setup, r, op[r], row, chunks, suspect)

AllSuit == \A r \in Requests : Suits(setup.kind[r], op[r])

TotalsInv == Watched /\ AllRight /\ AllCareful /\ AllSuit

LEMMA FullCounts ==
    ASSUME NEW r, NEW l, NEW n \in Nat, NEW rows, RowsOf(rows, l) = Full(r, l, n)
    PROVE  Counts(rows, l, n)
<1> DEFINE S == Full(r, l, n)
           f == [i \in 1 .. n |-> [doc |-> l, by |-> r, no |-> i, edited |-> FALSE]]
<1>1. f \in [1 .. n -> S] BY DEF Full
<1>2. ASSUME NEW i \in 1 .. n, NEW j \in 1 .. n, f[i] = f[j] PROVE i = j
  <2>1. f[i].no = i /\ f[j].no = j OBVIOUS
  <2> QED BY <1>2, <2>1
<1>3. ASSUME NEW c \in S PROVE \E i \in 1 .. n : f[i] = c
  <2>1. /\ c.no \in 1 .. n
        /\ c = [doc |-> l, by |-> r, no |-> c.no, edited |-> FALSE]
    BY DEF Full
  <2> QED BY <2>1
<1> HIDE DEF f
<1>4. f \in Bijection(1 .. n, S) BY <1>1, <1>2, <1>3 DEF Bijection, Injection, Surjection, IsInjective
<1>5. ExistsBijection(1 .. n, S) BY <1>4 DEF ExistsBijection
<1>6. IsFiniteSet(1 .. n) /\ Cardinality(1 .. n) = n BY FS_Interval
<1>7. IsFiniteSet(S) /\ Cardinality(S) = n BY <1>5, <1>6, FS_Bijection
<1>8. ASSUME NEW c \in S, NEW d \in S, Same(c, d) PROVE c = d
  <2>1. /\ c = [doc |-> l, by |-> r, no |-> c.no, edited |-> FALSE]
        /\ d = [doc |-> l, by |-> r, no |-> d.no, edited |-> FALSE]
    BY DEF Full
  <2> QED BY <1>8, <2>1 DEF Same
<1> QED BY <1>7, <1>8 DEF Counts

\* What a request in flight has to show.
LEMMA OneTotals ==
    ASSUME StoreInv, OrphanInv, TotalsInv, NEW r \in Requests, NEW x, Flying(op[r]),
           op' = [op EXCEPT ![r] = x], x.alone = op[r].alone, setup' = setup,
           Suits(setup.kind[r], x), suspect' \subseteq Loaders,
           ~ op[r].alone => suspect \subseteq suspect',
           op[r].alone => \A l \in Loaders : (Flying(x) => l \notin Open(x))
                                                => Right(row', chunks', suspect', l),
           op[r].alone /\ Flying(x) => Careful(setup, r, x, row', chunks', suspect')
    PROVE  TotalsInv'
<1>1. op \in [Requests -> Op] BY DEF StoreInv, StoreTypeOK
<1>2. op'[r] = x /\ \A q \in Requests \ {r} : op'[q] = op[q] BY <1>1
<1>3. ASSUME NEW q \in Requests, q # r, Flying(op[q])
      PROVE  ~ op[q].alone /\ ~ op[r].alone
  BY <1>3 DEF OrphanInv, Serial
<1>4. ~ op[r].alone => suspect' = Loaders BY DEF TotalsInv, Watched
<1>5. Watched'
  <2>1. ASSUME NEW q \in Requests, Flying(op'[q]), ~ op'[q].alone PROVE suspect' = Loaders
    <3>1. CASE q = r BY <1>2, <1>4, <2>1, <3>1
    <3>2. CASE q # r BY <1>2, <1>3, <1>4, <2>1, <3>2
    <3> QED BY <3>1, <3>2
  <2> QED BY <2>1 DEF Watched
<1>6. AllRight'
  <2>1. ASSUME NEW l \in Loaders, \A q \in Requests : Flying(op'[q]) => l \notin Open(op'[q])
        PROVE  Right(row', chunks', suspect', l)
    <3>1. CASE op[r].alone BY <1>2, <2>1, <3>1
    <3>2. CASE ~ op[r].alone BY <1>4, <3>2 DEF Right, Clean
    <3> QED BY <3>1, <3>2
  <2> QED BY <2>1 DEF AllRight
<1>7. AllCareful'
  <2>1. ASSUME NEW q \in Requests, Flying(op'[q]), op'[q].alone
        PROVE  Careful(setup', q, op'[q], row', chunks', suspect')
    <3>1. q = r BY <1>2, <1>3, <2>1
    <3> QED BY <1>2, <2>1, <3>1
  <2> QED BY <2>1 DEF AllCareful
<1>8. AllSuit' BY <1>2 DEF TotalsInv, AllSuit
<1> QED BY <1>5, <1>6, <1>7, <1>8 DEF TotalsInv

\* What the invariant says of a request that is alone in flight.
LEMMA TotalsElim ==
    ASSUME OrphanInv, TotalsInv, NEW r \in Requests, Flying(op[r]), op[r].alone
    PROVE  /\ Careful(setup, r, op[r], row, chunks, suspect)
           /\ \A l \in Loaders : l \notin Open(op[r]) => Right(row, chunks, suspect, l)
<1>1. \A q \in Requests : Flying(op[q]) => q = r BY DEF OrphanInv, Serial
<1> QED BY <1>1 DEF TotalsInv, AllCareful, AllRight

\* A step that leaves loaders and rows as they are.
LEMMA PlainTotals ==
    ASSUME StoreInv, OrphanInv, TotalsInv, NEW r \in Requests, NEW x, Flying(op[r]),
           op' = [op EXCEPT ![r] = x], x.alone = op[r].alone, setup' = setup,
           Suits(setup.kind[r], x), suspect' = suspect, chunks' = chunks,
           op[r].alone => row'.loaders = row.loaders,
           op[r].alone => \A l \in Open(op[r]) : \/ Flying(x) /\ l \in Open(x)
                                                 \/ ~ Clean(row, suspect, l),
           op[r].alone /\ Flying(x) => Careful(setup, r, x, row', chunks, suspect)
    PROVE  TotalsInv'
<1>1. suspect' \subseteq Loaders BY DEF StoreInv, StoreTypeOK
<1>2. ASSUME op[r].alone, NEW l \in Loaders, Flying(x) => l \notin Open(x)
      PROVE  Right(row', chunks', suspect', l)
  <2>1. CASE l \in Open(op[r])
    <3>1. ~ Clean(row, suspect, l) BY <1>2, <2>1
    <3> QED BY <1>2, <3>1 DEF Right, Clean, Listed
  <2>2. CASE l \notin Open(op[r])
    <3>1. Right(row, chunks, suspect, l) BY <1>2, <2>2, TotalsElim
    <3> QED BY <1>2, <3>1 DEF Right, Clean, Listed
  <2> QED BY <2>1, <2>2
<1> QED BY <1>1, <1>2, OneTotals

LEMMA OverFields ==
    ASSUME NEW o \in Op, NEW end \in {"done", "failed"}
    PROVE  /\ Over(o, end).alone = o.alone /\ Over(o, end).items = o.items
           /\ Over(o, end).left = {} /\ Over(o, end).doc = o.doc
           /\ Over(o, end).pc = end /\ Over(o, end).pending = o.pending
BY DEF Over, Op

LEMMA EndSuits ==
    ASSUME StoreInv, TotalsInv, NEW r \in Requests, NEW x, x.pc \in {"done", "failed"},
           x.items = op[r].items, x.left = {}
    PROVE  Suits(setup.kind[r], x)
<1>1. Suits(setup.kind[r], op[r]) BY DEF TotalsInv, AllSuit
<1> QED BY <1>1 DEF Suits, Processing

\* A request that ends, with nothing left to insert.
LEMMA EndTotals ==
    ASSUME StoreInv, OrphanInv, TotalsInv, NEW r \in Requests,
           NEW end \in {"done", "failed"}, EndsAs(r, end), Flying(op[r]), op[r].pending = {},
           setup' = setup, suspect' \subseteq Loaders, ~ op[r].alone => suspect \subseteq suspect',
           op[r].alone => \A l \in Loaders : Right(row', chunks', suspect', l)
    PROVE  TotalsInv'
<1> DEFINE x == Over(op[r], end)
<1>1. op' = [op EXCEPT ![r] = x] BY DEF EndsAs
<1>2. /\ x.pc = end /\ x.pending = {} /\ x.alone = op[r].alone /\ x.items = op[r].items
      /\ x.left = {}
  BY OpType, OverFields
<1> HIDE DEF x
<1>3. ~ Flying(x) BY <1>2 DEF Flying
<1>4. Suits(setup.kind[r], x) BY <1>2, EndSuits
<1> QED BY <1>1, <1>2, <1>3, <1>4, OneTotals

\* One that leaves loaders and rows as they are.
LEMMA EndPlain ==
    ASSUME StoreInv, OrphanInv, TotalsInv, NEW r \in Requests,
           NEW end \in {"done", "failed"}, EndsAs(r, end), Flying(op[r]), op[r].pending = {},
           setup' = setup, suspect' = suspect, chunks' = chunks,
           op[r].alone => row'.loaders = row.loaders,
           op[r].alone => \A l \in Open(op[r]) : ~ Clean(row, suspect, l)
    PROVE  TotalsInv'
<1> DEFINE x == Over(op[r], end)
<1>1. op' = [op EXCEPT ![r] = x] BY DEF EndsAs
<1>2. /\ x.pc = end /\ x.pending = {} /\ x.alone = op[r].alone /\ x.items = op[r].items
      /\ x.left = {}
  BY OpType, OverFields
<1> HIDE DEF x
<1>3. ~ Flying(x) BY <1>2 DEF Flying
<1>4. Suits(setup.kind[r], x) BY <1>2, EndSuits
<1> QED BY <1>1, <1>2, <1>3, <1>4, PlainTotals

\* What the phase of a request says of it.
LEMMA AtPhase ==
    ASSUME StoreInv, OrphanInv, TotalsInv, NEW r \in Requests,
           op[r].pc \notin {"idle", "done", "failed"}
    PROVE  /\ op[r] \in Op /\ Flying(op[r]) /\ Suits(setup.kind[r], op[r])
           /\ op[r].pc # "inserting" => op[r].pending = {}
           /\ op[r].pc \in CopyPhases /\ op[r].alone => op[r].copy.loaders = row.loaders
           /\ op[r].alone => Careful(setup, r, op[r], row, chunks, suspect)
           /\ op[r].alone => \A l \in Loaders :
                                l \notin Open(op[r]) => Right(row, chunks, suspect, l)
<1>1. Flying(op[r]) BY DEF Flying
<1>2. op[r] \in Op /\ (op[r].pc # "inserting" => op[r].pending = {}) BY OpType DEF BusyOp
<1>3. Suits(setup.kind[r], op[r]) BY DEF TotalsInv, AllSuit
<1>4. op[r].alone => /\ Careful(setup, r, op[r], row, chunks, suspect)
                     /\ \A l \in Loaders : l \notin Open(op[r])
                                              => Right(row, chunks, suspect, l)
  BY <1>1, TotalsElim
<1>5. op[r].alone /\ op[r].pc \in CopyPhases => op[r].copy.loaders = row.loaders
  BY <1>4 DEF Careful
<1> QED BY <1>1, <1>2, <1>3, <1>4, <1>5

----------------------------------------------------------------------------
LEMMA MarkTotals ==
    ASSUME StoreInv, OrphanInv, TotalsInv, NEW r \in Requests, Mark(r)
    PROVE  TotalsInv'
<1> DEFINE x == [op[r] EXCEPT !.pc = "marked"]
<1>1. /\ op[r].pc = "marking" /\ row' = Marking(op[r].copy, op[r].doc)
      /\ op' = [op EXCEPT ![r] = x]
      /\ UNCHANGED <<setup, chunks, suspect>>
  BY DEF Mark, At, Goto, history
<1>2. /\ op[r] \in Op /\ Flying(op[r]) /\ Suits(setup.kind[r], op[r])
      /\ op[r].alone => op[r].copy.loaders = row.loaders
      /\ Open(op[r]) = {} /\ op[r].copy \in Rows
      /\ op[r].alone => \A l \in Loaders : Right(row, chunks, suspect, l)
  BY <1>1, AtPhase DEF CopyPhases, Open, Op, Processing
<1>3. /\ x.pc = "marked" /\ x.doc = op[r].doc /\ x.alone = op[r].alone /\ x.left = op[r].left
      /\ x.items = op[r].items
  BY <1>2 DEF Op
<1> HIDE DEF x
<1>4. Suits(setup.kind[r], x) BY <1>1, <1>2, <1>3 DEF Suits, Processing
<1>5. row'.loaders = [k \in DOMAIN op[r].copy.loaders \cup {op[r].doc} |->
                         IF k = op[r].doc THEN [status |-> "SYNCING", total |-> 0]
                         ELSE op[r].copy.loaders[k]]
  BY <1>1, <1>2, RowElim DEF Marking
<1>6. ~ Clean(row', suspect', op[r].doc) BY <1>5 DEF Clean
<1>7. op[r].alone => Careful(setup, r, x, row', chunks', suspect')
  BY <1>3, <1>6 DEF Careful, CopyPhases
<1>8. ASSUME op[r].alone, NEW l \in Loaders, l # op[r].doc
      PROVE  Right(row', chunks', suspect', l)
  <2>1. Clean(row', suspect', l) => /\ Clean(row, suspect, l)
                                    /\ row'.loaders[l] = row.loaders[l]
    BY <1>1, <1>2, <1>5, <1>8 DEF Clean, Listed
  <2> QED BY <1>1, <1>2, <1>8, <2>1 DEF Right
<1>9. Open(x) = {op[r].doc} /\ Flying(x) BY <1>3 DEF Open, Processing, Flying
<1>10. suspect' \subseteq Loaders BY <1>1 DEF StoreInv, StoreTypeOK
<1> QED BY <1>1, <1>2, <1>3, <1>4, <1>7, <1>8, <1>9, <1>10, OneTotals

\* A copy that is taken is the row.
LEMMA FindTotals ==
    ASSUME StoreInv, OrphanInv, TotalsInv, NEW r \in Requests,
           FindToProcess(r) \/ FindToConfigure(r) \/ FindToUpsert(r)
    PROVE  TotalsInv'
<1>1. PICK pc \in {"splitting", "saving", "reading"} :
         /\ op' = [op EXCEPT ![r].copy = row, ![r].pc = pc]
         /\ op[r].pc = CASE pc = "splitting" -> "marked" [] pc = "saving" -> "configuring"
                         [] pc = "reading" -> "loading"
         /\ UNCHANGED <<setup, row, chunks, suspect>>
  BY DEF FindToProcess, FindToConfigure, FindToUpsert, At, Find, history
<1> DEFINE x == [op[r] EXCEPT !.copy = row, !.pc = pc]
<1>2. op[r] \in Op /\ Flying(op[r]) /\ Suits(setup.kind[r], op[r])
  BY <1>1, AtPhase
<1>3. op' = [op EXCEPT ![r] = x] BY <1>1
<1>4. /\ x.pc = pc /\ x.copy = row /\ x.alone = op[r].alone /\ x.left = op[r].left
      /\ x.items = op[r].items /\ x.doc = op[r].doc
  BY <1>2 DEF Op
<1> HIDE DEF x
<1>5. Suits(setup.kind[r], x) BY <1>1, <1>2, <1>4 DEF Suits, Processing
<1>6. Flying(x) BY <1>4 DEF Flying
<1>7. Open(op[r]) = Open(x)
  <2>1. CASE pc = "splitting" BY <1>1, <1>4, <2>1 DEF Open, Processing
  <2>2. CASE pc # "splitting" BY <1>1, <1>4, <2>2 DEF Open, Processing
  <2> QED BY <2>1, <2>2
<1>8. op[r].alone => Careful(setup, r, x, row, chunks, suspect)
  <2>1. op[r].alone => Careful(setup, r, op[r], row, chunks, suspect) BY <1>1, AtPhase
  <2>2. pc = "splitting" => op[r].pc = "marked" BY <1>1
  <2> QED BY <1>4, <2>1, <2>2 DEF Careful, Processing
<1> QED BY <1>1, <1>2, <1>3, <1>4, <1>5, <1>6, <1>7, <1>8, PlainTotals

LEMMA SplitTotals ==
    ASSUME StoreInv, OrphanInv, TotalsInv, NEW r \in Requests, Split(r)
    PROVE  TotalsInv'
<1>1. /\ op[r].pc = "splitting" /\ chunks' = chunks \ ChunksOf(op[r].doc)
      /\ UNCHANGED <<setup, row, suspect>>
  BY DEF Split, At, history
<1>2. PICK n \in Splits :
        op' = [op EXCEPT ![r].pc = "inserting", ![r].size = n,
                         ![r].pending = [doc : {op[r].doc}, by : {r}, no : 1 .. n,
                                         edited : {FALSE}]]
  BY DEF Split
<1> DEFINE new == Full(r, op[r].doc, n)
           x == [op[r] EXCEPT !.pc = "inserting", !.size = n, !.pending = new]
<1>3. op' = [op EXCEPT ![r] = x] BY <1>2 DEF Full
<1>4. /\ op[r] \in Op /\ Flying(op[r]) /\ Suits(setup.kind[r], op[r])
      /\ op[r].alone => /\ op[r].copy.loaders = row.loaders
                        /\ Careful(setup, r, op[r], row, chunks, suspect)
                        /\ \A l \in Loaders : l # op[r].doc => Right(row, chunks, suspect, l)
  <2>1. Open(op[r]) = {op[r].doc} BY <1>1 DEF Open, Processing
  <2> QED BY <1>1, <2>1, AtPhase DEF CopyPhases
<1> HIDE DEF new
<1>5. /\ x.pc = "inserting" /\ x.pending = new /\ x.doc = op[r].doc /\ x.copy = op[r].copy
      /\ x.alone = op[r].alone /\ x.size = n /\ x.left = op[r].left /\ x.items = op[r].items
  BY <1>4 DEF Op
<1> HIDE DEF x
<1>6. Suits(setup.kind[r], x) BY <1>1, <1>4, <1>5 DEF Suits, Processing
<1>7. Flying(x) /\ Open(x) = {op[r].doc} BY <1>5 DEF Flying, Open, Processing
<1>8. RowsOf(chunks', op[r].doc) = {} BY <1>1 DEF RowsOf, ChunksOf
<1>9. op[r].alone => Careful(setup, r, x, row', chunks', suspect')
  <2>1. RowsOf(chunks', x.doc) \cup x.pending = Full(r, x.doc, x.size)
    BY <1>5, <1>8 DEF new
  <2> QED BY <1>1, <1>4, <1>5, <2>1 DEF Careful, Processing
<1>10. \A l \in Loaders : l # op[r].doc => RowsOf(chunks', l) = RowsOf(chunks, l)
  BY <1>1 DEF RowsOf, ChunksOf
<1>11. ASSUME op[r].alone, NEW l \in Loaders, l # op[r].doc
       PROVE  Right(row', chunks', suspect', l)
  <2>1. Right(row, chunks, suspect, l) BY <1>4, <1>11
  <2> QED BY <1>1, <1>10, <1>11, <2>1 DEF Right, Counts
<1>12. suspect' \subseteq Loaders BY <1>1 DEF StoreInv, StoreTypeOK
<1> QED BY <1>1, <1>3, <1>4, <1>5, <1>6, <1>7, <1>9, <1>11, <1>12, OneTotals


\* Phases in which all loaders' totals are right and nothing but the copy matters.
CalmPhases == {"marking", "item", "found", "reporting", "configuring", "saving", "upserting",
               "loading", "reading", "sending", "adding", "recording", "listing", "pruning",
               "forgetting", "finishing", "clearing", "erasing", "touching", "unindexing"}

LEMMA CalmTotals ==
    ASSUME StoreInv, OrphanInv, TotalsInv, NEW r \in Requests, NEW x,
           op[r].pc \in CalmPhases, x.pc \in CalmPhases,
           op' = [op EXCEPT ![r] = x], x.alone = op[r].alone, setup' = setup,
           Suits(setup.kind[r], x), suspect' = suspect, chunks' = chunks,
           op[r].alone => row'.loaders = row.loaders,
           op[r].alone /\ x.pc \in CopyPhases => x.copy.loaders = row'.loaders
    PROVE  TotalsInv'
<1>1. Flying(op[r]) /\ Open(op[r]) = {} BY DEF CalmPhases, Flying, Open, Processing
<1>2. op[r].alone => Careful(setup, r, x, row', chunks, suspect)
  BY DEF CalmPhases, Careful, Processing
<1> QED BY <1>1, <1>2, PlainTotals

LEMMA CalmEnds ==
    ASSUME StoreInv, OrphanInv, TotalsInv, NEW r \in Requests, op[r].pc \in CalmPhases,
           NEW end \in {"done", "failed"}, EndsAs(r, end),
           setup' = setup, suspect' = suspect, chunks' = chunks,
           op[r].alone => row'.loaders = row.loaders
    PROVE  TotalsInv'
<1>1. Open(op[r]) = {} BY DEF CalmPhases, Open, Processing
<1>2. Flying(op[r]) /\ op[r].pending = {} BY AtPhase DEF CalmPhases
<1> QED BY <1>1, <1>2, EndPlain

\* One more row is in.
LEMMA InsertChunkTotals ==
    ASSUME StoreInv, OrphanInv, TotalsInv, NEW r \in Requests, InsertChunk(r)
    PROVE  TotalsInv'
<1>1. PICK c \in op[r].pending : /\ chunks' = chunks \cup {c}
                                 /\ op' = [op EXCEPT ![r].pending = @ \ {c}]
  BY DEF InsertChunk
<1> DEFINE x == [op[r] EXCEPT !.pending = op[r].pending \ {c}]
<1>2. UNCHANGED <<setup, row, suspect>> BY DEF InsertChunk, history
<1>3. op' = [op EXCEPT ![r] = x] BY <1>1
<1>4. op[r] \in Op /\ op[r].pc \in {"inserting", "failed"} /\ Flying(op[r])
  BY <1>1, OpType DEF BusyOp, Flying
<1>5. /\ x.pc = op[r].pc /\ x.pending = op[r].pending \ {c} /\ x.doc = op[r].doc
      /\ x.copy = op[r].copy /\ x.alone = op[r].alone /\ x.size = op[r].size
      /\ x.left = op[r].left /\ x.items = op[r].items
  BY <1>4 DEF Op
<1> HIDE DEF x
<1>6. Suits(setup.kind[r], x) BY <1>5 DEF Suits, TotalsInv, AllSuit
<1>7. ASSUME op[r].alone
      PROVE  /\ Careful(setup, r, op[r], row, chunks, suspect)
             /\ \A l \in Loaders : l \notin Open(op[r]) => Right(row, chunks, suspect, l)
  BY <1>4, <1>7, TotalsElim
<1>8. \A l \in Loaders : l # c.doc => RowsOf(chunks', l) = RowsOf(chunks, l)
  BY <1>1 DEF RowsOf
<1>9. suspect' \subseteq Loaders BY <1>2 DEF StoreInv, StoreTypeOK
<1>10. CASE op[r].pc = "inserting"
  <2>1. Flying(x) /\ Open(x) = {op[r].doc} /\ Open(op[r]) = {op[r].doc}
    BY <1>5, <1>10 DEF Flying, Open, Processing
  <2>2. ASSUME op[r].alone
        PROVE  /\ c.doc = op[r].doc
               /\ RowsOf(chunks', x.doc) \cup x.pending = Full(r, x.doc, x.size)
    <3>1. RowsOf(chunks, op[r].doc) \cup op[r].pending = Full(r, op[r].doc, op[r].size)
      BY <1>7, <1>10, <2>2 DEF Careful
    <3>2. c.doc = op[r].doc
      <4>1. c \in Full(r, op[r].doc, op[r].size) BY <1>1, <3>1
      <4> QED BY <4>1 DEF Full
    <3>3. RowsOf(chunks', op[r].doc) = RowsOf(chunks, op[r].doc) \cup {c}
      BY <1>1, <3>2 DEF RowsOf
    <3> QED BY <1>1, <1>5, <3>1, <3>2, <3>3
  <2>3. op[r].alone => Careful(setup, r, x, row', chunks', suspect')
    BY <1>2, <1>5, <1>7, <1>10, <2>2 DEF Careful
  <2>4. ASSUME op[r].alone, NEW l \in Loaders, l # op[r].doc
        PROVE  Right(row', chunks', suspect', l)
    <3>1. Right(row, chunks, suspect, l) BY <1>7, <2>1, <2>4
    <3> QED BY <1>2, <1>8, <2>2, <2>4, <3>1 DEF Right, Counts
  <2> QED BY <1>2, <1>3, <1>4, <1>5, <1>6, <1>9, <2>1, <2>3, <2>4, OneTotals
<1>11. CASE op[r].pc = "failed"
  <2>1. Open(op[r]) = {} BY <1>11 DEF Open, Processing
  <2>2. op[r].alone => \A d \in op[r].pending : ~ Clean(row, suspect, d.doc)
    BY <1>7, <1>11 DEF Careful
  <2>3. op[r].alone => Careful(setup, r, x, row', chunks', suspect')
    BY <1>2, <1>5, <1>11, <2>2 DEF Careful, CopyPhases, Processing
  <2>4. ASSUME op[r].alone, NEW l \in Loaders
        PROVE  Right(row', chunks', suspect', l)
    <3>1. Right(row, chunks, suspect, l) BY <1>7, <2>1, <2>4
    <3>2. CASE l = c.doc BY <1>1, <1>2, <2>2, <2>4, <3>2 DEF Right
    <3>3. CASE l # c.doc BY <1>2, <1>8, <3>1, <3>3 DEF Right, Counts
    <3> QED BY <3>2, <3>3
  <2> QED BY <1>2, <1>3, <1>4, <1>5, <1>6, <1>9, <2>3, <2>4, OneTotals
<1> QED BY <1>4, <1>10, <1>11

\* All rows are in: the totals saved are theirs.
LEMMA FinishProcessingTotals ==
    ASSUME StoreInv, OrphanInv, TotalsInv, NEW r \in Requests, FinishProcessing(r)
    PROVE  TotalsInv'
<1> DEFINE doc == op[r].doc
           copy == op[r].copy
           size == op[r].size
<1>1. op[r].pc = "inserting" /\ op[r].pending = {} /\ UNCHANGED <<setup, chunks>>
  BY DEF FinishProcessing, At
<1>2. /\ op[r] \in Op /\ Flying(op[r]) /\ Suits(setup.kind[r], op[r]) /\ Open(op[r]) = {doc}
      /\ size \in Nat
  BY <1>1, AtPhase, LargestType DEF Open, Processing, Op
<1>3. ASSUME op[r].alone
      PROVE  /\ copy.loaders = row.loaders
             /\ Counts(chunks, doc, size)
             /\ \A l \in Loaders : l # doc => Right(row, chunks, suspect, l)
  <2>1. /\ copy.loaders = row.loaders /\ Careful(setup, r, op[r], row, chunks, suspect)
        /\ \A l \in Loaders : l # doc => Right(row, chunks, suspect, l)
    BY <1>1, <1>2, <1>3, AtPhase DEF CopyPhases
  <2>2. RowsOf(chunks, doc) = Full(r, doc, size) BY <1>1, <2>1 DEF Careful
  <2> QED BY <1>2, <2>1, <2>2, FullCounts
<1>4. CASE Listed(copy, doc)
  <2> DEFINE x == [op[r] EXCEPT !.pc = "reporting", !.copy = Gone, !.size = 0]
  <2>1. /\ row' = Processed(copy, doc, size)
        /\ op' = [op EXCEPT ![r].pc = "reporting", ![r].copy = Gone, ![r].size = 0]
        /\ suspect' = IF op[r].alone THEN suspect \ {doc} ELSE suspect
    BY <1>4 DEF FinishProcessing, Clears
  <2>2. op' = [op EXCEPT ![r] = x] BY <2>1
  <2>3. /\ x.pc = "reporting" /\ x.alone = op[r].alone /\ x.left = op[r].left
        /\ x.items = op[r].items
    BY <1>2 DEF Op
  <2> HIDE DEF x
  <2>4. Suits(setup.kind[r], x) BY <1>1, <1>2, <2>3 DEF Suits, Processing
  <2>5. row'.loaders = [copy.loaders EXCEPT ![doc] = [status |-> "SYNC", total |-> size]]
    BY <2>1 DEF Processed
  <2>6. suspect' \subseteq Loaders BY <2>1 DEF StoreInv, StoreTypeOK
  <2>7. Careful(setup, r, x, row', chunks', suspect')
    BY <2>3 DEF Careful, CopyPhases, Processing
  <2>8. ASSUME op[r].alone, NEW l \in Loaders PROVE Right(row', chunks', suspect', l)
    <3>1. CASE l = doc
      <4>1. row'.loaders[doc].total = size BY <1>4, <2>5 DEF Listed
      <4> QED BY <1>1, <1>3, <2>8, <3>1, <4>1 DEF Right
    <3>2. CASE l # doc
      <4>1. Clean(row', suspect', l) => /\ Clean(row, suspect, l)
                                        /\ row'.loaders[l] = row.loaders[l]
        BY <1>3, <2>1, <2>5, <2>8, <3>2 DEF Clean, Listed
      <4> QED BY <1>1, <1>3, <2>8, <3>2, <4>1 DEF Right
    <3> QED BY <3>1, <3>2
  <2> QED BY <1>1, <1>2, <2>1, <2>2, <2>3, <2>4, <2>6, <2>7, <2>8, OneTotals
<1>5. CASE ~ Listed(copy, doc)
  <2>1. EndsAs(r, "failed") /\ row' = row /\ suspect' = suspect
    BY <1>5 DEF FinishProcessing
  <2>2. op[r].alone => ~ Clean(row, suspect, doc) BY <1>3, <1>5 DEF Clean, Listed
  <2> QED BY <1>1, <1>2, <2>1, <2>2, EndPlain
<1> QED BY <1>4, <1>5


LEMMA ReportTotals ==
    ASSUME StoreInv, OrphanInv, TotalsInv, NEW r \in Requests, Report(r)
    PROVE  TotalsInv'
<1>1. /\ op[r].pc = "reporting" /\ op[r].pc \in CalmPhases
      /\ UNCHANGED <<setup, row, chunks, suspect>>
  BY DEF Report, At, history, CalmPhases
<1>2. op[r] \in Op /\ Suits(setup.kind[r], op[r]) BY <1>1, AtPhase
<1>3. CASE EndsAs(r, "failed") \/ EndsAs(r, "done") BY <1>1, <1>3, CalmEnds
<1>4. CASE Kind(r) \in UpsertKinds /\ Goto(r, "configuring")
  <2> DEFINE x == [op[r] EXCEPT !.pc = "configuring"]
  <2>1. op' = [op EXCEPT ![r] = x] BY <1>4 DEF Goto
  <2>2. /\ x.pc = "configuring" /\ x.alone = op[r].alone /\ x.left = op[r].left
        /\ x.items = op[r].items
    BY <1>2 DEF Op
  <2> HIDE DEF x
  <2>3. Suits(setup.kind[r], x)
    BY <1>2, <1>4, <2>2 DEF Suits, Processing, Kind, InsertingKinds
  <2>4. x.pc \in CalmPhases /\ x.pc \notin CopyPhases BY <2>2 DEF CalmPhases, CopyPhases
  <2> QED BY <1>1, <2>1, <2>2, <2>3, <2>4, CalmTotals
<1> QED BY <1>3, <1>4 DEF Report

LEMMA NoItemTotals ==
    ASSUME StoreInv, OrphanInv, TotalsInv, NEW r \in Requests, NoItem(r)
    PROVE  TotalsInv'
<1>1. /\ op[r].pc \in CalmPhases /\ EndsAs(r, "done")
      /\ UNCHANGED <<setup, row, chunks, suspect>>
  BY DEF NoItem, At, Complete, CalmPhases
<1> QED BY <1>1, CalmEnds

LEMMA TakeItemTotals ==
    ASSUME StoreInv, OrphanInv, TotalsInv, NEW r \in Requests, TakeItem(r)
    PROVE  TotalsInv'
<1>1. /\ op[r].pc = "item" /\ op[r].pc \in CalmPhases
      /\ UNCHANGED <<setup, row, chunks, suspect>>
  BY DEF TakeItem, At, history, CalmPhases
<1>2. op[r] \in Op /\ Suits(setup.kind[r], op[r]) BY <1>1, AtPhase
<1>3. PICK l \in op[r].left :
        \/ EndsAs(r, "failed")
        \/ op' = [op EXCEPT ![r].pc = "found", ![r].doc = l, ![r].left = @ \ {l}]
  BY DEF TakeItem
<1>4. CASE EndsAs(r, "failed") BY <1>1, <1>4, CalmEnds
<1>5. CASE op' = [op EXCEPT ![r].pc = "found", ![r].doc = l, ![r].left = @ \ {l}]
  <2> DEFINE x == [op[r] EXCEPT !.pc = "found", !.doc = l, !.left = op[r].left \ {l}]
  <2>1. op' = [op EXCEPT ![r] = x] BY <1>5
  <2>2. x.pc = "found" /\ x.alone = op[r].alone /\ x.items = op[r].items
    BY <1>2 DEF Op
  <2> HIDE DEF x
  <2>3. Suits(setup.kind[r], x)
    BY <1>1, <1>2, <2>2 DEF Suits, Processing, InsertingKinds
  <2>4. x.pc \in CalmPhases /\ x.pc \notin CopyPhases BY <2>2 DEF CalmPhases, CopyPhases
  <2> QED BY <1>1, <2>1, <2>2, <2>3, <2>4, CalmTotals
<1> QED BY <1>3, <1>4, <1>5

LEMMA FindToMarkTotals ==
    ASSUME StoreInv, OrphanInv, TotalsInv, NEW r \in Requests, FindToMark(r)
    PROVE  TotalsInv'
<1>1. /\ op[r].pc = "found" /\ op[r].pc \in CalmPhases
      /\ UNCHANGED <<setup, row, chunks, suspect>>
  BY DEF FindToMark, At, history, CalmPhases
<1>2. op[r] \in Op /\ Suits(setup.kind[r], op[r]) BY <1>1, AtPhase
<1>3. PICK l : op' = [op EXCEPT ![r].pc = "marking", ![r].doc = l, ![r].copy = row]
  BY DEF FindToMark
<1> DEFINE x == [op[r] EXCEPT !.pc = "marking", !.doc = l, !.copy = row]
<1>4. op' = [op EXCEPT ![r] = x] BY <1>3
<1>5. /\ x.pc = "marking" /\ x.alone = op[r].alone /\ x.items = op[r].items /\ x.copy = row
      /\ x.left = op[r].left
  BY <1>2 DEF Op
<1> HIDE DEF x
<1>6. Suits(setup.kind[r], x)
  BY <1>1, <1>2, <1>5 DEF Suits, Processing, InsertingKinds
<1>7. x.pc \in CalmPhases BY <1>5 DEF CalmPhases
<1> QED BY <1>1, <1>4, <1>5, <1>6, <1>7, CalmTotals

\* The copy is saved as it is, or with another status of the store.
LEMMA SaveConfigTotals ==
    ASSUME StoreInv, OrphanInv, TotalsInv, NEW r \in Requests, SaveConfig(r)
    PROVE  TotalsInv'
<1>1. /\ op[r].pc = "saving" /\ op[r].pc \in CalmPhases \cap CopyPhases
      /\ row' = Configured(op[r].copy)
      /\ UNCHANGED <<setup, chunks, suspect>>
  BY DEF SaveConfig, At, history, CalmPhases, CopyPhases
<1>2. op[r] \in Op /\ Suits(setup.kind[r], op[r]) /\ op[r].copy \in Rows
  BY <1>1, AtPhase DEF Op
<1>3. op[r].alone => op[r].copy.loaders = row.loaders BY <1>1, AtPhase
<1>4. row'.loaders = op[r].copy.loaders BY <1>1, <1>2, RowElim DEF Configured
<1>5. CASE EndsAs(r, "done") BY <1>1, <1>3, <1>4, <1>5, CalmEnds
<1>6. CASE Goto(r, "upserting")
  <2> DEFINE x == [op[r] EXCEPT !.pc = "upserting"]
  <2>1. op' = [op EXCEPT ![r] = x] BY <1>6 DEF Goto
  <2>2. /\ x.pc = "upserting" /\ x.alone = op[r].alone /\ x.left = op[r].left
        /\ x.items = op[r].items /\ x.copy = op[r].copy
    BY <1>2 DEF Op
  <2> HIDE DEF x
  <2>3. Suits(setup.kind[r], x) BY <1>1, <1>2, <2>2 DEF Suits, Processing
  <2>4. x.pc \in CalmPhases BY <2>2 DEF CalmPhases
  <2> QED BY <1>1, <1>3, <1>4, <2>1, <2>2, <2>3, <2>4, CalmTotals
<1> QED BY <1>5, <1>6 DEF SaveConfig

LEMMA SaveUpsertingTotals ==
    ASSUME StoreInv, OrphanInv, TotalsInv, NEW r \in Requests, SaveUpserting(r)
    PROVE  TotalsInv'
<1>1. /\ op[r].pc = "upserting" /\ op[r].pc \in CalmPhases \cap CopyPhases
      /\ row' = [op[r].copy EXCEPT !.status = "UPSERTING"] /\ Goto(r, "loading")
      /\ UNCHANGED <<setup, chunks, suspect>>
  BY DEF SaveUpserting, At, history, CalmPhases, CopyPhases
<1>2. op[r] \in Op /\ Suits(setup.kind[r], op[r]) /\ op[r].copy \in Rows
  BY <1>1, AtPhase DEF Op
<1>3. op[r].alone => op[r].copy.loaders = row.loaders BY <1>1, AtPhase
<1>4. row'.loaders = op[r].copy.loaders BY <1>1, <1>2, RowElim
<1> DEFINE x == [op[r] EXCEPT !.pc = "loading"]
<1>5. op' = [op EXCEPT ![r] = x] BY <1>1 DEF Goto
<1>6. /\ x.pc = "loading" /\ x.alone = op[r].alone /\ x.left = op[r].left
      /\ x.items = op[r].items
  BY <1>2 DEF Op
<1> HIDE DEF x
<1>7. Suits(setup.kind[r], x) BY <1>1, <1>2, <1>6 DEF Suits, Processing
<1>8. x.pc \in CalmPhases /\ x.pc \notin CopyPhases BY <1>6 DEF CalmPhases, CopyPhases
<1> QED BY <1>1, <1>3, <1>4, <1>5, <1>6, <1>7, <1>8, CalmTotals

LEMMA IndexingTotals ==
    ASSUME StoreInv, OrphanInv, TotalsInv, NEW r \in Requests, Indexing(r)
    PROVE  TotalsInv'
<1>1. PICK pc \in IndexPhases \cup {"finishing"} : \E docs :
         /\ op' = [op EXCEPT ![r] = [op[r] EXCEPT !.pc = pc, !.docs = docs]]
         /\ op[r].pc \in IndexPhases \cup {"reading", "unindexing"}
         /\ pc \in After(op[r].pc)
         /\ op[r].pc = "forgetting" => Kind(r) # "unindex"
         /\ UNCHANGED <<setup, row, chunks, suspect>>
  BY IndexingStep
<1>2. PICK docs : op' = [op EXCEPT ![r] = [op[r] EXCEPT !.pc = pc, !.docs = docs]] BY <1>1
<1>3. op[r].pc \in CalmPhases \cap CopyPhases
  BY <1>1 DEF CalmPhases, CopyPhases, IndexPhases
<1>4. op[r] \in Op /\ Suits(setup.kind[r], op[r]) BY <1>3, AtPhase DEF CalmPhases
<1>5. op[r].alone => op[r].copy.loaders = row.loaders BY <1>3, AtPhase DEF CalmPhases
<1> DEFINE x == [op[r] EXCEPT !.pc = pc, !.docs = docs]
<1>6. op' = [op EXCEPT ![r] = x] BY <1>2
<1>7. /\ x.pc = pc /\ x.alone = op[r].alone /\ x.left = op[r].left
      /\ x.items = op[r].items /\ x.copy = op[r].copy
  BY <1>4 DEF Op
<1> HIDE DEF x
<1>8. Suits(setup.kind[r], x)
  <2> DEFINE k == setup.kind[r]
  <2>1. /\ x.pc \in {"sending", "adding", "recording", "listing", "finishing"}
              => k \in UpsertKinds \cup {"insert", "config"}
        /\ x.pc \in {"pruning", "forgetting"} => k \in UpsertKinds \cup {"insert", "config", "unindex"}
    BY <1>1, <1>4, <1>7 DEF Suits, IndexPhases, After, Kind
  <2>2. x.left # {} \/ x.items # {} => k \in InsertingKinds BY <1>4, <1>7 DEF Suits
  <2> HIDE DEF k
  <2>3. Suits(k, x) BY <1>7, <2>1, <2>2 DEF Suits, Processing, IndexPhases
  <2> QED BY <2>3 DEF k
<1>9. x.pc \in CalmPhases BY <1>7 DEF CalmPhases, IndexPhases
<1> QED BY <1>1, <1>3, <1>5, <1>6, <1>7, <1>8, <1>9, CalmTotals

LEMMA FinishUpsertTotals ==
    ASSUME StoreInv, OrphanInv, TotalsInv, NEW r \in Requests, FinishUpsert(r)
    PROVE  TotalsInv'
<1>1. /\ op[r].pc = "finishing" /\ op[r].pc \in CalmPhases \cap CopyPhases
      /\ row' = [op[r].copy EXCEPT !.status = "UPSERTED"]
      /\ UNCHANGED <<setup, chunks, suspect>>
  BY DEF FinishUpsert, At, CalmPhases, CopyPhases
<1>2. op[r] \in Op /\ Suits(setup.kind[r], op[r]) /\ op[r].copy \in Rows
  BY <1>1, AtPhase DEF Op
<1>3. op[r].alone => op[r].copy.loaders = row.loaders BY <1>1, AtPhase
<1>4. row'.loaders = op[r].copy.loaders BY <1>1, <1>2, RowElim
<1>5. CASE op[r].left = {}
  <2>1. EndsAs(r, "done") BY <1>5 DEF FinishUpsert, Complete
  <2> QED BY <1>1, <1>3, <1>4, <2>1, CalmEnds
<1>6. CASE op[r].left # {}
  <2> DEFINE x == [op[r] EXCEPT !.pc = "item", !.copy = Gone, !.docs = {}]
  <2>1. op' = [op EXCEPT ![r] = x] BY <1>6 DEF FinishUpsert
  <2>2. /\ x.pc = "item" /\ x.alone = op[r].alone /\ x.left = op[r].left
        /\ x.items = op[r].items
    BY <1>2 DEF Op
  <2> HIDE DEF x
  <2>3. setup.kind[r] \in UpsertKinds
    BY <1>1, <1>2, <1>6 DEF Suits, InsertingKinds, UploadKinds, UpsertKinds
  <2>4. Suits(setup.kind[r], x)
    BY <1>2, <2>2, <2>3 DEF Suits, Processing, InsertingKinds
  <2>5. x.pc \in CalmPhases /\ x.pc \notin CopyPhases BY <2>2 DEF CalmPhases, CopyPhases
  <2> QED BY <1>1, <1>3, <1>4, <2>1, <2>2, <2>4, <2>5, CalmTotals
<1> QED BY <1>5, <1>6


----------------------------------------------------------------------------
LEMMA ClearTotals ==
    ASSUME StoreInv, OrphanInv, TotalsInv, NEW r \in Requests, Clear(r)
    PROVE  TotalsInv'
<1>1. /\ op[r].pc = "clearing" /\ chunks' = chunks \ ChunksOf(op[r].doc)
      /\ Goto(r, "unlisting") /\ UNCHANGED <<setup, row, suspect>>
  BY DEF Clear, At, ClearChunks, history
<1> DEFINE x == [op[r] EXCEPT !.pc = "unlisting"]
<1>2. op' = [op EXCEPT ![r] = x] BY <1>1 DEF Goto
<1>3. /\ op[r] \in Op /\ Flying(op[r]) /\ Suits(setup.kind[r], op[r]) /\ Open(op[r]) = {}
      /\ op[r].alone => /\ op[r].copy.loaders = row.loaders
                        /\ \A l \in Loaders : Right(row, chunks, suspect, l)
  BY <1>1, AtPhase DEF CopyPhases, Open, Processing
<1>4. /\ x.pc = "unlisting" /\ x.doc = op[r].doc /\ x.copy = op[r].copy
      /\ x.alone = op[r].alone /\ x.left = op[r].left /\ x.items = op[r].items
  BY <1>3 DEF Op
<1> HIDE DEF x
<1>5. Suits(setup.kind[r], x) BY <1>1, <1>3, <1>4 DEF Suits, Processing
<1>6. Flying(x) /\ Open(x) = {op[r].doc} BY <1>4 DEF Flying, Open, Processing
<1>7. op[r].alone => Careful(setup, r, x, row', chunks', suspect')
  BY <1>1, <1>3, <1>4 DEF Careful, Processing
<1>8. \A l \in Loaders : l # op[r].doc => RowsOf(chunks', l) = RowsOf(chunks, l)
  BY <1>1 DEF RowsOf, ChunksOf
<1>9. op[r].alone => \A l \in Loaders : l # op[r].doc => Right(row', chunks', suspect', l)
  BY <1>1, <1>3, <1>8 DEF Right, Counts
<1>10. suspect' \subseteq Loaders BY <1>1 DEF StoreInv, StoreTypeOK
<1> QED BY <1>1, <1>2, <1>3, <1>4, <1>5, <1>6, <1>7, <1>9, <1>10, OneTotals

LEMMA UnlistTotals ==
    ASSUME StoreInv, OrphanInv, TotalsInv, NEW r \in Requests, Unlist(r)
    PROVE  TotalsInv'
<1>1. /\ op[r].pc = "unlisting" /\ EndsAs(r, "done")
      /\ row' = [op[r].copy EXCEPT !.loaders = [k \in DOMAIN @ \ {op[r].doc} |-> @[k]]]
      /\ UNCHANGED <<setup, chunks, suspect>>
  BY DEF Unlist, At, history
<1>2. /\ op[r] \in Op /\ Flying(op[r]) /\ op[r].pending = {} /\ Open(op[r]) = {op[r].doc}
      /\ op[r].copy \in Rows
      /\ op[r].alone => /\ op[r].copy.loaders = row.loaders
                        /\ \A l \in Loaders : l # op[r].doc => Right(row, chunks, suspect, l)
  BY <1>1, AtPhase DEF CopyPhases, Open, Op
<1>3. row'.loaders = [k \in DOMAIN op[r].copy.loaders \ {op[r].doc} |-> op[r].copy.loaders[k]]
  BY <1>1, <1>2, RowElim
<1>4. ASSUME op[r].alone, NEW l \in Loaders PROVE Right(row', chunks', suspect', l)
  <2>1. CASE l = op[r].doc BY <1>3, <2>1 DEF Right, Clean, Listed
  <2>2. CASE l # op[r].doc
    <3>1. Clean(row', suspect', l) => /\ Clean(row, suspect, l)
                                      /\ row'.loaders[l] = row.loaders[l]
      BY <1>1, <1>2, <1>3, <1>4, <2>2 DEF Clean, Listed
    <3> QED BY <1>1, <1>2, <1>4, <2>2, <3>1 DEF Right
  <2> QED BY <2>1, <2>2
<1>5. suspect' \subseteq Loaders BY <1>1 DEF StoreInv, StoreTypeOK
<1> QED BY <1>1, <1>2, <1>4, <1>5, EndTotals

\* The chunk that is found is the one that was asked for.
LEMMA FindChunkTotals ==
    ASSUME StoreInv, OrphanInv, TotalsInv, NEW r \in Requests, FindChunk(r)
    PROVE  TotalsInv'
<1> DEFINE found == {c \in chunks : \E d \in op[r].docs : Same(c, d)}
<1>1. op[r].pc = "seeking" /\ UNCHANGED <<setup, row, chunks, suspect>>
  BY DEF FindChunk, At, history
<1>2. /\ op[r] \in Op /\ Flying(op[r]) /\ Suits(setup.kind[r], op[r]) /\ Open(op[r]) = {}
      /\ op[r].pending = {} /\ op[r].doc \in Loaders
      /\ op[r].alone => /\ op[r].copy.loaders = row.loaders
                        /\ Careful(setup, r, op[r], row, chunks, suspect)
                        /\ \A l \in Loaders : Right(row, chunks, suspect, l)
  BY <1>1, AtPhase, OpType DEF CopyPhases, Open, Processing, BusyOp
<1>3. CASE EndsAs(r, "failed") BY <1>1, <1>2, <1>3, EndPlain
<1>4. CASE op' = [op EXCEPT ![r].pc = "changing", ![r].docs = found]
  <2> DEFINE x == [op[r] EXCEPT !.pc = "changing", !.docs = found]
  <2>1. op' = [op EXCEPT ![r] = x] BY <1>4
  <2> HIDE DEF found
  <2>2. /\ x.pc = "changing" /\ x.doc = op[r].doc /\ x.copy = op[r].copy /\ x.docs = found
        /\ x.alone = op[r].alone /\ x.left = op[r].left /\ x.items = op[r].items
    BY <1>2 DEF Op
  <2> HIDE DEF x
  <2>3. Suits(setup.kind[r], x) BY <1>1, <1>2, <2>2 DEF Suits, Processing
  <2>4. Flying(x) /\ Open(x) = {} BY <2>2 DEF Flying, Open, Processing
  <2>5. ASSUME op[r].alone
        PROVE  /\ \A c \in found : c.doc = op[r].doc
               /\ Clean(row, suspect, op[r].doc) => \E c \in chunks : found = {c}
    <3>1. PICK c \in chunks : c.doc = op[r].doc /\ op[r].docs = {c}
      BY <1>1, <1>2, <2>5 DEF Careful
    <3>2. /\ \A d \in found : d \in chunks /\ d.doc = c.doc /\ Same(d, c)
          /\ c \in found
      BY <3>1 DEF found, Same
    <3>3. ASSUME Clean(row, suspect, op[r].doc) PROVE found = {c}
      <4>1. \A d, e \in RowsOf(chunks, op[r].doc) : Same(d, e) => d = e
        BY <1>2, <2>5, <3>3 DEF Right, Counts
      <4> QED BY <3>1, <3>2, <4>1 DEF RowsOf
    <3> QED BY <3>1, <3>2, <3>3
  <2>6. op[r].alone => Careful(setup, r, x, row, chunks, suspect)
    BY <1>2, <2>2, <2>5 DEF Careful, Processing
  <2> QED BY <1>1, <1>2, <2>1, <2>2, <2>3, <2>4, <2>6, PlainTotals
<1> QED BY <1>3, <1>4 DEF FindChunk

\* One of the rows of a loader goes, or gives way to its edited version.
LEMMA ChangedCounts ==
    ASSUME NEW rows \in SUBSET Chunk, NEW c \in rows, NEW n \in Int, NEW edit \in BOOLEAN,
           NEW later, Counts(rows, c.doc, n),
           later = {d \in rows : ~ Same(d, c)}
                      \cup {d \in {[c EXCEPT !.edited = TRUE]} : edit}
    PROVE  Counts(later, c.doc, n - (IF edit THEN 0 ELSE 1))
<1> DEFINE S == RowsOf(rows, c.doc)
           T == S \ {c}
           e == [c EXCEPT !.edited = TRUE]
<1>1. c \in S BY DEF RowsOf
<1>2. /\ IsFiniteSet(S) /\ Cardinality(S) = n
      /\ \A a, b \in S : Same(a, b) => a = b
  BY DEF Counts
<1>3. e.doc = c.doc /\ e.by = c.by /\ e.no = c.no BY DEF Chunk
<1> HIDE DEF e
<1>4. \A d \in S : d # c <=> ~ Same(d, c) BY <1>1, <1>2 DEF Same
<1>5. IsFiniteSet(T) /\ Cardinality(T) = n - 1
  BY <1>1, <1>2, FS_RemoveElement
<1>6. CASE edit
  <2>1. RowsOf(later, c.doc) = T \cup {e}
    BY <1>3, <1>4, <1>6 DEF RowsOf, e
  <2>2. \A d \in T : ~ Same(d, e) /\ ~ Same(e, d) BY <1>3, <1>4 DEF Same
  <2>3. e \notin T BY <2>2 DEF Same
  <2>4. \A a, b \in T \cup {e} : Same(a, b) => a = b BY <1>2, <2>2
  <2>5. n - (IF edit THEN 0 ELSE 1) = n BY <1>6
  <2> HIDE DEF T
  <2>6. /\ IsFiniteSet(T \cup {e})
        /\ Cardinality(T \cup {e}) = Cardinality(T) + 1
    BY <1>5, <2>3, FS_AddElement
  <2>7. Cardinality(T \cup {e}) = n BY <1>5, <2>6
  <2> QED BY <2>1, <2>4, <2>5, <2>6, <2>7 DEF Counts
<1>7. CASE ~ edit
  <2>1. RowsOf(later, c.doc) = T BY <1>4, <1>7 DEF RowsOf
  <2> QED BY <1>2, <1>5, <1>7, <2>1 DEF Counts
<1> QED BY <1>6, <1>7

LEMMA ChangeChunkTotals ==
    ASSUME StoreInv, OrphanInv, TotalsInv, NEW r \in Requests, ChangeChunk(r)
    PROVE  TotalsInv'
<1> DEFINE edit == Kind(r) = "editChunk"
           doc == op[r].doc
           docs == op[r].docs
<1>1. /\ op[r].pc = "changing" /\ Goto(r, "counting")
      /\ chunks' = {c \in chunks : \A d \in docs : ~ Same(c, d)}
                      \cup {[d EXCEPT !.edited = TRUE] : d \in {e \in docs : edit}}
      /\ UNCHANGED <<setup, row, suspect>>
  BY DEF ChangeChunk, At, history
<1> DEFINE x == [op[r] EXCEPT !.pc = "counting"]
<1>2. op' = [op EXCEPT ![r] = x] BY <1>1 DEF Goto
<1>3. /\ op[r] \in Op /\ Flying(op[r]) /\ Suits(setup.kind[r], op[r]) /\ Open(op[r]) = {}
      /\ doc \in Loaders /\ docs \subseteq Chunk
      /\ op[r].alone => /\ op[r].copy.loaders = row.loaders
                        /\ Careful(setup, r, op[r], row, chunks, suspect)
                        /\ \A l \in Loaders : Right(row, chunks, suspect, l)
  BY <1>1, AtPhase, OpType DEF CopyPhases, Open, Processing, BusyOp, Op
<1>4. /\ x.pc = "counting" /\ x.doc = doc /\ x.copy = op[r].copy
      /\ x.alone = op[r].alone /\ x.left = op[r].left /\ x.items = op[r].items
  BY <1>3 DEF Op
<1> HIDE DEF x
<1>5. Suits(setup.kind[r], x) BY <1>1, <1>3, <1>4 DEF Suits, Processing
<1>6. Flying(x) /\ Open(x) = {doc} BY <1>4 DEF Flying, Open, Processing
<1>7. ASSUME op[r].alone, NEW l \in Loaders, l # doc
      PROVE  Right(row', chunks', suspect', l)
  <2>1. \A d \in docs : d.doc = doc BY <1>1, <1>3, <1>7 DEF Careful
  <2>2. \A d \in docs : [d EXCEPT !.edited = TRUE].doc = doc BY <1>3, <2>1 DEF Chunk
  <2>3. RowsOf(chunks', l) = RowsOf(chunks, l) BY <1>1, <1>7, <2>1, <2>2 DEF RowsOf, Same
  <2> QED BY <1>1, <1>3, <1>7, <2>3 DEF Right, Counts
<1>8. ASSUME op[r].alone, Clean(row, suspect, doc)
      PROVE  Counts(chunks', doc, row.loaders[doc].total - (IF edit THEN 0 ELSE 1))
  <2>1. PICK c \in chunks : docs = {c} BY <1>1, <1>3, <1>8 DEF Careful
  <2>2. c.doc = doc BY <1>1, <1>3, <1>8, <2>1 DEF Careful
  <2>3. chunks' = {d \in chunks : ~ Same(d, c)}
                     \cup {d \in {[c EXCEPT !.edited = TRUE]} : edit}
    BY <1>1, <2>1
  <2>4. Counts(chunks, c.doc, row.loaders[doc].total) BY <1>3, <1>8, <2>2 DEF Right
  <2>5. row.loaders[doc].total \in Int BY <1>8, OpType, RowElim, LoaderElim DEF Clean, Listed
  <2>6. chunks \in SUBSET Chunk /\ edit \in BOOLEAN BY StillTyped
  <2> HIDE DEF edit, doc
  <2> QED BY <2>2, <2>3, <2>4, <2>5, <2>6, ChangedCounts
<1>9. op[r].alone => Careful(setup, r, x, row', chunks', suspect')
  BY <1>1, <1>3, <1>4, <1>8 DEF Careful, Processing, Kind
<1>10. suspect' \subseteq Loaders BY <1>1 DEF StoreInv, StoreTypeOK
<1> QED BY <1>1, <1>2, <1>3, <1>4, <1>5, <1>6, <1>7, <1>9, <1>10, OneTotals


LEMMA SaveTotalsTotals ==
    ASSUME StoreInv, OrphanInv, TotalsInv, NEW r \in Requests, SaveTotals(r)
    PROVE  TotalsInv'
<1> DEFINE doc == op[r].doc
           copy == op[r].copy
           less == IF Kind(r) = "editChunk" THEN 0 ELSE 1
<1>1. /\ op[r].pc = "counting" /\ EndsAs(r, "done")
      /\ row' = IF Kind(r) = "editChunk" THEN copy ELSE Recount(copy, doc)
      /\ UNCHANGED <<setup, chunks, suspect>>
  BY DEF SaveTotals, At, history
<1>2. /\ op[r] \in Op /\ Flying(op[r]) /\ op[r].pending = {} /\ Open(op[r]) = {doc}
      /\ copy \in Rows
      /\ op[r].alone => /\ copy.loaders = row.loaders
                        /\ Careful(setup, r, op[r], row, chunks, suspect)
                        /\ \A l \in Loaders : l # doc => Right(row, chunks, suspect, l)
  BY <1>1, AtPhase DEF CopyPhases, Open, Op
<1>3. /\ DOMAIN row'.loaders = DOMAIN copy.loaders
      /\ \A l \in DOMAIN copy.loaders :
            IF l = doc THEN /\ row'.loaders[l].status = copy.loaders[l].status
                            /\ row'.loaders[l].total = copy.loaders[l].total - less
            ELSE row'.loaders[l] = copy.loaders[l]
  <2>1. CASE Kind(r) = "editChunk"
    <3>1. \A l \in DOMAIN copy.loaders : copy.loaders[l].total \in Int
      BY <1>2, RowElim, LoaderElim
    <3> HIDE DEF doc, copy
    <3> QED BY <1>1, <2>1, <3>1
  <2>2. CASE Kind(r) # "editChunk"
    <3>1. row'.loaders = [copy.loaders EXCEPT ![doc].total = @ - 1]
      BY <1>1, <1>2, <2>2, RowElim DEF Recount
    <3>2. \A l \in DOMAIN copy.loaders : copy.loaders[l] \in Loader BY <1>2, RowElim
    <3> HIDE DEF doc, copy
    <3>3. DOMAIN row'.loaders = DOMAIN copy.loaders BY <3>1
    <3>4. ASSUME NEW l \in DOMAIN copy.loaders, l = doc
          PROVE  /\ row'.loaders[l].status = copy.loaders[l].status
                 /\ row'.loaders[l].total = copy.loaders[l].total - less
      <4>1. row'.loaders[l] = [copy.loaders[l] EXCEPT !.total = @ - 1] BY <3>1, <3>4
      <4> QED BY <2>2, <3>2, <4>1 DEF Loader
    <3>5. \A l \in DOMAIN copy.loaders : l # doc => row'.loaders[l] = copy.loaders[l]
      BY <3>1
    <3> QED BY <3>3, <3>4, <3>5
  <2> QED BY <2>1, <2>2
<1> HIDE DEF doc, copy
<1>4. ASSUME op[r].alone, NEW l \in Loaders PROVE Right(row', chunks', suspect', l)
  <2>1. CASE l = doc
    <3>1. Clean(row', suspect', l) => /\ Clean(row, suspect, doc)
                                      /\ row'.loaders[l].total = row.loaders[doc].total - less
      BY <1>1, <1>2, <1>3, <1>4, <2>1 DEF Clean, Listed
    <3>2. Clean(row, suspect, doc) => Counts(chunks, doc, row.loaders[doc].total - less)
      BY <1>1, <1>2, <1>4 DEF Careful, Kind, doc
    <3> QED BY <1>1, <2>1, <3>1, <3>2 DEF Right
  <2>2. CASE l # doc
    <3>1. Clean(row', suspect', l) => /\ Clean(row, suspect, l)
                                      /\ row'.loaders[l] = row.loaders[l]
      BY <1>1, <1>2, <1>3, <1>4, <2>2 DEF Clean, Listed
    <3> QED BY <1>1, <1>2, <1>4, <2>2, <3>1 DEF Right
  <2> QED BY <2>1, <2>2
<1>5. suspect' \subseteq Loaders BY <1>1 DEF StoreInv, StoreTypeOK
<1> QED BY <1>1, <1>2, <1>4, <1>5, EndTotals

LEMMA EraseChunksTotals ==
    ASSUME StoreInv, OrphanInv, TotalsInv, NEW r \in Requests, EraseChunks(r)
    PROVE  TotalsInv'
<1>1. /\ op[r].pc = "erasing" /\ Goto(r, "removing") /\ UNCHANGED <<setup, suspect>>
  BY DEF EraseChunks, At, history
<1> DEFINE x == [op[r] EXCEPT !.pc = "removing"]
<1>2. op' = [op EXCEPT ![r] = x] BY <1>1 DEF Goto
<1>3. op[r] \in Op /\ Flying(op[r]) /\ Suits(setup.kind[r], op[r]) BY <1>1, AtPhase
<1>4. /\ x.pc = "removing" /\ x.alone = op[r].alone /\ x.left = op[r].left
      /\ x.items = op[r].items
  BY <1>3 DEF Op
<1> HIDE DEF x
<1>5. Suits(setup.kind[r], x) BY <1>1, <1>3, <1>4 DEF Suits, Processing
<1>6. Flying(x) /\ Open(x) = Loaders BY <1>4 DEF Flying, Open, Processing
<1>7. Careful(setup, r, x, row', chunks', suspect')
  BY <1>4 DEF Careful, CopyPhases, Processing
<1>8. suspect' \subseteq Loaders BY <1>1 DEF StoreInv, StoreTypeOK
<1> QED BY <1>1, <1>2, <1>3, <1>4, <1>5, <1>6, <1>7, <1>8, OneTotals

LEMMA RemoveRowTotals ==
    ASSUME StoreInv, OrphanInv, TotalsInv, NEW r \in Requests, RemoveRow(r)
    PROVE  TotalsInv'
<1>1. /\ op[r].pc = "removing" /\ EndsAs(r, "done") /\ row' = Gone
      /\ UNCHANGED <<setup, suspect>>
  BY DEF RemoveRow, At
<1>2. Flying(op[r]) /\ op[r].pending = {} BY <1>1, AtPhase
<1>3. \A l \in Loaders : Right(row', chunks', suspect', l)
  BY <1>1, GoneType DEF Right, Clean, Listed
<1>4. suspect' \subseteq Loaders BY <1>1 DEF StoreInv, StoreTypeOK
<1> QED BY <1>1, <1>2, <1>3, <1>4, EndTotals

LEMMA TouchTotals ==
    ASSUME StoreInv, OrphanInv, TotalsInv, NEW r \in Requests,
           Touch(r) \/ (Forget(r) /\ Kind(r) = "unindex")
    PROVE  TotalsInv'
<1>1. /\ op[r].pc \in CalmPhases /\ EndsAs(r, "done")
      /\ UNCHANGED <<setup, chunks, suspect>>
      /\ row' = row \/ (op[r].pc \in CopyPhases /\ row' = op[r].copy)
  <2>1. CASE Touch(r) BY <2>1 DEF Touch, At, history, CalmPhases, CopyPhases
  <2>2. CASE Forget(r) /\ Kind(r) = "unindex"
    BY <2>2 DEF Forget, At, history, CalmPhases, CopyPhases
  <2> QED BY <2>1, <2>2
<1>2. op[r].alone => row'.loaders = row.loaders BY <1>1, AtPhase DEF CalmPhases
<1> QED BY <1>1, <1>2, CalmEnds

LEMMA NotFoundTotals ==
    ASSUME StoreInv, OrphanInv, TotalsInv, NEW r \in Requests, NotFound(r)
    PROVE  TotalsInv'
<1>1. /\ op[r].pc \in {"item", "found", "marked", "configuring", "loading"} /\ row = Gone
      /\ EndsAs(r, "failed") /\ UNCHANGED <<setup, row, chunks, suspect>>
  BY DEF NotFound, history
<1>2. Flying(op[r]) /\ op[r].pending = {} BY <1>1, AtPhase
<1>3. \A l : ~ Clean(row, suspect, l) BY <1>1, GoneType DEF Clean, Listed
<1> QED BY <1>1, <1>2, <1>3, EndPlain

----------------------------------------------------------------------------
\* Whoever is cut off leaves no totals behind that pass for right and are not.
LEMMA CutOffOpen ==
    ASSUME StoreInv, OrphanInv, TotalsInv, NEW S \in SUBSET Requests, NEW r \in S,
           op[r].pc \notin {"idle", "done", "failed"}, op[r].alone,
           NEW l \in Open(op[r]), l \in Loaders
    PROVE  ~ Clean(row, suspect \cup CutOff(S), l)
<1>1. SUFFICES ASSUME Clean(row, suspect \cup CutOff(S), l) PROVE FALSE OBVIOUS
<1>2. Clean(row, suspect, l) /\ l \notin CutOff(S) BY <1>1 DEF Clean
<1>3. CASE op[r].pc = "removing" BY <1>2, <1>3 DEF CutOff
<1>4. CASE op[r].pc \in {"unlisting", "counting"}
  <2>1. l = op[r].doc BY <1>4 DEF Open, Processing
  <2> QED BY <1>2, <1>4, <2>1 DEF CutOff
<1>5. CASE op[r].pc \in Processing
  <2>1. l = op[r].doc BY <1>5 DEF Open, Processing
  <2>2. setup.queue
    BY <1>2, <1>5, <2>1, AtPhase DEF Careful
  <2>3. Unmarked(op[r]) BY <1>2, <2>1, <2>2 DEF Unmarked, Clean
  <2> QED BY <1>2, <1>5, <2>1, <2>3 DEF CutOff, Processing
<1>6. op[r].pc \in Processing \cup {"unlisting", "counting", "removing"}
  BY DEF Open
<1> QED BY <1>3, <1>4, <1>5, <1>6

\* A request that is cut off.
LEMMA CutOffCareful ==
    ASSUME StoreInv, OrphanInv, TotalsInv, NEW S \in SUBSET Requests, NEW r \in S,
           op[r].pc \notin {"idle", "done", "failed"}, op[r].alone,
           NEW x, x.pc = "failed", x.pending \subseteq op[r].pending
    PROVE  Careful(setup, r, x, row, chunks, suspect \cup CutOff(S))
<1>1. ASSUME NEW c \in x.pending PROVE ~ Clean(row, suspect \cup CutOff(S), c.doc)
  <2>1. op[r].pc = "inserting" BY <1>1, AtPhase
  <2>2. RowsOf(chunks, op[r].doc) \cup op[r].pending = Full(r, op[r].doc, op[r].size)
    BY <2>1, AtPhase DEF Careful
  <2>3. c \in Full(r, op[r].doc, op[r].size) BY <1>1, <2>2
  <2>4. c.doc = op[r].doc BY <2>3 DEF Full
  <2>5. op[r].doc \in Loaders BY <2>1, OpType DEF BusyOp
  <2>6. op[r].doc \in Open(op[r]) BY <2>1 DEF Open, Processing
  <2> QED BY <2>4, <2>5, <2>6, CutOffOpen
<1> QED BY <1>1 DEF Careful, CopyPhases, Processing

LEMMA ThrowTotals ==
    ASSUME StoreInv, OrphanInv, TotalsInv, NEW r \in Requests, Throw(r)
    PROVE  TotalsInv'
<1>1. /\ op[r].pc \notin {"idle", "done", "failed"} /\ UNCHANGED <<setup, row, chunks>>
      /\ suspect' = suspect \cup CutOff({r})
  BY DEF Throw
<1>2. op[r] \in Op /\ Flying(op[r]) BY <1>1, AtPhase
<1>3. suspect' \subseteq Loaders BY <1>1, StillTyped, CutOffType
<1>4. ASSUME op[r].alone, NEW l \in Loaders PROVE Right(row', chunks', suspect', l)
  <2>1. CASE l \in Open(op[r]) BY <1>1, <1>4, <2>1, CutOffOpen DEF Right
  <2>2. CASE l \notin Open(op[r])
    <3>1. Right(row, chunks, suspect, l) BY <1>1, <1>4, <2>2, AtPhase
    <3> QED BY <1>1, <3>1 DEF Right, Clean
  <2> QED BY <2>1, <2>2
<1>5. CASE op[r].pending = {}
  <2>1. EndsAs(r, "failed") BY <1>5 DEF Throw
  <2> QED BY <1>1, <1>2, <1>3, <1>4, <1>5, <2>1, EndTotals
<1>6. CASE op[r].pending # {}
  <2>1. PICK c \in op[r].pending :
          op' = [op EXCEPT ![r] = [Over(op[r], "failed") EXCEPT
                                      !.pending = Over(op[r], "failed").pending \ {c}]]
    BY <1>6 DEF Throw
  <2> DEFINE o == Over(op[r], "failed")
             x == [o EXCEPT !.pending = o.pending \ {c}]
  <2>2. op' = [op EXCEPT ![r] = x] BY <2>1
  <2>3. /\ o \in Op /\ o.pc = "failed" /\ o.pending = op[r].pending
        /\ o.alone = op[r].alone /\ o.items = op[r].items /\ o.left = {}
    BY <1>2, OverType, OverFields
  <2> HIDE DEF o
  <2>4. /\ x.pc = "failed" /\ x.pending \subseteq op[r].pending /\ x.alone = op[r].alone
        /\ x.items = op[r].items /\ x.left = {}
    BY <2>3 DEF Op
  <2> HIDE DEF x
  <2>5. Suits(setup.kind[r], x) BY <2>4, EndSuits
  <2>6. op[r].alone => Careful(setup, r, x, row', chunks', suspect')
    BY <1>1, <2>4, CutOffCareful
  <2> QED BY <1>1, <1>2, <1>3, <1>4, <2>2, <2>4, <2>5, <2>6, OneTotals
<1> QED BY <1>5, <1>6


\* A process that dies puts nothing in flight that was not.
LEMMA AllTotals ==
    ASSUME StoreInv, OrphanInv, TotalsInv, UNCHANGED <<setup, row, chunks>>,
           suspect \subseteq suspect', suspect' \subseteq Loaders,
           \A q \in Requests :
              /\ op'[q].alone = op[q].alone
              /\ Flying(op'[q]) => Flying(op[q])
              /\ Suits(setup.kind[q], op'[q])
              /\ Flying(op[q]) /\ op[q].alone =>
                    /\ \A l \in Open(op[q]) \cap Loaders :
                          \/ Flying(op'[q]) /\ l \in Open(op'[q])
                          \/ ~ Clean(row, suspect', l)
                    /\ Flying(op'[q]) => Careful(setup, q, op'[q], row, chunks, suspect')
    PROVE  TotalsInv'
<1>1. Watched' BY DEF TotalsInv, Watched
<1>2. AllRight'
  <2>1. ASSUME NEW l \in Loaders, \A q \in Requests : Flying(op'[q]) => l \notin Open(op'[q])
        PROVE  Right(row', chunks', suspect', l)
    <3>1. CASE \E q \in Requests : Flying(op[q]) /\ l \in Open(op[q])
      <4>1. PICK q \in Requests : Flying(op[q]) /\ l \in Open(op[q]) BY <3>1
      <4>2. CASE op[q].alone
        <5>1. ~ Clean(row, suspect', l) BY <2>1, <4>1, <4>2
        <5> QED BY <5>1 DEF Right
      <4>3. CASE ~ op[q].alone
        <5>1. suspect' = Loaders BY <4>1, <4>3 DEF TotalsInv, Watched
        <5> QED BY <5>1 DEF Right, Clean
      <4> QED BY <4>2, <4>3
    <3>2. CASE \A q \in Requests : Flying(op[q]) => l \notin Open(op[q])
      <4>1. Right(row, chunks, suspect, l) BY <3>2 DEF TotalsInv, AllRight
      <4> QED BY <4>1 DEF Right, Clean
    <3> QED BY <3>1, <3>2
  <2> QED BY <2>1 DEF AllRight
<1>3. AllCareful' BY DEF AllCareful
<1>4. AllSuit' BY DEF AllSuit
<1> QED BY <1>1, <1>2, <1>3, <1>4 DEF TotalsInv

LEMMA RestartedTotals ==
    ASSUME StoreInv, OrphanInv, TotalsInv, NEW r \in Requests, InJob(r)
    PROVE  LET x == Restarted(r) IN
           /\ x.alone = op[r].alone
           /\ Flying(op[r])
           /\ Suits(setup.kind[r], x)
           /\ op[r].alone => /\ \A l \in Open(op[r]) : \/ Flying(x) /\ l \in Open(x)
                                                       \/ ~ Clean(row, suspect, l)
                             /\ Careful(setup, r, x, row, chunks, suspect)
<1> DEFINE x == Restarted(r)
<1>1. /\ op[r].pc \notin {"idle", "done", "failed"} /\ setup.queue
      /\ \/ Kind(r) \in UploadKinds /\ op[r].pc \in Processing \cup {"reporting"}
         \/ Kind(r) \in UpsertKinds \cup {"insert"}
  BY DEF InJob, Processing
<1>2. /\ op[r] \in Op /\ Flying(op[r]) /\ Suits(setup.kind[r], op[r])
      /\ op[r].alone => Careful(setup, r, op[r], row, chunks, suspect)
  BY <1>1, AtPhase
<1>3. x.alone = op[r].alone /\ x.pending = {} BY RestartedType
<1>4. /\ x.pc = IF Kind(r) \in UploadKinds THEN "marked"
                ELSE IF Kind(r) \in UpsertKinds THEN "item" ELSE "configuring"
      /\ x.doc = IF Kind(r) \in UploadKinds THEN op[r].doc ELSE NoLoader
      /\ x.items = op[r].items /\ x.left = op[r].items
  BY RestType DEF Restarted, Op
<1> HIDE DEF x
<1>5. Flying(x) BY <1>4 DEF Flying
<1>6. Suits(setup.kind[r], x)
  <2>1. Kind(r) \in UploadKinds => setup.kind[r] \in InsertingKinds BY DEF Kind, InsertingKinds
  <2>2. Kind(r) \in UpsertKinds => setup.kind[r] \in InsertingKinds BY DEF Kind, InsertingKinds
  <2>3. x.items # {} \/ x.left # {} => setup.kind[r] \in InsertingKinds
    BY <1>2, <1>4 DEF Suits
  <2>4. CASE Kind(r) \in UploadKinds BY <1>4, <2>1, <2>3, <2>4 DEF Suits, Processing
  <2>5. CASE Kind(r) \notin UploadKinds /\ Kind(r) \in UpsertKinds
    BY <1>4, <2>3, <2>5 DEF Suits, Processing, Kind
  <2>6. CASE Kind(r) \notin UploadKinds /\ Kind(r) \notin UpsertKinds
    <3>1. Kind(r) = "insert" BY <1>1, <2>6
    <3> QED BY <1>4, <2>3, <2>6, <3>1 DEF Suits, Processing, Kind
  <2> QED BY <2>4, <2>5, <2>6
<1>7. op[r].alone => Careful(setup, r, x, row, chunks, suspect)
  BY <1>1, <1>4 DEF Careful, CopyPhases, Processing, Kind
<1>8. ASSUME op[r].alone, NEW l \in Open(op[r])
      PROVE  l \in Open(x) \/ ~ Clean(row, suspect, l)
  <2>1. CASE Kind(r) \in UploadKinds
    <3>1. op[r].pc \in Processing
      BY <1>1, <1>8, <2>1 DEF Open, Processing, UploadKinds, UpsertKinds
    <3> QED BY <1>4, <1>8, <2>1, <3>1 DEF Open, Processing
  <2>2. CASE Kind(r) \notin UploadKinds
    <3>1. setup.kind[r] \in UpsertKinds \cup {"insert"} BY <1>1, <2>2 DEF Kind
    <3>2. op[r].pc \notin {"unlisting", "counting", "removing"}
      BY <1>2, <3>1 DEF Suits, ChunkKinds, UpsertKinds
    <3>3. op[r].pc \in Processing /\ l = op[r].doc
      BY <1>8, <3>2 DEF Open, Processing
    <3> QED BY <1>2, <1>8, <2>2, <3>3 DEF Careful, Kind
  <2> QED BY <2>1, <2>2
<1> QED BY <1>2, <1>3, <1>5, <1>6, <1>7, <1>8 DEF x

LEMMA WorkerDiesTotals ==
    ASSUME StoreInv, OrphanInv, TotalsInv, WorkerDies
    PROVE  TotalsInv'
<1> DEFINE next(q) == IF InJob(q) THEN Restarted(q) ELSE [op[q] EXCEPT !.pending = {}]
<1>1. op' = [q \in Requests |-> next(q)] /\ UNCHANGED <<setup, row, chunks, suspect>>
  BY DEF WorkerDies, history
<1>2. setup.queue BY DEF WorkerDies, InJob
<1>3. ASSUME NEW q \in Requests
      PROVE  /\ next(q).alone = op[q].alone
             /\ Flying(next(q)) => Flying(op[q])
             /\ Suits(setup.kind[q], next(q))
             /\ Flying(op[q]) /\ op[q].alone =>
                   /\ \A l \in Open(op[q]) \cap Loaders :
                         \/ Flying(next(q)) /\ l \in Open(next(q))
                         \/ ~ Clean(row, suspect, l)
                   /\ Flying(next(q)) => Careful(setup, q, next(q), row, chunks, suspect)
  <2>1. CASE InJob(q) BY <2>1, RestartedTotals
  <2>2. CASE ~ InJob(q)
    <3>1. next(q) = [op[q] EXCEPT !.pending = {}] BY <2>2
    <3> HIDE DEF next
    <3>2. op[q] \in Op /\ BusyOp(op[q]) /\ Suits(setup.kind[q], op[q])
      BY OpType DEF TotalsInv, AllSuit
    <3>3. /\ next(q).pc = op[q].pc /\ next(q).alone = op[q].alone /\ next(q).doc = op[q].doc
          /\ next(q).copy = op[q].copy /\ next(q).docs = op[q].docs /\ next(q).pending = {}
          /\ next(q).items = op[q].items /\ next(q).left = op[q].left
      BY <3>1, <3>2 DEF Op
    <3>4. op[q].pc # "inserting"
      BY <1>2, <2>2, <3>2 DEF Suits, Processing, InsertingKinds, InJob, Kind
    <3>5. Flying(next(q)) => Flying(op[q]) BY <3>3 DEF Flying
    <3>6. Suits(setup.kind[q], next(q)) BY <3>2, <3>3 DEF Suits
    <3>7. Open(next(q)) = Open(op[q]) BY <3>3 DEF Open
    <3>8. Flying(op[q]) => Flying(next(q)) \/ op[q].pc = "failed"
      BY <3>2, <3>3, <3>4 DEF Flying, BusyOp
    <3>9. op[q].pc = "failed" => Open(op[q]) = {} BY DEF Open, Processing
    <3>10. ASSUME Flying(op[q]), op[q].alone
           PROVE  Careful(setup, q, next(q), row, chunks, suspect)
      <4>1. Careful(setup, q, op[q], row, chunks, suspect) BY <3>10, TotalsElim
      <4> QED BY <3>3, <3>4, <4>1 DEF Careful
    <3> QED BY <3>3, <3>5, <3>6, <3>7, <3>8, <3>9, <3>10
  <2> QED BY <2>1, <2>2
<1> HIDE DEF next
<1>4. \A q \in Requests : op'[q] = next(q) BY <1>1
<1>5. suspect' \subseteq Loaders BY <1>1, StillTyped
<1> QED BY <1>1, <1>3, <1>4, <1>5, AllTotals

\* What is suspect is not relied upon.
LEMMA CarefulMore ==
    ASSUME NEW s, NEW r, NEW x, NEW now, NEW rows, NEW sus, NEW more, sus \subseteq more,
           Careful(s, r, x, now, rows, sus)
    PROVE  Careful(s, r, x, now, rows, more)
<1>1. \A l : Clean(now, more, l) => Clean(now, sus, l) BY DEF Clean
<1> QED BY <1>1 DEF Careful

LEMMA ServerDiesTotals ==
    ASSUME StoreInv, OrphanInv, TotalsInv, ServerDies
    PROVE  TotalsInv'
<1> DEFINE lost == {q \in Requests : op[q].pc \notin {"idle", "done", "failed"} /\ ~InJob(q)}
           o(q) == IF q \in lost THEN Over(op[q], "failed") ELSE op[q]
           next(q) == IF setup.queue THEN o(q) ELSE [o(q) EXCEPT !.pending = {}]
           more == suspect \cup CutOff(lost)
<1>1. /\ op' = [q \in Requests |-> next(q)] /\ UNCHANGED <<setup, row, chunks>>
      /\ suspect' = more
  BY DEF ServerDies
<1>2. more \subseteq Loaders BY StillTyped, CutOffType
<1>3. ASSUME NEW q \in Requests
      PROVE  /\ next(q).alone = op[q].alone
             /\ Flying(next(q)) => Flying(op[q])
             /\ Suits(setup.kind[q], next(q))
             /\ Flying(op[q]) /\ op[q].alone =>
                   /\ \A l \in Open(op[q]) \cap Loaders :
                         \/ Flying(next(q)) /\ l \in Open(next(q))
                         \/ ~ Clean(row, more, l)
                   /\ Flying(next(q)) => Careful(setup, q, next(q), row, chunks, more)
  <2>1. op[q] \in Op /\ BusyOp(op[q]) /\ Suits(setup.kind[q], op[q])
    BY OpType DEF TotalsInv, AllSuit
  <2>2. CASE q \in lost
    <3>1. o(q) = Over(op[q], "failed") BY <2>2
    <3> HIDE DEF o
    <3>2. /\ o(q) \in Op /\ o(q).pc = "failed" /\ o(q).pending = op[q].pending
          /\ o(q).alone = op[q].alone /\ o(q).items = op[q].items /\ o(q).left = {}
      BY <2>1, <3>1, OverType, OverFields
    <3>3. /\ next(q).pc = "failed" /\ next(q).pending \subseteq op[q].pending
          /\ next(q).alone = op[q].alone /\ next(q).items = op[q].items /\ next(q).left = {}
      <4>1. CASE setup.queue BY <3>2, <4>1
      <4>2. CASE ~ setup.queue
        <5>1. next(q) = [o(q) EXCEPT !.pending = {}] BY <4>2
        <5> HIDE DEF next
        <5> QED BY <3>2, <5>1 DEF Op
      <4> QED BY <4>1, <4>2
    <3>4. /\ lost \in SUBSET Requests /\ q \in lost
          /\ op[q].pc \notin {"idle", "done", "failed"}
      BY <2>2
    <3> HIDE DEF next, lost
    <3>5. Flying(op[q]) BY <3>4 DEF Flying
    <3>6. Suits(setup.kind[q], next(q)) BY <3>3, EndSuits
    <3>7. op[q].alone => Careful(setup, q, next(q), row, chunks, more)
      BY <3>3, <3>4, CutOffCareful
    <3>8. op[q].alone => \A l \in Open(op[q]) \cap Loaders : ~ Clean(row, more, l)
      BY <3>4, CutOffOpen
    <3> QED BY <3>3, <3>5, <3>6, <3>7, <3>8
  <2>3. CASE q \notin lost /\ setup.queue
    <3>1. next(q) = op[q] BY <2>3
    <3> HIDE DEF next
    <3>2. Flying(op[q]) /\ op[q].alone => Careful(setup, q, op[q], row, chunks, more)
      BY TotalsElim, CarefulMore
    <3> QED BY <2>1, <3>1, <3>2
  <2>4. CASE q \notin lost /\ ~ setup.queue
    <3>1. next(q) = [op[q] EXCEPT !.pending = {}] BY <2>4
    <3>2. op[q].pc \in {"idle", "done", "failed"} BY <2>4 DEF InJob
    <3> HIDE DEF next
    <3>3. /\ next(q).pc = op[q].pc /\ next(q).alone = op[q].alone /\ next(q).pending = {}
          /\ next(q).items = op[q].items /\ next(q).left = op[q].left
      BY <2>1, <3>1 DEF Op
    <3>4. ~ Flying(next(q)) BY <3>2, <3>3 DEF Flying
    <3>5. Open(op[q]) = {} BY <3>2 DEF Open, Processing
    <3>6. Suits(setup.kind[q], next(q)) BY <2>1, <3>2, <3>3 DEF Suits, Processing
    <3> QED BY <3>3, <3>4, <3>5, <3>6
  <2> QED BY <2>2, <2>3, <2>4
<1> HIDE DEF next, more
<1>4. \A q \in Requests : op'[q] = next(q) BY <1>1
<1>5. suspect \subseteq more BY DEF more
<1> QED BY <1>1, <1>2, <1>3, <1>4, <1>5, AllTotals


----------------------------------------------------------------------------
EnterPhases == {"marking", "item", "configuring", "clearing", "seeking", "erasing", "touching",
                "unindexing"}

LEMMA EnterTotals ==
    ASSUME StoreInv, OrphanInv, TotalsInv, NEW r \in Requests, NEW start \in Op, Enter(r, start),
           start.pc \in EnterPhases, Suits(setup.kind[r], start),
           start.copy = row \/ start.pc \notin CopyPhases,
           start.pc = "seeking" => \E c \in chunks : c.doc = start.doc /\ start.docs = {c}
    PROVE  TotalsInv'
<1> DEFINE others == {q \in Requests : InFlight(q)}
           next(q) == IF q = r THEN [start EXCEPT !.alone = (others = {})]
                      ELSE IF q \in others THEN [op[q] EXCEPT !.alone = FALSE] ELSE op[q]
<1>1. /\ op' = [q \in Requests |-> next(q)] /\ UNCHANGED <<setup, row, chunks>>
      /\ suspect' = IF others = {} THEN suspect ELSE Loaders
  BY DEF Enter
<1>2. \A q \in Requests : q \in others <=> Flying(op[q]) BY FlyingInFlight
<1>3. (others = {}) \in BOOLEAN OBVIOUS
<1>4. next(r) = [start EXCEPT !.alone = (others = {})] OBVIOUS
<1>5. \A q \in Requests \ {r} : IF q \in others THEN next(q) = [op[q] EXCEPT !.alone = FALSE]
                                ELSE next(q) = op[q]
  OBVIOUS
<1>6. \A q \in Requests : op'[q] = next(q) BY <1>1
<1> HIDE DEF next, others
<1>7. /\ next(r).alone = (others = {}) /\ next(r).pc = start.pc /\ next(r).doc = start.doc
      /\ next(r).copy = start.copy /\ next(r).docs = start.docs
      /\ next(r).items = start.items /\ next(r).left = start.left
  BY <1>3, <1>4 DEF Op
<1>8. ASSUME NEW q \in Requests \ {r}
      PROVE  /\ Flying(next(q)) => q \in others
             /\ q \in others => ~next(q).alone
             /\ Suits(setup.kind[q], next(q))
  <2>1. Suits(setup.kind[q], op[q]) BY DEF TotalsInv, AllSuit
  <2>2. CASE q \in others
    <3>1. /\ next(q).alone = FALSE /\ next(q).pc = op[q].pc /\ next(q).items = op[q].items
          /\ next(q).left = op[q].left
      BY <1>5, <2>2, OpType DEF Op
    <3> QED BY <2>1, <2>2, <3>1 DEF Suits
  <2>3. CASE q \notin others BY <1>2, <1>5, <2>1, <2>3
  <2> QED BY <2>2, <2>3
<1>9. AllSuit'
  <2>1. Suits(setup.kind[r], next(r)) BY <1>7 DEF Suits
  <2> QED BY <1>1, <1>6, <1>8, <2>1 DEF AllSuit
<1>10. Flying(start) /\ Open(start) = {}
  BY DEF EnterPhases, Flying, Open, Processing
<1>11. CASE others = {}
  <2>1. ASSUME NEW q \in Requests, Flying(op'[q]) PROVE q = r /\ op'[q].alone
    BY <1>6, <1>7, <1>8, <1>11, <2>1
  <2>2. Careful(setup', r, op'[r], row', chunks', suspect')
    BY <1>1, <1>6, <1>7, <1>11 DEF Careful, EnterPhases, CopyPhases, Processing
  <2>3. \A l \in Loaders : Right(row, chunks, suspect, l)
    BY <1>2, <1>11 DEF TotalsInv, AllRight
  <2>4. AllRight' BY <1>1, <1>11, <2>3 DEF AllRight, Right, Clean, Counts
  <2>5. AllCareful' BY <2>1, <2>2 DEF AllCareful
  <2>6. Watched' BY <2>1 DEF Watched
  <2> QED BY <1>9, <2>4, <2>5, <2>6 DEF TotalsInv
<1>12. CASE others # {}
  <2>1. ASSUME NEW q \in Requests, Flying(op'[q]) PROVE ~ op'[q].alone
    BY <1>6, <1>7, <1>8, <1>12, <2>1
  <2>2. suspect' = Loaders BY <1>1, <1>12
  <2>3. AllRight' BY <2>2 DEF AllRight, Right, Clean
  <2>4. AllCareful' BY <2>1 DEF AllCareful
  <2>5. Watched' BY <2>2 DEF Watched
  <2> QED BY <1>9, <2>3, <2>4, <2>5 DEF TotalsInv
<1> QED BY <1>11, <1>12

LEMMA BeginTotals ==
    ASSUME StoreInv, OrphanInv, TotalsInv, NEW r \in Requests, Begin(r)
    PROVE  TotalsInv'
<1>1. Rest \in Op /\ Rest.items = {} /\ Rest.left = {} BY RestType DEF Rest
<1>2. row \in Rows /\ DOMAIN row.loaders \in SUBSET Loaders /\ chunks \subseteq Chunk
  BY OpType, StillTyped, RowElim
<1>3. CASE BeginUpload(r)
  <2>1. PICK l \in Loaders :
           Enter(r, [Rest EXCEPT !.pc = "marking", !.doc = l, !.items = {l}, !.copy = row])
    BY <1>2, <1>3 DEF BeginUpload, Fresh
  <2> DEFINE x == [Rest EXCEPT !.pc = "marking", !.doc = l, !.items = {l}, !.copy = row]
  <2>2. x \in Op /\ x.copy = row /\ x.pc = "marking" BY <1>1, <1>2 DEF Op, Phases
  <2> HIDE DEF x
  <2>3. setup.kind[r] \in InsertingKinds BY <1>3 DEF BeginUpload, Kind, InsertingKinds
  <2>4. Suits(setup.kind[r], x) BY <2>2, <2>3 DEF Suits, Processing
  <2>5. Enter(r, x) BY <2>1 DEF x
  <2> QED BY <2>2, <2>4, <2>5, EnterTotals DEF EnterPhases
<1>4. CASE BeginUpsert(r)
  <2>1. PICK S \in Items(r) : Enter(r, [Rest EXCEPT !.pc = "item", !.items = S, !.left = S])
    BY <1>4 DEF BeginUpsert
  <2>2. Kind(r) \in UpsertKinds BY <1>4 DEF BeginUpsert
  <2>3. S \subseteq Loaders \cup {NoLoader} BY <1>2, <2>2, ItemsType
  <2> DEFINE x == [Rest EXCEPT !.pc = "item", !.items = S, !.left = S]
  <2>4. x \in Op /\ x.pc = "item" BY <1>1, <2>3 DEF Op, Phases
  <2> HIDE DEF x
  <2>5. Suits(setup.kind[r], x) BY <2>2, <2>4 DEF Suits, Processing, Kind, InsertingKinds
  <2>6. Enter(r, x) BY <2>1 DEF x
  <2> QED BY <2>4, <2>5, <2>6, EnterTotals DEF EnterPhases, CopyPhases
<1>5. CASE BeginInsert(r) \/ BeginDelete(r)
  <2>1. PICK pc \in {"configuring", "erasing"} :
          /\ Enter(r, [Rest EXCEPT !.pc = pc])
          /\ Kind(r) \in IF pc = "configuring" THEN {"insert", "config"} ELSE {"deleteStore"}
    BY <1>5 DEF BeginInsert, BeginDelete
  <2> DEFINE x == [Rest EXCEPT !.pc = pc]
  <2>2. x \in Op /\ x.pc = pc /\ x.items = {} /\ x.left = {} BY <1>1 DEF Op, Phases
  <2> HIDE DEF x
  <2>3. Suits(setup.kind[r], x) BY <2>1, <2>2 DEF Suits, Processing, Kind
  <2>4. Enter(r, x) BY <2>1 DEF x
  <2> QED BY <2>2, <2>3, <2>4, EnterTotals DEF EnterPhases, CopyPhases
<1>6. CASE BeginUnlist(r)
  <2>1. PICK l \in Loaders : Enter(r, [Rest EXCEPT !.pc = "clearing", !.doc = l, !.copy = row])
    BY <1>2, <1>6 DEF BeginUnlist
  <2> DEFINE x == [Rest EXCEPT !.pc = "clearing", !.doc = l, !.copy = row]
  <2>2. /\ x \in Op /\ x.copy = row /\ x.pc = "clearing" /\ x.items = {} /\ x.left = {}
    BY <1>1, <1>2 DEF Op, Phases
  <2> HIDE DEF x
  <2>3. Suits(setup.kind[r], x)
    BY <1>6, <2>2 DEF Suits, Processing, Kind, BeginUnlist
  <2>4. Enter(r, x) BY <2>1 DEF x
  <2> QED BY <2>2, <2>3, <2>4, EnterTotals DEF EnterPhases
<1>7. CASE BeginChunk(r)
  <2>1. PICK c \in chunks :
           Enter(r, [Rest EXCEPT !.pc = "seeking", !.doc = c.doc, !.docs = {c}, !.copy = row])
    BY <1>7 DEF BeginChunk
  <2>2. c \in Chunk /\ c.doc \in Loaders BY <1>2 DEF Chunk
  <2> DEFINE x == [Rest EXCEPT !.pc = "seeking", !.doc = c.doc, !.docs = {c}, !.copy = row]
  <2>3. /\ x \in Op /\ x.docs = {c} /\ x.doc = c.doc /\ x.copy = row /\ x.pc = "seeking"
        /\ x.items = {} /\ x.left = {}
    BY <1>1, <1>2, <2>2 DEF Op, Phases
  <2> HIDE DEF x
  <2>4. Suits(setup.kind[r], x)
    BY <1>7, <2>3 DEF Suits, Processing, Kind, BeginChunk
  <2>5. Enter(r, x) BY <2>1 DEF x
  <2> QED BY <2>1, <2>3, <2>4, <2>5, EnterTotals DEF EnterPhases
<1>8. CASE BeginTouch(r)
  <2> DEFINE x == [Rest EXCEPT !.pc = "touching", !.copy = row]
  <2>1. x \in Op /\ x.copy = row /\ x.pc = "touching" /\ x.items = {} /\ x.left = {}
    BY <1>1, <1>2 DEF Op, Phases
  <2>2. Enter(r, x) BY <1>8 DEF BeginTouch
  <2> HIDE DEF x
  <2>3. Suits(setup.kind[r], x) BY <2>1 DEF Suits, Processing
  <2> QED BY <2>1, <2>2, <2>3, EnterTotals DEF EnterPhases
<1>9. CASE BeginUnindex(r)
  <2>1. PICK l \in Loaders \cup {NoLoader} :
           Enter(r, [Rest EXCEPT !.pc = "unindexing", !.doc = l, !.copy = row])
    BY <1>2, <1>9 DEF BeginUnindex
  <2> DEFINE x == [Rest EXCEPT !.pc = "unindexing", !.doc = l, !.copy = row]
  <2>2. x \in Op /\ x.copy = row /\ x.pc = "unindexing" /\ x.items = {} /\ x.left = {}
    BY <1>1, <1>2 DEF Op, Phases
  <2> HIDE DEF x
  <2>3. Suits(setup.kind[r], x) BY <1>9, <2>2 DEF Suits, Processing, BeginUnindex, Kind
  <2>4. Enter(r, x) BY <2>1 DEF x
  <2> QED BY <2>2, <2>3, <2>4, EnterTotals DEF EnterPhases
<1> QED BY <1>3, <1>4, <1>5, <1>6, <1>7, <1>8, <1>9 DEF Begin

LEMMA InitTotals == Init => TotalsInv
<1> SUFFICES ASSUME Init PROVE TotalsInv OBVIOUS
<1>1. \A r \in Requests : op[r] = Rest BY DEF Init
<1>2. ~ Flying(Rest) /\ \A k : Suits(k, Rest)
  BY DEF Flying, Rest, Suits, Processing
<1>3. ASSUME NEW l \in Loaders, Clean(row, suspect, l)
      PROVE  Counts(chunks, l, row.loaders[l].total)
  <2>1. l \in setup.first /\ row.loaders[l].total = 1
    BY <1>3 DEF Init, Listing, Clean, Listed
  <2> DEFINE c == [doc |-> l, by |-> NoRequest, no |-> 1, edited |-> FALSE]
  <2>2. RowsOf(chunks, l) = {c}
    <3>1. c \in RowsOf(chunks, l) BY <2>1 DEF Init, RowsOf
    <3>2. ASSUME NEW d \in RowsOf(chunks, l) PROVE d = c
      BY DEF Init, RowsOf
    <3> QED BY <3>1, <3>2
  <2>3. IsFiniteSet({c}) /\ Cardinality({c}) = 1 BY FS_Singleton
  <2> HIDE DEF c
  <2> QED BY <2>1, <2>2, <2>3 DEF Counts
<1>4. AllRight BY <1>3 DEF AllRight, Right
<1> QED BY <1>1, <1>2, <1>4 DEF TotalsInv, Watched, AllCareful, AllSuit

LEMMA NextTotals == StoreInv /\ OrphanInv /\ TotalsInv /\ [Next]_vars => TotalsInv'
<1> SUFFICES ASSUME StoreInv, OrphanInv, TotalsInv, [Next]_vars PROVE TotalsInv' OBVIOUS
<1>1. ASSUME NEW r \in Requests, Begin(r) PROVE TotalsInv' BY <1>1, BeginTotals
<1>2. ASSUME NEW r \in Requests, Step(r) PROVE TotalsInv'
  BY <1>2, MarkTotals, FindTotals, SplitTotals, InsertChunkTotals, FinishProcessingTotals,
     ReportTotals, NoItemTotals, TakeItemTotals, FindToMarkTotals, SaveConfigTotals,
     SaveUpsertingTotals, IndexingTotals, FinishUpsertTotals, ClearTotals, UnlistTotals,
     FindChunkTotals, ChangeChunkTotals, SaveTotalsTotals, EraseChunksTotals, RemoveRowTotals,
     TouchTotals, NotFoundTotals
     DEF Step, Indexing
<1>3. ASSUME NEW r \in Requests, Throw(r) PROVE TotalsInv' BY <1>3, ThrowTotals
<1>4. CASE WorkerDies BY <1>4, WorkerDiesTotals
<1>5. CASE ServerDies BY <1>5, ServerDiesTotals
<1>6. CASE UNCHANGED vars
  BY <1>6 DEF vars, TotalsInv, Watched, AllRight, AllCareful, AllSuit
<1> QED BY <1>1, <1>2, <1>3, <1>4, <1>5, <1>6 DEF Next

\* At rest a loader that is listed as SYNC has as many chunk rows as it says,
\* unless an overlap or a cut may have spoilt its totals: processing it again,
\* alone, makes good whatever failed, died or overlapped before.
THEOREM TotalsAgreeHolds == Spec => []TotalsAgree
<1>1. StoreInv /\ TotalsInv => TotalsAgree
  <2> SUFFICES ASSUME StoreInv, TotalsInv, Quiet, NEW l \in DOMAIN row.loaders \ suspect,
                      row.loaders[l].status = "SYNC"
               PROVE  row.loaders[l].total = Cardinality(ChunksOf(l))
    BY DEF TotalsAgree
  <2>1. l \in Loaders BY OpType, StillTyped, RowElim
  <2>2. \A r \in Requests : ~ Flying(op[r]) BY FlyingInFlight DEF Quiet
  <2>3. Right(row, chunks, suspect, l) BY <2>1, <2>2 DEF TotalsInv, AllRight
  <2>4. Counts(chunks, l, row.loaders[l].total) BY <2>3 DEF Right, Clean, Listed
  <2> QED BY <2>4 DEF Counts, RowsOf, ChunksOf
<1>2. Init => StoreInv /\ IndexTypeOK /\ OrphanInv /\ TotalsInv
  BY InitTyped, InitIndexTyped, InitKept, InitTotals
<1>3. StoreInv /\ IndexTypeOK /\ OrphanInv /\ TotalsInv /\ [Next]_vars
         => (StoreInv /\ IndexTypeOK /\ OrphanInv /\ TotalsInv)'
  BY NextTyped, NextIndexTyped, NextKept, NextTotals
<1> QED BY <1>1, <1>2, <1>3, PTL DEF Spec

----------------------------------------------------------------------------
(***************************************************************************)
(* The records of the record manager                                       *)
(***************************************************************************)
\* Phases that only a store with a record manager has.
ManagedPhases == {"sending", "recording", "listing", "pruning", "forgetting", "unindexing"}

\* A deletion of all, alone, once it has listed the keys.
Emptying(k, x) ==
    x.alone /\ k = "unindex" /\ x.doc = NoLoader /\ x.pc \in {"pruning", "forgetting"}

\* What was on record when indexing began is in the vector store; what is about to be
\* recorded is there too; and what is still on record while keys are being forgotten is,
\* but for those keys.
Tracks(x, e, recs, vecs) ==
    /\ x.pc = "adding" => e.known \subseteq vecs
    /\ x.pc = "recording" => x.docs \subseteq vecs
    /\ x.pc = "forgetting" => recs \ x.docs \subseteq vecs

Unmanaged ==
    ~Managed => /\ records = {}
                /\ \A r \in Requests : session[r] = Nothing /\ op[r].pc \notin ManagedPhases

Emptied == \A r \in Requests : Emptying(setup.kind[r], op[r]) => records \subseteq op[r].docs

Tracked ==
    ~muddled => \A r \in Requests : Flying(op[r]) => /\ op[r].alone
                                                     /\ Tracks(op[r], session[r], records, vectors)

TrackInv == Unmanaged /\ Emptied /\ Tracked /\ RecordsAgree

\* What a step of one request has to show: it is the only one under way, unless
\* the records are not relied upon.
LEMMA OneTracks ==
    ASSUME StoreInv, OrphanInv, TrackInv, NEW r \in Requests, NEW x, Flying(op[r]),
           op' = [op EXCEPT ![r] = x], x.alone = op[r].alone, setup' = setup,
           muddled' = muddled,
           ~Managed => /\ records' = {} /\ x.pc \notin ManagedPhases
                       /\ \A q \in Requests : session'[q] = Nothing,
           Emptying(setup.kind[r], x) => records' \subseteq x.docs,
           ~muddled /\ op[r].alone => Tracks(x, session'[r], records', vectors'),
           ~muddled /\ op[r].alone /\ x.pc # "forgetting" => records' \subseteq vectors'
    PROVE  TrackInv'
<1>1. op \in [Requests -> Op] BY DEF StoreInv, StoreTypeOK
<1>2. op'[r] = x /\ \A q \in Requests \ {r} : op'[q] = op[q] BY <1>1
<1>3. Unmanaged'
  <2> SUFFICES ASSUME ~Managed PROVE /\ records' = {}
                                     /\ \A q \in Requests : /\ session'[q] = Nothing
                                                            /\ op'[q].pc \notin ManagedPhases
    BY DEF Unmanaged, Managed
  <2>1. \A q \in Requests : op[q].pc \notin ManagedPhases BY DEF TrackInv, Unmanaged
  <2> QED BY <1>2, <2>1
<1>4. Emptied'
  <2> SUFFICES ASSUME NEW q \in Requests, Emptying(setup.kind[q], op'[q])
               PROVE  records' \subseteq op'[q].docs
    BY DEF Emptied
  <2>1. CASE q = r BY <1>2, <2>1
  <2>2. CASE q # r
    <3>1. Flying(op[q]) /\ op[q].alone BY <1>2, <2>2 DEF Emptying, Flying
    <3> QED BY <2>2, <3>1 DEF OrphanInv, Serial
  <2> QED BY <2>1, <2>2
<1>5. ~muddled => /\ op[r].alone
                  /\ \A q \in Requests : Flying(op[q]) => q = r
  BY DEF TrackInv, Tracked, OrphanInv, Serial
<1>6. Tracked'
  <2> SUFFICES ASSUME ~muddled, NEW q \in Requests, Flying(op'[q])
               PROVE  op'[q].alone /\ Tracks(op'[q], session'[q], records', vectors')
    BY DEF Tracked
  <2>1. q = r BY <1>2, <1>5
  <2> QED BY <1>2, <1>5, <2>1
<1>7. RecordsAgree'
  <2> SUFFICES ASSUME ~muddled, \A q \in Requests : op'[q].pc # "forgetting"
               PROVE  records' \subseteq vectors'
    BY DEF RecordsAgree
  <2>1. x.pc # "forgetting" BY <1>2
  <2> QED BY <1>5, <2>1
<1> QED BY <1>3, <1>4, <1>6, <1>7 DEF TrackInv

\* A request alone under way, as far as its records go.
LEMMA TrackElim ==
    ASSUME OrphanInv, TrackInv, NEW r \in Requests, Flying(op[r])
    PROVE  /\ ~muddled => op[r].alone /\ Tracks(op[r], session[r], records, vectors)
           /\ ~muddled /\ op[r].pc # "forgetting" => records \subseteq vectors
           /\ ~Managed => /\ records = {} /\ op[r].pc \notin ManagedPhases
                          /\ \A q \in Requests : session[q] = Nothing
           /\ op[r].alone => \A q \in Requests \ {r} : ~Flying(op[q])
<1>1. ~muddled => op[r].alone /\ Tracks(op[r], session[r], records, vectors)
  BY DEF TrackInv, Tracked
<1>2. op[r].alone => \A q \in Requests \ {r} : ~Flying(op[q]) BY DEF OrphanInv, Serial
<1>3. ASSUME ~muddled, op[r].pc # "forgetting" PROVE records \subseteq vectors
  <2>1. \A q \in Requests : op[q].pc # "forgetting" BY <1>1, <1>2, <1>3 DEF Flying
  <2> QED BY <1>3, <2>1 DEF TrackInv, RecordsAgree
<1> QED BY <1>1, <1>2, <1>3 DEF TrackInv, Unmanaged

\* Steps that have nothing to do with the vector store.
LEMMA PlainTracks ==
    ASSUME StoreInv, OrphanInv, TrackInv, NEW r \in Requests, NEW x, Flying(op[r]),
           op' = [op EXCEPT ![r] = x], x.alone = op[r].alone,
           UNCHANGED <<setup, vectors, index>>,
           op[r].pc # "forgetting", x.pc \notin ManagedPhases \cup {"adding"}
    PROVE  TrackInv'
<1>1. UNCHANGED <<records, session, muddled>> BY DEF index
<1>2. ~Emptying(setup.kind[r], x) BY DEF Emptying, ManagedPhases
<1>3. \A recs, vecs, e : Tracks(x, e, recs, vecs) BY DEF Tracks, ManagedPhases
<1>4. ~muddled => records \subseteq vectors BY TrackElim
<1> QED BY <1>1, <1>2, <1>3, <1>4, OneTracks, TrackElim

\* Steps that touch neither vectors nor records: the store's own, and those that end.
LEMMA StillTracks ==
    ASSUME StoreInv, OrphanInv, TrackInv, NEW r \in Requests, Step(r),
           op[r].pc \notin IndexPhases \cup {"reading", "unindexing"}
    PROVE  TrackInv'
<1>1. op[r] \in Op /\ op \in [Requests -> Op] BY OpType DEF StoreInv, StoreTypeOK
<1>2. UNCHANGED <<setup, vectors, index>>
  BY DEF Step, Mark, FindToProcess, Split, InsertChunk, FinishProcessing, Report, NoItem,
         TakeItem, FindToMark, FindToConfigure, SaveConfig, SaveUpserting, FindToUpsert,
         ReadChunks, LookUp, AddDocuments, Record, List, Prune, Forget, FinishUpsert, Clear,
         Unlist, FindChunk, ChangeChunk, SaveTotals, EraseChunks, RemoveRow, Touch, Unindex,
         NotFound, At, IndexPhases
<1> DEFINE Plain(x) == x.alone = op[r].alone /\ x.pc \notin ManagedPhases \cup {"adding"}
<1>3. ASSUME NEW pc \in {"marked", "reporting", "configuring", "upserting", "loading", "item",
                         "unlisting", "counting", "removing"},
             Goto(r, pc)
      PROVE  \E x : op' = [op EXCEPT ![r] = x] /\ Plain(x)
  <2> DEFINE x == [op[r] EXCEPT !.pc = pc]
  <2>1. op' = [op EXCEPT ![r] = x] BY <1>3 DEF Goto
  <2>2. Plain(x) BY <1>1 DEF Op, ManagedPhases
  <2> QED BY <2>1, <2>2
<1>4. ASSUME NEW end \in {"done", "failed"}, EndsAs(r, end)
      PROVE  \E x : op' = [op EXCEPT ![r] = x] /\ Plain(x)
  <2> DEFINE x == Over(op[r], end)
  <2>1. op' = [op EXCEPT ![r] = x] BY <1>4 DEF EndsAs
  <2>2. Plain(x) BY <1>1, OverFields DEF ManagedPhases
  <2> QED BY <2>1, <2>2
<1>5. ASSUME NEW pc \in {"splitting", "saving", "reading"}, Find(r, pc)
      PROVE  \E x : op' = [op EXCEPT ![r] = x] /\ Plain(x)
  <2> DEFINE x == [op[r] EXCEPT !.copy = row, !.pc = pc]
  <2>1. op' = [op EXCEPT ![r] = x] BY <1>5 DEF Find
  <2>2. Plain(x) BY <1>1 DEF Op, ManagedPhases
  <2> QED BY <2>1, <2>2
<1>6. \E x : op' = [op EXCEPT ![r] = x] /\ Plain(x)
  <2>1. CASE Mark(r) \/ SaveUpserting(r) \/ Clear(r) \/ ChangeChunk(r) \/ EraseChunks(r)
    BY <1>3, <2>1 DEF Mark, SaveUpserting, Clear, ChangeChunk, EraseChunks
  <2>2. CASE FindToProcess(r) \/ FindToConfigure(r) \/ FindToUpsert(r)
    BY <1>5, <2>2 DEF FindToProcess, FindToConfigure, FindToUpsert
  <2>3. CASE Report(r) \/ SaveConfig(r)
    BY <1>3, <1>4, <2>3 DEF Report, SaveConfig
  <2>4. CASE Unlist(r) \/ SaveTotals(r) \/ RemoveRow(r) \/ Touch(r) \/ NotFound(r) \/ NoItem(r)
    BY <1>4, <2>4 DEF Unlist, SaveTotals, RemoveRow, Touch, NotFound, NoItem, Complete
  <2>5. CASE Split(r)
    <3>1. PICK n \in Splits :
            op' = [op EXCEPT ![r].pc = "inserting", ![r].size = n,
                             ![r].pending = [doc : {op[r].doc}, by : {r}, no : 1 .. n,
                                             edited : {FALSE}]]
      BY <2>5 DEF Split
    <3> DEFINE new == Full(r, op[r].doc, n)
               x == [op[r] EXCEPT !.pc = "inserting", !.size = n, !.pending = new]
    <3>2. op' = [op EXCEPT ![r] = x] BY <3>1 DEF Full
    <3> HIDE DEF new
    <3>3. Plain(x) BY <1>1 DEF Op, ManagedPhases
    <3> QED BY <3>2, <3>3
  <2>6. CASE InsertChunk(r)
    <3>1. PICK c \in op[r].pending : op' = [op EXCEPT ![r].pending = @ \ {c}]
      BY <2>6 DEF InsertChunk
    <3> DEFINE x == [op[r] EXCEPT !.pending = op[r].pending \ {c}]
    <3>2. op' = [op EXCEPT ![r] = x] BY <3>1
    <3>3. op[r].pc \in {"inserting", "failed"} BY <3>1, OpType DEF BusyOp
    <3>4. Plain(x) BY <1>1, <3>3 DEF Op, ManagedPhases
    <3> QED BY <3>2, <3>4
  <2>7. CASE FinishProcessing(r)
    <3>1. CASE EndsAs(r, "failed") BY <1>4, <3>1
    <3>2. CASE op' = [op EXCEPT ![r].pc = "reporting", ![r].copy = Gone, ![r].size = 0]
      <4> DEFINE x == [op[r] EXCEPT !.pc = "reporting", !.copy = Gone, !.size = 0]
      <4>1. op' = [op EXCEPT ![r] = x] BY <3>2
      <4>2. Plain(x) BY <1>1 DEF Op, ManagedPhases
      <4> QED BY <4>1, <4>2
    <3> QED BY <2>7, <3>1, <3>2 DEF FinishProcessing
  <2>8. CASE TakeItem(r)
    <3>1. CASE EndsAs(r, "failed") BY <1>4, <3>1
    <3>2. CASE ~EndsAs(r, "failed")
      <4>1. PICK l \in op[r].left :
              op' = [op EXCEPT ![r].pc = "found", ![r].doc = l, ![r].left = @ \ {l}]
        BY <2>8, <3>2 DEF TakeItem
      <4> DEFINE x == [op[r] EXCEPT !.pc = "found", !.doc = l, !.left = op[r].left \ {l}]
      <4>2. op' = [op EXCEPT ![r] = x] BY <4>1
      <4>3. Plain(x) BY <1>1 DEF Op, ManagedPhases
      <4> QED BY <4>2, <4>3
    <3> QED BY <3>1, <3>2
  <2>9. CASE FindToMark(r)
    <3>1. PICK l : op' = [op EXCEPT ![r].pc = "marking", ![r].doc = l, ![r].copy = row]
      BY <2>9 DEF FindToMark
    <3> DEFINE x == [op[r] EXCEPT !.pc = "marking", !.doc = l, !.copy = row]
    <3>2. op' = [op EXCEPT ![r] = x] BY <3>1
    <3>3. Plain(x) BY <1>1 DEF Op, ManagedPhases
    <3> QED BY <3>2, <3>3
  <2>10. CASE FinishUpsert(r)
    <3>1. CASE Complete(r) BY <1>4, <3>1 DEF Complete
    <3>2. CASE op' = [op EXCEPT ![r].pc = "item", ![r].copy = Gone, ![r].docs = {}]
      <4> DEFINE x == [op[r] EXCEPT !.pc = "item", !.copy = Gone, !.docs = {}]
      <4>1. op' = [op EXCEPT ![r] = x] BY <3>2
      <4>2. Plain(x) BY <1>1 DEF Op, ManagedPhases
      <4> QED BY <4>1, <4>2
    <3> QED BY <2>10, <3>1, <3>2 DEF FinishUpsert
  <2>11. CASE FindChunk(r)
    <3> DEFINE found == {c \in chunks : \E d \in op[r].docs : Same(c, d)}
    <3>1. CASE EndsAs(r, "failed") BY <1>4, <3>1
    <3>2. CASE op' = [op EXCEPT ![r].pc = "changing", ![r].docs = found]
      <4> DEFINE x == [op[r] EXCEPT !.pc = "changing", !.docs = found]
      <4>1. op' = [op EXCEPT ![r] = x] BY <3>2
      <4> HIDE DEF found
      <4>2. Plain(x) BY <1>1 DEF Op, ManagedPhases
      <4> QED BY <4>1, <4>2
    <3> QED BY <2>11, <3>1, <3>2 DEF FindChunk
  <2>12. ~(\/ ReadChunks(r) \/ LookUp(r) \/ AddDocuments(r) \/ Record(r) \/ List(r) \/ Prune(r)
           \/ Forget(r) \/ Unindex(r))
    BY DEF ReadChunks, LookUp, AddDocuments, Record, List, Prune, Forget, Unindex, At, IndexPhases
  <2> HIDE DEF Plain
  <2> QED
    BY <2>1, <2>2, <2>3, <2>4, <2>5, <2>6, <2>7, <2>8, <2>9, <2>10, <2>11, <2>12 DEF Step
<1>7. PICK x : op' = [op EXCEPT ![r] = x] /\ Plain(x) BY <1>6
<1>8. Flying(op[r])
  <2>1. op[r].pc \notin {"idle", "done", "failed"} \/ op[r].pending # {}
    BY DEF Step, Mark, FindToProcess, Split, InsertChunk, FinishProcessing, Report, NoItem,
           TakeItem, FindToMark, FindToConfigure, SaveConfig, SaveUpserting, FindToUpsert,
           ReadChunks, LookUp, AddDocuments, Record, List, Prune, Forget, FinishUpsert, Clear,
           Unlist, FindChunk, ChangeChunk, SaveTotals, EraseChunks, RemoveRow, Touch, Unindex,
           NotFound, At
  <2> QED BY <2>1 DEF Flying
<1>9. op[r].pc # "forgetting" BY DEF IndexPhases
<1> QED BY <1>2, <1>7, <1>8, <1>9, PlainTracks

LEMMA IndexingTracks ==
    ASSUME StoreInv, IndexTypeOK, OrphanInv, TotalsInv, TrackInv, NEW r \in Requests,
           Indexing(r)
    PROVE  TrackInv'
<1>1. PICK pc \in IndexPhases \cup {"finishing"} : \E docs :
         /\ op' = [op EXCEPT ![r] = [op[r] EXCEPT !.pc = pc, !.docs = docs]]
         /\ docs \in {op[r].docs, op'[r].docs}
         /\ op[r].pc \in IndexPhases \cup {"reading", "unindexing"}
         /\ setup' = setup
  BY IndexingStep
<1>2. PICK docs : op' = [op EXCEPT ![r] = [op[r] EXCEPT !.pc = pc, !.docs = docs]] BY <1>1
<1> DEFINE x == [op[r] EXCEPT !.pc = pc, !.docs = docs]
<1>3. Flying(op[r]) BY <1>1 DEF Flying, IndexPhases
<1>4. /\ op[r] \in Op /\ op \in [Requests -> Op]
      /\ session \in [Requests -> [known : SUBSET Chunk, older : SUBSET Chunk]]
  BY OpType DEF StoreInv, StoreTypeOK, IndexTypeOK
<1>5. /\ op' = [op EXCEPT ![r] = x] /\ x.alone = op[r].alone /\ x.doc = op[r].doc
      /\ x.pc = pc /\ x.docs = docs /\ op'[r] = x
  BY <1>2, <1>4 DEF Op
<1> HIDE DEF x
<1>6. \A to : Goto(r, to) => x.pc = to /\ x.docs = op[r].docs
  <2> SUFFICES ASSUME NEW to, Goto(r, to) PROVE op'[r].pc = to /\ op'[r].docs = op[r].docs
    BY <1>5
  <2> QED BY <1>4 DEF Goto, Op
<1>7. /\ ~muddled => op[r].alone /\ Tracks(op[r], session[r], records, vectors)
      /\ ~muddled /\ op[r].pc # "forgetting" => records \subseteq vectors
      /\ ~Managed => /\ records = {} /\ op[r].pc \notin ManagedPhases
                     /\ \A q \in Requests : session[q] = Nothing
  BY <1>3, TrackElim
<1>8. CASE ReadChunks(r)
  <2>1. x.pc = (IF Managed THEN "sending" ELSE "adding")
    <3>1. op'[r].pc = (IF Managed THEN "sending" ELSE "adding") BY <1>4, <1>8 DEF ReadChunks, Op
    <3> QED BY <1>5, <3>1
  <2>2. op[r].pc = "reading" /\ UNCHANGED <<vectors, records, session, muddled>>
    BY <1>8 DEF ReadChunks, At, index
  <2>3. ~Emptying(setup.kind[r], x) /\ x.pc # "forgetting"
    BY <2>1 DEF Emptying
  <2>4. ~Managed => x.pc \notin ManagedPhases BY <2>1 DEF ManagedPhases
  <2>5. ~muddled => Tracks(x, session[r], records, vectors)
    <3> SUFFICES ASSUME ~muddled, x.pc = "adding" PROVE session[r].known \subseteq vectors
      BY <2>1 DEF Tracks
    <3>1. session[r] = Nothing BY <1>7, <2>1
    <3> QED BY <3>1 DEF Nothing
  <2> QED BY <1>1, <1>3, <1>5, <1>7, <2>2, <2>3, <2>4, <2>5, OneTracks
<1>9. CASE LookUp(r)
  <2> DEFINE known == op[r].docs \cap records
  <2>1. /\ op[r].pc = "sending" /\ x.pc = "adding" /\ UNCHANGED <<vectors, records, muddled>>
        /\ session' = [Renewed(known) EXCEPT ![r] = [known |-> known, older |-> Outdated(op[r].docs)]]
    BY <1>6, <1>9 DEF LookUp, At
  <2>2. session'[r].known = known BY <2>1 DEF Renewed
  <2>3. Managed BY <1>7, <2>1 DEF ManagedPhases
  <2>4. ~muddled => Tracks(x, session'[r], records, vectors) BY <1>7, <2>1, <2>2 DEF Tracks
  <2>5. ~Emptying(setup.kind[r], x) BY <2>1 DEF Emptying
  <2> QED BY <1>1, <1>3, <1>5, <1>7, <2>1, <2>3, <2>4, <2>5, OneTracks
<1>10. CASE AddDocuments(r)
  <2>1. /\ op[r].pc = "adding" /\ x.pc = (IF Managed THEN "recording" ELSE "finishing")
        /\ x.docs = op[r].docs
        /\ vectors' = vectors \cup (op[r].docs \ session[r].known)
        /\ UNCHANGED <<records, session, muddled>>
    BY <1>6, <1>10 DEF AddDocuments, At, index
  <2>2. ~muddled => Tracks(x, session[r], records, vectors') BY <1>7, <2>1 DEF Tracks
  <2>3. ~Emptying(setup.kind[r], x) /\ (~Managed => x.pc \notin ManagedPhases)
    BY <2>1 DEF Emptying, ManagedPhases
  <2> QED BY <1>1, <1>3, <1>5, <1>7, <2>1, <2>2, <2>3, OneTracks
<1>11. CASE Record(r)
  <2>1. /\ op[r].pc = "recording" /\ x.pc = "listing" /\ UNCHANGED <<vectors, muddled>>
        /\ records' = records \cup op[r].docs
    BY <1>6, <1>11 DEF Record, At
  <2>2. Managed BY <1>7, <2>1 DEF ManagedPhases
  <2>3. ~muddled => records' \subseteq vectors BY <1>7, <2>1 DEF Tracks
  <2>4. ~Emptying(setup.kind[r], x) /\ Tracks(x, session'[r], records', vectors')
    BY <2>1 DEF Emptying, Tracks
  <2> QED BY <1>1, <1>3, <1>5, <2>1, <2>2, <2>3, <2>4, OneTracks
<1>12. CASE List(r)
  <2>1. /\ op[r].pc = "listing" /\ UNCHANGED <<vectors, records, muddled>>
        /\ op'[r].pc \in {"finishing", "pruning"}
    BY <1>4, <1>12 DEF List, At, Op
  <2>2. Managed BY <1>7, <2>1 DEF ManagedPhases
  <2>3. setup.kind[r] # "unindex"
    BY <2>1 DEF TotalsInv, AllSuit, Suits, UpsertKinds
  <2>4. ~Emptying(setup.kind[r], x) /\ Tracks(x, session'[r], records, vectors)
    BY <1>5, <2>1, <2>3 DEF Emptying, Tracks
  <2> QED BY <1>1, <1>3, <1>5, <1>7, <2>1, <2>2, <2>4, OneTracks
<1>13. CASE Prune(r)
  <2>1. /\ op[r].pc = "pruning" /\ x.pc = "forgetting" /\ x.docs = op[r].docs
        /\ vectors' = vectors \ op[r].docs /\ UNCHANGED <<records, session, muddled>>
    BY <1>6, <1>13 DEF Prune, At, index
  <2>2. Managed BY <1>7, <2>1 DEF ManagedPhases
  <2>3. ~muddled => Tracks(x, session[r], records, vectors') BY <1>7, <2>1 DEF Tracks
  <2>4. Emptying(setup.kind[r], x) => records \subseteq x.docs
    BY <1>5, <2>1 DEF Emptying, TrackInv, Emptied
  <2> QED BY <1>1, <1>3, <1>5, <2>1, <2>2, <2>3, <2>4, OneTracks
<1>14. CASE Unindex(r)
  <2>1. /\ op[r].pc = "unindexing" /\ UNCHANGED <<vectors, records, session, muddled>>
        /\ op'[r].pc = "pruning"
        /\ op'[r].docs = {c \in records : op[r].doc \in {NoLoader, c.doc}}
    BY <1>4, <1>14 DEF Unindex, At, Op, index
  <2>2. Managed BY <1>7, <2>1 DEF ManagedPhases
  <2>3. Emptying(setup.kind[r], x) => records \subseteq x.docs BY <1>5, <2>1 DEF Emptying
  <2>4. Tracks(x, session[r], records, vectors) BY <1>5, <2>1 DEF Tracks
  <2> QED BY <1>1, <1>3, <1>5, <1>7, <2>1, <2>2, <2>3, <2>4, OneTracks
<1>15. CASE Forget(r) /\ Kind(r) # "unindex"
  <2>1. /\ op[r].pc = "forgetting" /\ x.pc = "finishing" /\ UNCHANGED <<vectors, session, muddled>>
        /\ records' = records \ op[r].docs
    BY <1>6, <1>15 DEF Forget, ForgetKeys, At
  <2>2. Managed BY <1>7, <2>1 DEF ManagedPhases
  <2>3. ~muddled => records' \subseteq vectors BY <1>7, <2>1 DEF Tracks
  <2>4. ~Emptying(setup.kind[r], x) /\ Tracks(x, session[r], records', vectors)
    BY <2>1 DEF Emptying, Tracks
  <2> QED BY <1>1, <1>3, <1>5, <2>1, <2>2, <2>3, <2>4, OneTracks
<1> QED BY <1>8, <1>9, <1>10, <1>11, <1>12, <1>13, <1>14, <1>15 DEF Indexing

\* A deletion of all that is alone leaves nothing on record.
LEMMA ForgetTracks ==
    ASSUME StoreInv, IndexTypeOK, OrphanInv, TrackInv, NEW r \in Requests, Forget(r),
           Kind(r) = "unindex"
    PROVE  TrackInv'
<1> DEFINE x == Over(op[r], "done")
<1>1. /\ op[r].pc = "forgetting" /\ records' = records \ op[r].docs
      /\ op' = [op EXCEPT ![r] = x] /\ UNCHANGED <<setup, vectors, session>>
      /\ muddled' = (muddled /\ ~(op[r].alone /\ op[r].doc = NoLoader))
  BY DEF Forget, ForgetKeys, At, EndsAs
<1>2. x.pc = "done" /\ x.alone = op[r].alone /\ x.pending = {} /\ Flying(op[r])
  BY <1>1, OpType, OverFields DEF BusyOp, Flying
<1> HIDE DEF x
<1>3. Managed BY <1>1, <1>2, TrackElim DEF ManagedPhases
<1>4. ~Emptying(setup.kind[r], x) /\ Tracks(x, session[r], records', vectors)
  BY <1>2 DEF Emptying, Tracks
<1>5. CASE muddled' = muddled
  <2>1. ~muddled => records' \subseteq vectors BY <1>1, <1>2, TrackElim DEF Tracks
  <2> QED BY <1>1, <1>2, <1>3, <1>4, <1>5, <2>1, OneTracks
<1>6. CASE op[r].alone /\ op[r].doc = NoLoader
  <2>1. Emptying(setup.kind[r], op[r]) BY <1>1, <1>6 DEF Emptying, Kind
  <2>2. records \subseteq op[r].docs BY <2>1 DEF TrackInv, Emptied
  <2>3. records' = {} BY <1>1, <2>2
  <2>4. op \in [Requests -> Op] BY DEF StoreInv, StoreTypeOK
  <2>5. op'[r] = x /\ \A q \in Requests \ {r} : op'[q] = op[q] BY <1>1, <2>4
  <2>6. \A q \in Requests \ {r} : ~Flying(op[q]) BY <1>2, <1>6, TrackElim
  <2>7. ~Flying(x) BY <1>2 DEF Flying
  <2>8. \A q \in Requests : ~Flying(op'[q]) BY <2>5, <2>6, <2>7
  <2>9. Unmanaged' BY <1>1, <1>3 DEF Unmanaged, Managed
  <2> QED BY <2>3, <2>8, <2>9 DEF TrackInv, Emptied, Tracked, RecordsAgree
<1>7. ~(op[r].alone /\ op[r].doc = NoLoader) => muddled' = muddled
  BY <1>1 DEF IndexTypeOK
<1> QED BY <1>5, <1>6, <1>7

\* A request that is cut off forgets what it has learnt; cut off between vector store and
\* records, the records are not relied upon any more.
LEMMA CutTracks ==
    ASSUME StoreInv, OrphanInv, TrackInv, NEW S \in SUBSET Requests, CutsIndex(S),
           UNCHANGED <<setup, vectors, records>>,
           \A q \in Requests :
              /\ op'[q].alone = op[q].alone
              /\ Flying(op'[q]) => Flying(op[q])
              /\ \/ op'[q].pc \notin ManagedPhases \cup {"adding"}
                 \/ q \notin S /\ op'[q].pc = op[q].pc
              /\ q \notin S => /\ op'[q].doc = op[q].doc /\ op'[q].docs = op[q].docs
                               /\ op'[q].pc = op[q].pc
    PROVE  TrackInv'
<1>1. /\ \A q \in Requests : session'[q] = IF q \in S THEN Nothing ELSE session[q]
      /\ ~muddled' => ~muddled /\ \A q \in S : op[q].pc # "forgetting"
  BY DEF CutsIndex
<1>2. Unmanaged' BY <1>1 DEF TrackInv, Unmanaged, Managed, ManagedPhases
<1>3. Emptied'
  <2> SUFFICES ASSUME NEW q \in Requests, Emptying(setup.kind[q], op'[q])
               PROVE  records \subseteq op'[q].docs
    BY DEF Emptied
  <2>1. q \notin S BY DEF Emptying, ManagedPhases
  <2>2. Emptying(setup.kind[q], op[q]) BY <2>1 DEF Emptying
  <2> QED BY <2>1, <2>2 DEF TrackInv, Emptied
<1>4. Tracked'
  <2> SUFFICES ASSUME ~muddled', NEW q \in Requests, Flying(op'[q])
               PROVE  op'[q].alone /\ Tracks(op'[q], session'[q], records, vectors)
    BY DEF Tracked
  <2>1. op[q].alone /\ Tracks(op[q], session[q], records, vectors)
    BY <1>1 DEF TrackInv, Tracked
  <2> QED BY <1>1, <2>1 DEF Tracks, ManagedPhases
<1>5. RecordsAgree'
  <2> SUFFICES ASSUME ~muddled', \A q \in Requests : op'[q].pc # "forgetting"
               PROVE  records \subseteq vectors
    BY DEF RecordsAgree
  <2>1. \A q \in Requests : op[q].pc # "forgetting" BY <1>1
  <2> QED BY <1>1, <2>1 DEF TrackInv, RecordsAgree
<1> QED BY <1>2, <1>3, <1>4, <1>5 DEF TrackInv

LEMMA ThrowTracks ==
    ASSUME StoreInv, OrphanInv, TrackInv, NEW r \in Requests, Throw(r)
    PROVE  TrackInv'
<1> DEFINE o == Over(op[r], "failed")
<1>1. /\ op[r].pc \notin {"idle", "done", "failed"} /\ CutsIndex({r})
      /\ UNCHANGED <<setup, vectors, records>>
  BY DEF Throw
<1>2. o \in Op /\ o.pc = "failed" /\ o.alone = op[r].alone
  BY OpType, OverType, OverFields
<1>3. PICK x : op' = [op EXCEPT ![r] = x] /\ x.pc = "failed" /\ x.alone = op[r].alone
  <2>1. CASE op[r].pending = {}
    <3>1. op' = [op EXCEPT ![r] = o] BY <2>1 DEF Throw, EndsAs
    <3> QED BY <1>2, <3>1
  <2>2. CASE op[r].pending # {}
    <3>1. PICK c \in op[r].pending :
            op' = [op EXCEPT ![r] = [o EXCEPT !.pending = o.pending \ {c}]]
      BY <2>2 DEF Throw
    <3> DEFINE x == [o EXCEPT !.pending = o.pending \ {c}]
    <3> HIDE DEF o
    <3>2. x.pc = "failed" /\ x.alone = op[r].alone BY <1>2 DEF Op
    <3> QED BY <3>1, <3>2
  <2> QED BY <2>1, <2>2
<1> HIDE DEF o
<1>4. op \in [Requests -> Op] BY DEF StoreInv, StoreTypeOK
<1>5. op'[r] = x /\ \A q \in Requests \ {r} : op'[q] = op[q] BY <1>3, <1>4
<1>6. Flying(op[r]) BY <1>1 DEF Flying
<1> QED BY <1>1, <1>3, <1>5, <1>6, CutTracks DEF ManagedPhases

LEMMA WorkerDiesTracks ==
    ASSUME StoreInv, OrphanInv, TrackInv, WorkerDies
    PROVE  TrackInv'
<1> DEFINE jobs == {q \in Requests : InJob(q)}
           next(q) == IF InJob(q) THEN Restarted(q) ELSE [op[q] EXCEPT !.pending = {}]
<1>1. /\ op' = [q \in Requests |-> next(q)] /\ UNCHANGED <<setup, vectors, records>>
      /\ CutsIndex(jobs)
  BY DEF WorkerDies
<1>2. ASSUME NEW q \in Requests
      PROVE  /\ next(q).alone = op[q].alone
             /\ Flying(next(q)) => Flying(op[q])
             /\ \/ next(q).pc \notin ManagedPhases \cup {"adding"}
                \/ q \notin jobs /\ next(q).pc = op[q].pc
             /\ q \notin jobs => /\ next(q).doc = op[q].doc /\ next(q).docs = op[q].docs
                                 /\ next(q).pc = op[q].pc
  <2>1. CASE InJob(q)
    <3>1. Restarted(q).pc \in {"marked", "item", "configuring"}
      <4>1. Restarted(q).pc = IF Kind(q) \in UploadKinds THEN "marked"
                              ELSE IF Kind(q) \in UpsertKinds THEN "item" ELSE "configuring"
        BY RestType DEF Restarted, Op
      <4> QED BY <4>1
    <3>2. Restarted(q).alone = op[q].alone /\ Flying(op[q])
      BY <2>1, RestartedType, RestartedKept
    <3>3. next(q) = Restarted(q) BY <2>1
    <3> HIDE DEF next
    <3> QED BY <2>1, <3>1, <3>2, <3>3 DEF ManagedPhases
  <2>2. CASE ~InJob(q)
    <3>1. next(q) = [op[q] EXCEPT !.pending = {}] BY <2>2
    <3>2. Flying(next(q)) => Flying(op[q]) BY <3>1, OpType, DroppedPendingKept
    <3>3. /\ next(q).alone = op[q].alone /\ next(q).pc = op[q].pc
          /\ next(q).doc = op[q].doc /\ next(q).docs = op[q].docs
      BY <3>1, OpType, DroppedPendingType
    <3> QED BY <2>2, <3>2, <3>3
  <2> QED BY <2>1, <2>2
<1>3. jobs \in SUBSET Requests OBVIOUS
<1> HIDE DEF next, jobs
<1>4. \A q \in Requests : op'[q] = next(q) BY <1>1
<1> QED BY <1>1, <1>2, <1>3, <1>4, CutTracks

LEMMA ServerDiesTracks ==
    ASSUME StoreInv, OrphanInv, TrackInv, ServerDies
    PROVE  TrackInv'
<1> DEFINE lost == {q \in Requests : op[q].pc \notin {"idle", "done", "failed"} /\ ~InJob(q)}
           o(q) == IF q \in lost THEN Over(op[q], "failed") ELSE op[q]
           next(q) == IF setup.queue THEN o(q) ELSE [o(q) EXCEPT !.pending = {}]
<1>1. /\ op' = [q \in Requests |-> next(q)] /\ UNCHANGED <<setup, vectors, records>>
      /\ CutsIndex(lost)
  BY DEF ServerDies
<1>2. ASSUME NEW q \in Requests
      PROVE  /\ next(q).alone = op[q].alone
             /\ Flying(next(q)) => Flying(op[q])
             /\ \/ next(q).pc \notin ManagedPhases \cup {"adding"}
                \/ q \notin lost /\ next(q).pc = op[q].pc
             /\ q \notin lost => /\ next(q).doc = op[q].doc /\ next(q).docs = op[q].docs
                                 /\ next(q).pc = op[q].pc
  <2>1. /\ o(q) \in Op /\ BusyOp(o(q)) /\ o(q).alone = op[q].alone
        /\ Flying(o(q)) => Flying(op[q])
        /\ q \in lost => o(q).pc = "failed"
        /\ q \notin lost => o(q) = op[q]
    <3>1. CASE q \in lost
      <4> DEFINE x == Over(op[q], "failed")
      <4>1. /\ x \in Op /\ x.pc = "failed" /\ x.alone = op[q].alone /\ BusyOp(x)
        BY OpType, OverType, OverFields
      <4>2. o(q) = x /\ Flying(op[q]) BY <3>1 DEF Flying
      <4> HIDE DEF x, o, lost
      <4> QED BY <3>1, <4>1, <4>2
    <3>2. CASE q \notin lost BY <3>2, OpType
    <3> QED BY <3>1, <3>2
  <2> HIDE DEF o, lost
  <2>2. CASE setup.queue BY <2>1, <2>2 DEF ManagedPhases
  <2>3. CASE ~setup.queue
    <3>1. next(q) = [o(q) EXCEPT !.pending = {}] BY <2>3
    <3>2. Flying(next(q)) => Flying(o(q)) BY <3>1, <2>1, DroppedPendingKept
    <3>3. /\ next(q).alone = o(q).alone /\ next(q).pc = o(q).pc
          /\ next(q).doc = o(q).doc /\ next(q).docs = o(q).docs
      BY <3>1, <2>1, DroppedPendingType
    <3> HIDE DEF next
    <3> QED BY <2>1, <3>2, <3>3 DEF ManagedPhases
  <2> QED BY <2>2, <2>3
<1>3. lost \in SUBSET Requests OBVIOUS
<1> HIDE DEF next, lost
<1>4. \A q \in Requests : op'[q] = next(q) BY <1>1
<1> QED BY <1>1, <1>2, <1>3, <1>4, CutTracks

\* A request begins: either nothing else is under way, or the records are not relied upon.
LEMMA EnterTracks ==
    ASSUME StoreInv, OrphanInv, TrackInv, NEW r \in Requests, NEW start, Enter(r, start),
           start \in Op, start.pc \in EnterPhases, start.pc = "unindexing" => Managed
    PROVE  TrackInv'
<1> DEFINE others == {q \in Requests : InFlight(q)}
           next(q) == IF q = r THEN [start EXCEPT !.alone = (others = {})]
                      ELSE IF q \in others THEN [op[q] EXCEPT !.alone = FALSE] ELSE op[q]
<1>1. /\ op' = [q \in Requests |-> next(q)]
      /\ UNCHANGED <<setup, vectors, records, session>>
      /\ ~muddled' => ~muddled /\ others = {}
  BY DEF Enter
<1>2. \A q \in Requests : q \in others <=> Flying(op[q]) BY FlyingInFlight
<1>3. (others = {}) \in BOOLEAN OBVIOUS
<1>4. next(r) = [start EXCEPT !.alone = (others = {})] OBVIOUS
<1>5. \A q \in Requests \ {r} : IF q \in others THEN next(q) = [op[q] EXCEPT !.alone = FALSE]
                                ELSE next(q) = op[q]
  OBVIOUS
<1>6. \A q \in Requests : op'[q] = next(q) BY <1>1
<1> HIDE DEF next, others
<1>7. next(r).pc = start.pc /\ (others = {} => next(r).alone) BY <1>3, <1>4 DEF Op
<1>8. ASSUME NEW q \in Requests \ {r}
      PROVE  /\ next(q).pc = op[q].pc /\ next(q).docs = op[q].docs /\ next(q).doc = op[q].doc
             /\ next(q).alone => op[q].alone /\ q \notin others
             /\ Flying(next(q)) => q \in others
  <2>1. CASE q \in others
    <3>1. next(q) = [op[q] EXCEPT !.alone = FALSE] BY <1>5, <2>1
    <3> QED BY <2>1, <3>1, OpType DEF Op
  <2>2. CASE q \notin others
    <3>1. next(q) = op[q] BY <1>5, <2>2
    <3> QED BY <1>2, <2>2, <3>1
  <2> QED BY <2>1, <2>2
<1>9. start.pc \notin (ManagedPhases \ {"unindexing"}) \cup {"adding"}
  BY DEF EnterPhases, ManagedPhases
<1>10. Unmanaged'
  <2> SUFFICES ASSUME ~Managed PROVE \A q \in Requests : /\ session[q] = Nothing
                                                         /\ op'[q].pc \notin ManagedPhases
                                     /\ records = {}
    BY <1>1 DEF Unmanaged, Managed
  <2>1. records = {} /\ \A q \in Requests : session[q] = Nothing /\ op[q].pc \notin ManagedPhases
    BY DEF TrackInv, Unmanaged
  <2> QED BY <1>6, <1>7, <1>8, <1>9, <2>1
<1>11. Emptied'
  <2> SUFFICES ASSUME NEW q \in Requests, Emptying(setup.kind[q], op'[q]) PROVE FALSE
    BY <1>1 DEF Emptied
  <2>1. q # r BY <1>6, <1>7, <1>9 DEF Emptying, ManagedPhases
  <2>2. op[q].pc \in {"pruning", "forgetting"} BY <1>6, <1>8, <2>1 DEF Emptying
  <2>3. q \in others BY <1>2, <2>2 DEF Flying
  <2> QED BY <1>6, <1>8, <2>1, <2>3 DEF Emptying
<1>12. Tracked'
  <2> SUFFICES ASSUME ~muddled', NEW q \in Requests, Flying(op'[q])
               PROVE  op'[q].alone /\ Tracks(op'[q], session[q], records, vectors)
    BY <1>1 DEF Tracked
  <2>1. q = r BY <1>1, <1>6, <1>8
  <2> QED BY <1>1, <1>6, <1>7, <1>9, <2>1 DEF Tracks, ManagedPhases
<1>13. RecordsAgree'
  <2> SUFFICES ASSUME ~muddled' PROVE records \subseteq vectors BY <1>1 DEF RecordsAgree
  <2>1. \A q \in Requests : op[q].pc # "forgetting" BY <1>1, <1>2 DEF Flying
  <2> QED BY <1>1, <2>1 DEF TrackInv, RecordsAgree
<1> QED BY <1>10, <1>11, <1>12, <1>13 DEF TrackInv

\* With what a request enters.
LEMMA BeginsEnter ==
    ASSUME StoreInv, NEW r \in Requests, Begin(r)
    PROVE  \E start \in Op :
              /\ Enter(r, start) /\ start.pc \in EnterPhases
              /\ start.pc = "unindexing" => Managed
              /\ Kind(r) = "refresh" => /\ start.pc = "item" /\ start.items = DOMAIN row.loaders
                                        /\ start.left = start.items
<1>1. Rest \in Op /\ Rest.pending = {} /\ Rest.docs = {} BY RestType DEF Rest
<1>2. row \in Rows /\ DOMAIN row.loaders \in SUBSET Loaders /\ chunks \subseteq Chunk
  BY OpType, StillTyped, RowElim
<1> DEFINE Fits(x) == /\ x \in Op /\ x.pc \in EnterPhases /\ (x.pc = "unindexing" => Managed)
                      /\ Kind(r) = "refresh" => /\ x.pc = "item" /\ x.items = DOMAIN row.loaders
                                                /\ x.left = x.items
<1>3. CASE BeginUpload(r)
  <2>1. PICK l \in Loaders :
           Enter(r, [Rest EXCEPT !.pc = "marking", !.doc = l, !.items = {l}, !.copy = row])
    BY <1>2, <1>3 DEF BeginUpload, Fresh
  <2> DEFINE x == [Rest EXCEPT !.pc = "marking", !.doc = l, !.items = {l}, !.copy = row]
  <2>2. x \in Op /\ x.pc = "marking" BY <1>1, <1>2 DEF Op, Phases
  <2>3. Kind(r) # "refresh" BY <1>3 DEF BeginUpload, UploadKinds
  <2>4. Enter(r, x) BY <2>1
  <2> HIDE DEF x
  <2> QED BY <2>2, <2>3, <2>4 DEF EnterPhases
<1>4. CASE BeginUpsert(r)
  <2>1. PICK S \in Items(r) : Enter(r, [Rest EXCEPT !.pc = "item", !.items = S, !.left = S])
    BY <1>4 DEF BeginUpsert
  <2>2. Kind(r) \in UpsertKinds BY <1>4 DEF BeginUpsert
  <2>3. S \subseteq Loaders \cup {NoLoader} BY <1>2, <2>2, ItemsType
  <2> DEFINE x == [Rest EXCEPT !.pc = "item", !.items = S, !.left = S]
  <2>4. x \in Op /\ x.pc = "item" /\ x.items = S /\ x.left = S
    BY <1>1, <2>3 DEF Op, Phases
  <2>5. Kind(r) = "refresh" => S = DOMAIN row.loaders BY DEF Items
  <2>6. Enter(r, x) BY <2>1
  <2> HIDE DEF x
  <2> QED BY <2>4, <2>5, <2>6 DEF EnterPhases
<1>5. CASE BeginInsert(r) \/ BeginDelete(r)
  <2>1. PICK pc \in {"configuring", "erasing"} : Enter(r, [Rest EXCEPT !.pc = pc])
    BY <1>5 DEF BeginInsert, BeginDelete
  <2> DEFINE x == [Rest EXCEPT !.pc = pc]
  <2>2. x \in Op /\ x.pc \in {"configuring", "erasing"} BY <1>1 DEF Op, Phases
  <2>3. Kind(r) # "refresh" BY <1>5 DEF BeginInsert, BeginDelete
  <2>4. Enter(r, x) BY <2>1
  <2> HIDE DEF x
  <2> QED BY <2>2, <2>3, <2>4 DEF EnterPhases
<1>6. CASE BeginUnlist(r) \/ BeginUnindex(r)
  <2>1. PICK l \in Loaders \cup {NoLoader}, pc \in {"clearing", "unindexing"} :
           /\ Enter(r, [Rest EXCEPT !.pc = pc, !.doc = l, !.copy = row])
           /\ pc = "unindexing" => Managed
    BY <1>2, <1>6 DEF BeginUnlist, BeginUnindex
  <2> DEFINE x == [Rest EXCEPT !.pc = pc, !.doc = l, !.copy = row]
  <2>2. x \in Op /\ x.pc = pc BY <1>1, <1>2 DEF Op, Phases
  <2>3. Kind(r) # "refresh" BY <1>6 DEF BeginUnlist, BeginUnindex
  <2>4. Enter(r, x) BY <2>1
  <2> HIDE DEF x
  <2> QED BY <2>1, <2>2, <2>3, <2>4 DEF EnterPhases
<1>7. CASE BeginChunk(r)
  <2>1. PICK c \in chunks :
           Enter(r, [Rest EXCEPT !.pc = "seeking", !.doc = c.doc, !.docs = {c}, !.copy = row])
    BY <1>7 DEF BeginChunk
  <2>2. c \in Chunk /\ c.doc \in Loaders BY <1>2 DEF Chunk
  <2> DEFINE x == [Rest EXCEPT !.pc = "seeking", !.doc = c.doc, !.docs = {c}, !.copy = row]
  <2>3. x \in Op /\ x.pc = "seeking" BY <1>1, <1>2, <2>2 DEF Op, Phases
  <2>4. Kind(r) # "refresh" BY <1>7 DEF BeginChunk, ChunkKinds
  <2>5. Enter(r, x) BY <2>1
  <2> HIDE DEF x
  <2> QED BY <2>3, <2>4, <2>5 DEF EnterPhases
<1>8. CASE BeginTouch(r)
  <2> DEFINE x == [Rest EXCEPT !.pc = "touching", !.copy = row]
  <2>1. x \in Op /\ x.pc = "touching" BY <1>1, <1>2 DEF Op, Phases
  <2>2. Kind(r) # "refresh" BY <1>8 DEF BeginTouch
  <2>3. Enter(r, x) BY <1>8 DEF BeginTouch
  <2> HIDE DEF x
  <2> QED BY <2>1, <2>2, <2>3 DEF EnterPhases
<1> QED BY <1>3, <1>4, <1>5, <1>6, <1>7, <1>8 DEF Begin

LEMMA InitTracks == Init => TrackInv
<1> SUFFICES ASSUME Init PROVE TrackInv OBVIOUS
<1>1. \A r \in Requests : op[r] = Rest /\ session[r] = Nothing BY DEF Init
<1>2. Rest.pc = "idle" /\ ~Flying(Rest) BY DEF Rest, Flying
<1>3. records \subseteq vectors /\ (~Managed => records = {}) BY DEF Init
<1> QED BY <1>1, <1>2, <1>3
        DEF TrackInv, Unmanaged, Emptied, Tracked, RecordsAgree, Emptying, ManagedPhases

LEMMA NextTracks ==
    StoreInv /\ IndexTypeOK /\ OrphanInv /\ TotalsInv /\ TrackInv /\ [Next]_vars => TrackInv'
<1> SUFFICES ASSUME StoreInv, IndexTypeOK, OrphanInv, TotalsInv, TrackInv, [Next]_vars
             PROVE  TrackInv'
  OBVIOUS
<1>1. ASSUME NEW r \in Requests, Begin(r) PROVE TrackInv' BY <1>1, BeginsEnter, EnterTracks
<1>2. ASSUME NEW r \in Requests, Step(r) PROVE TrackInv'
  <2>1. CASE Indexing(r) BY <2>1, IndexingTracks
  <2>2. CASE Forget(r) /\ Kind(r) = "unindex" BY <2>2, ForgetTracks
  <2>3. CASE op[r].pc \notin IndexPhases \cup {"reading", "unindexing"}
    BY <1>2, <2>3, StillTracks
  <2>4. CASE op[r].pc \in IndexPhases \cup {"reading", "unindexing"}
    <3>1. op[r].pending = {} BY <2>4, OpType DEF BusyOp, IndexPhases
    <3>2. Indexing(r) \/ (Forget(r) /\ Kind(r) = "unindex")
      BY <1>2, <2>4, <3>1
         DEF Step, Indexing, Mark, FindToProcess, Split, InsertChunk, FinishProcessing, Report,
             NoItem, TakeItem, FindToMark, FindToConfigure, SaveConfig, SaveUpserting,
             FindToUpsert, FinishUpsert, Clear, Unlist, FindChunk, ChangeChunk, SaveTotals,
             EraseChunks, RemoveRow, Touch, NotFound, At, IndexPhases
    <3> QED BY <2>1, <2>2, <3>2
  <2> QED BY <2>3, <2>4
<1>3. ASSUME NEW r \in Requests, Throw(r) PROVE TrackInv' BY <1>3, ThrowTracks
<1>4. CASE WorkerDies BY <1>4, WorkerDiesTracks
<1>5. CASE ServerDies BY <1>5, ServerDiesTracks
<1>6. CASE UNCHANGED vars
  BY <1>6 DEF vars, index, TrackInv, Unmanaged, Managed, Emptied, Tracked, RecordsAgree
<1> QED BY <1>1, <1>2, <1>3, <1>4, <1>5, <1>6 DEF Next

\* A chunk that the record manager has on record, and which indexing therefore skips, is
\* in the vector store, whatever threw or died while chunks were added, recorded or
\* listed, and whatever was cleaned up or deleted; the overlaps, and the cuts between
\* the vector store and the records, that can undo it are undone by deleting all.
THEOREM RecordsAgreeHolds == Spec => []RecordsAgree
<1>1. TrackInv => RecordsAgree BY DEF TrackInv
<1>2. Init => StoreInv /\ IndexTypeOK /\ OrphanInv /\ TotalsInv /\ TrackInv
  BY InitTyped, InitIndexTyped, InitKept, InitTotals, InitTracks
<1>3. StoreInv /\ IndexTypeOK /\ OrphanInv /\ TotalsInv /\ TrackInv /\ [Next]_vars
         => (StoreInv /\ IndexTypeOK /\ OrphanInv /\ TotalsInv /\ TrackInv)'
  BY NextTyped, NextIndexTyped, NextKept, NextTotals, NextTracks
<1> QED BY <1>1, <1>2, <1>3, PTL DEF Spec

----------------------------------------------------------------------------
(***************************************************************************)
(* Refreshes                                                               *)
(***************************************************************************)
LatePhases == {"reporting", "configuring", "saving", "upserting", "loading", "reading",
               "finishing"} \cup IndexPhases

RefreshPhases == Processing \cup LatePhases \cup {"item", "found", "marking"}

\* Phases between two loaders, and those in which the vector store is out of it.
PlainPhases == RefreshPhases \ ({"item", "finishing"} \cup IndexPhases)

\* A refresh that nothing overlapped so far.
Pending(k, x) == k = "refresh" /\ x.alone /\ x.pc \notin {"idle", "done", "failed"}

\* Its loaders are those of the row; those that are neither to come nor in hand are
\* done, and the one in hand is, as far as the refresh has come with it.
Repairs(x, now, sus) ==
    /\ DOMAIN now.loaders = x.items /\ x.left \subseteq x.items
    /\ x.pc = "item" => /\ x.left = {} => x.items = {}
                        /\ \A l \in x.items \ x.left : Clean(now, sus, l)
    /\ x.pc # "item" => /\ x.doc \in x.items \ x.left
                        /\ \A l \in x.items \ x.left : l # x.doc => Clean(now, sus, l)
    /\ x.pc \in LatePhases => Clean(now, sus, x.doc)

\* KeepsOthers, and what is on record is in the vector store.
Vouched(s, mud) ==
    /\ s.cleanup \notin {"incrementalShared", "full"}
    /\ s.cleanup # "noManager" => ~mud

\* Keys, of the rows of a loader.
KeysOf(s, rows, l) ==
    {IF s.changing THEN c ELSE [c EXCEPT !.by = NoRequest] : c \in RowsOf(rows, l)}

\* The chunks of a loader are in the vector store.
Indexed(s, rows, vecs, l) == KeysOf(s, rows, l) \subseteq vecs

\* Keys that indexing a loader may delete: its own, that it does not have any more.
Stale(s, rows, l, c) == c.doc = l /\ c \notin KeysOf(s, rows, l)

\* The loaders that are done are indexed, and so is the one in hand once its chunks were
\* added; what it cleans up are stale chunks of its own.
Covers(s, x, e, rows, vecs) ==
    /\ \A l \in x.items \ x.left : x.pc = "item" \/ l # x.doc => Indexed(s, rows, vecs, l)
    /\ x.pc \in {"sending", "adding", "recording"} => x.docs = KeysOf(s, rows, x.doc)
    /\ x.pc \in IndexPhases \cup {"finishing"} /\ x.pc \notin {"sending", "adding"}
          => Indexed(s, rows, vecs, x.doc)
    /\ x.pc \in {"adding", "recording", "listing"} => \A c \in e.older : Stale(s, rows, x.doc, c)
    /\ x.pc = "pruning" => \A c \in x.docs : Stale(s, rows, x.doc, c)

Repairing ==
    \A r \in Requests : Pending(setup.kind[r], op[r])
                           => /\ op[r].pc \in RefreshPhases
                              /\ Repairs(op[r], row, suspect)
                              /\ Vouched(setup, muddled) => Covers(setup, op[r], session[r], chunks, vectors)

Done ==
    refreshed => /\ \A r \in Requests : ~ Flying(op[r])
                 /\ \A l \in DOMAIN row.loaders : /\ row.status = "UPSERTED"
                                                  /\ Clean(row, suspect, l)
                                                  /\ Vouched(setup, muddled) => Indexed(setup, chunks, vectors, l)

RepairInv == Repairing /\ Done

LEMMA KeysAre ==
    /\ \A l : Keys(RowsOf(chunks, l)) = KeysOf(setup, chunks, l)
    /\ Vouched(setup, muddled) <=> KeepsOthers /\ (Managed => ~muddled)
BY DEF Keys, Key, KeysOf, Vouched, KeepsOthers, Managed

LEMMA KeysBelong ==
    ASSUME NEW s, NEW rows \in SUBSET Chunk, NEW l, NEW c \in KeysOf(s, rows, l)
    PROVE  c.doc = l
BY DEF KeysOf, RowsOf, Chunk

\* What a request in flight has to show: the others' refreshes are not alone.
LEMMA OneRepairs ==
    ASSUME StoreInv, OrphanInv, RepairInv, NEW r \in Requests, NEW x, Flying(op[r]),
           op' = [op EXCEPT ![r] = x], x.alone = op[r].alone, setup' = setup,
           refreshed' = refreshed,
           Pending(setup.kind[r], x) =>
              /\ x.pc \in RefreshPhases /\ Repairs(x, row', suspect')
              /\ Vouched(setup, muddled') => Covers(setup, x, session'[r], chunks', vectors')
    PROVE  RepairInv'
<1>1. op \in [Requests -> Op] BY DEF StoreInv, StoreTypeOK
<1>2. op'[r] = x /\ \A q \in Requests \ {r} : op'[q] = op[q] BY <1>1
<1>3. ASSUME NEW q \in Requests, Pending(setup.kind[q], op'[q])
      PROVE  /\ op'[q].pc \in RefreshPhases
             /\ Repairs(op'[q], row', suspect')
             /\ Vouched(setup, muddled') => Covers(setup, op'[q], session'[q], chunks', vectors')
  <2>1. CASE q = r BY <1>2, <1>3, <2>1
  <2>2. CASE q # r
    <3>1. op[q].alone /\ Flying(op[q]) BY <1>2, <1>3, <2>2 DEF Pending, Flying
    <3> QED BY <2>2, <3>1 DEF OrphanInv, Serial
  <2> QED BY <2>1, <2>2
<1>4. Done' BY DEF RepairInv, Done
<1> QED BY <1>3, <1>4 DEF RepairInv, Repairing

\* One that is no refresh, or has nothing more to do.
LEMMA OtherRepairs ==
    ASSUME StoreInv, OrphanInv, RepairInv, NEW r \in Requests, NEW x, Flying(op[r]),
           op' = [op EXCEPT ![r] = x], x.alone = op[r].alone, setup' = setup,
           refreshed' = refreshed,
           \/ op[r].pc \notin RefreshPhases \cup {"idle", "done", "failed"}
           \/ x.pc \in {"idle", "done", "failed"}
    PROVE  RepairInv'
<1>1. ~ Pending(setup.kind[r], x)
  <2>1. CASE x.pc \in {"idle", "done", "failed"} BY <2>1 DEF Pending
  <2>2. CASE op[r].pc \notin RefreshPhases \cup {"idle", "done", "failed"}
    BY <2>2 DEF Pending, RepairInv, Repairing
  <2> QED BY <2>1, <2>2
<1> QED BY <1>1, OneRepairs

LEMMA EndRepairs ==
    ASSUME StoreInv, OrphanInv, RepairInv, NEW r \in Requests, Flying(op[r]),
           NEW end \in {"done", "failed"}, EndsAs(r, end), setup' = setup,
           refreshed' = refreshed
    PROVE  RepairInv'
<1> DEFINE x == Over(op[r], end)
<1>1. op' = [op EXCEPT ![r] = x] BY DEF EndsAs
<1>2. x.pc \in {"done", "failed"} /\ x.alone = op[r].alone BY OpType, OverFields
<1> HIDE DEF x
<1> QED BY <1>1, <1>2, OtherRepairs

LEMMA ElseRepairs ==
    ASSUME StoreInv, OrphanInv, RepairInv, NEW r \in Requests,
           op[r].pc \notin RefreshPhases \cup {"idle", "done", "failed"},
           NEW pc, Goto(r, pc), setup' = setup, refreshed' = refreshed
    PROVE  RepairInv'
<1> DEFINE x == [op[r] EXCEPT !.pc = pc]
<1>1. op' = [op EXCEPT ![r] = x] BY DEF Goto
<1>2. x.alone = op[r].alone BY OpType DEF Op
<1> HIDE DEF x
<1>3. Flying(op[r]) BY DEF Flying
<1> QED BY <1>1, <1>2, <1>3, OtherRepairs

\* A step with the loader in hand, and without the vector store.
LEMMA MoveRepairs ==
    ASSUME StoreInv, OrphanInv, TotalsInv, RepairInv, NEW r \in Requests, NEW x,
           op[r].pc \in PlainPhases, x.pc \in PlainPhases,
           op' = [op EXCEPT ![r] = x], x.alone = op[r].alone, refreshed' = refreshed,
           UNCHANGED <<setup, vectors, index>>, x.items = op[r].items, x.left = op[r].left,
           Pending(setup.kind[r], op[r]) =>
              /\ x.doc = op[r].doc
              /\ DOMAIN row'.loaders = DOMAIN row.loaders
              /\ \A l \in DOMAIN row.loaders : l # op[r].doc =>
                    /\ Clean(row, suspect, l) => Clean(row', suspect', l)
                    /\ RowsOf(chunks', l) = RowsOf(chunks, l)
              /\ x.pc \in LatePhases => Clean(row', suspect', x.doc)
    PROVE  RepairInv'
<1>1. Flying(op[r]) /\ op[r].pc \notin {"idle", "done", "failed", "item"} /\ x.pc # "item"
  BY DEF Flying, PlainPhases, RefreshPhases, LatePhases, Processing
<1>2. UNCHANGED <<records, session, muddled>> BY DEF index
<1>3. ASSUME Pending(setup.kind[r], x)
      PROVE  /\ Repairs(x, row', suspect')
             /\ Vouched(setup, muddled) => Covers(setup, x, session[r], chunks', vectors)
  <2>1. Pending(setup.kind[r], op[r]) BY <1>1, <1>3 DEF Pending
  <2>2. /\ Repairs(op[r], row, suspect)
        /\ Vouched(setup, muddled) => Covers(setup, op[r], session[r], chunks, vectors)
    BY <2>1 DEF RepairInv, Repairing
  <2>3. /\ DOMAIN row.loaders = op[r].items /\ op[r].left \subseteq op[r].items
        /\ op[r].doc \in op[r].items \ op[r].left
        /\ \A l \in op[r].items \ op[r].left : l # op[r].doc => Clean(row, suspect, l)
    BY <1>1, <2>2 DEF Repairs
  <2>4. Repairs(x, row', suspect') BY <1>1, <2>1, <2>3 DEF Repairs
  <2>5. ASSUME Vouched(setup, muddled), NEW l \in x.items \ x.left, l # x.doc
        PROVE  Indexed(setup, chunks', vectors, l)
    <3>1. Indexed(setup, chunks, vectors, l) BY <1>1, <2>1, <2>2, <2>5 DEF Covers
    <3>2. RowsOf(chunks', l) = RowsOf(chunks, l) BY <2>1, <2>3, <2>5
    <3> QED BY <3>1, <3>2 DEF Indexed, KeysOf
  <2>6. x.pc \notin IndexPhases \cup {"finishing"} BY DEF PlainPhases
  <2>7. Vouched(setup, muddled) => Covers(setup, x, session[r], chunks', vectors)
    BY <1>1, <2>5, <2>6 DEF Covers, IndexPhases
  <2> QED BY <2>4, <2>7
<1>4. x.pc \in RefreshPhases BY DEF PlainPhases
<1> QED BY <1>1, <1>2, <1>3, <1>4, OneRepairs

LEMMA PendingElim ==
    ASSUME StoreInv, OrphanInv, TotalsInv, RepairInv, NEW r \in Requests,
           Pending(setup.kind[r], op[r])
    PROVE  /\ op[r].alone /\ Kind(r) = "refresh" /\ Flying(op[r])
           /\ op[r].pc \in CopyPhases => op[r].copy.loaders = row.loaders
           /\ Repairs(op[r], row, suspect)
           /\ Vouched(setup, muddled) => Covers(setup, op[r], session[r], chunks, vectors)
           /\ DOMAIN row.loaders \subseteq Loaders
           /\ op[r].pc # "item" => op[r].doc \in DOMAIN row.loaders /\ op[r].doc \in Loaders
<1>1. /\ op[r].alone /\ Kind(r) = "refresh" /\ op[r].pc \notin {"idle", "done", "failed"}
  BY DEF Pending, Kind
<1>2. /\ Repairs(op[r], row, suspect)
      /\ Vouched(setup, muddled) => Covers(setup, op[r], session[r], chunks, vectors)
  BY DEF RepairInv, Repairing
<1>3. DOMAIN row.loaders \subseteq Loaders BY StillTyped, RowElim
<1> QED BY <1>1, <1>2, <1>3, AtPhase DEF Repairs

LEMMA MarkRepairs ==
    ASSUME StoreInv, OrphanInv, TotalsInv, RepairInv, NEW r \in Requests, Mark(r)
    PROVE  RepairInv'
<1> DEFINE x == [op[r] EXCEPT !.pc = "marked"]
<1>1. /\ op[r].pc = "marking" /\ row' = Marking(op[r].copy, op[r].doc)
      /\ op' = [op EXCEPT ![r] = x]
      /\ UNCHANGED <<setup, chunks, vectors, index, suspect, refreshed>>
  BY DEF Mark, At, Goto, history
<1>2. op[r] \in Op /\ op[r].copy \in Rows BY OpType DEF Op
<1>3. /\ x.pc = "marked" /\ x.doc = op[r].doc /\ x.alone = op[r].alone /\ x.left = op[r].left
      /\ x.items = op[r].items
  BY <1>2 DEF Op
<1> HIDE DEF x
<1>4. row'.loaders = [k \in DOMAIN op[r].copy.loaders \cup {op[r].doc} |->
                         IF k = op[r].doc THEN [status |-> "SYNCING", total |-> 0]
                         ELSE op[r].copy.loaders[k]]
  BY <1>1, <1>2, RowElim DEF Marking
<1>5. ASSUME Pending(setup.kind[r], op[r])
      PROVE  /\ DOMAIN row'.loaders = DOMAIN row.loaders
             /\ \A l \in DOMAIN row.loaders : l # op[r].doc
                   => (Clean(row, suspect, l) => Clean(row', suspect', l))
  <2>1. op[r].copy.loaders = row.loaders /\ op[r].doc \in DOMAIN row.loaders
    BY <1>1, <1>5, PendingElim DEF CopyPhases
  <2> QED BY <1>1, <1>4, <2>1 DEF Clean, Listed
<1>6. /\ op[r].pc \in PlainPhases /\ x.pc \in PlainPhases
      /\ x.pc \notin LatePhases
  BY <1>1, <1>3 DEF PlainPhases, RefreshPhases, LatePhases, IndexPhases, Processing
<1> QED BY <1>1, <1>3, <1>5, <1>6, MoveRepairs DEF LatePhases

LEMMA FindRepairs ==
    ASSUME StoreInv, OrphanInv, TotalsInv, RepairInv, NEW r \in Requests,
           FindToProcess(r) \/ FindToConfigure(r) \/ FindToUpsert(r)
    PROVE  RepairInv'
<1>1. PICK pc \in {"splitting", "saving", "reading"} :
         /\ op' = [op EXCEPT ![r].copy = row, ![r].pc = pc]
         /\ op[r].pc = CASE pc = "splitting" -> "marked" [] pc = "saving" -> "configuring"
                         [] pc = "reading" -> "loading"
         /\ UNCHANGED <<setup, row, chunks, vectors, index, suspect, refreshed>>
  BY DEF FindToProcess, FindToConfigure, FindToUpsert, At, Find, history
<1> DEFINE x == [op[r] EXCEPT !.copy = row, !.pc = pc]
<1>2. op' = [op EXCEPT ![r] = x] BY <1>1
<1>3. /\ x.pc = pc /\ x.alone = op[r].alone /\ x.left = op[r].left
      /\ x.items = op[r].items /\ x.doc = op[r].doc
  BY OpType DEF Op
<1> HIDE DEF x
<1>4. /\ op[r].pc \in PlainPhases /\ x.pc \in PlainPhases
      /\ x.pc \in LatePhases => op[r].pc \in LatePhases
  BY <1>1, <1>3 DEF PlainPhases, RefreshPhases, LatePhases, IndexPhases, Processing
<1>5. Pending(setup.kind[r], op[r]) /\ x.pc \in LatePhases => Clean(row, suspect, x.doc)
  BY <1>3, <1>4, PendingElim DEF Repairs
<1> QED BY <1>1, <1>2, <1>3, <1>4, <1>5, MoveRepairs

LEMMA SplitRepairs ==
    ASSUME StoreInv, OrphanInv, TotalsInv, RepairInv, NEW r \in Requests, Split(r)
    PROVE  RepairInv'
<1>1. /\ op[r].pc = "splitting" /\ chunks' = chunks \ ChunksOf(op[r].doc)
      /\ UNCHANGED <<setup, row, vectors, index, suspect, refreshed>>
  BY DEF Split, At, history
<1>2. PICK n \in Splits :
        op' = [op EXCEPT ![r].pc = "inserting", ![r].size = n,
                         ![r].pending = [doc : {op[r].doc}, by : {r}, no : 1 .. n,
                                         edited : {FALSE}]]
  BY DEF Split
<1> DEFINE new == Full(r, op[r].doc, n)
           x == [op[r] EXCEPT !.pc = "inserting", !.size = n, !.pending = new]
<1>3. op' = [op EXCEPT ![r] = x] BY <1>2 DEF Full
<1> HIDE DEF new
<1>4. /\ x.pc = "inserting" /\ x.doc = op[r].doc /\ x.alone = op[r].alone
      /\ x.left = op[r].left /\ x.items = op[r].items
  BY OpType DEF Op
<1> HIDE DEF x
<1>5. \A l : l # op[r].doc => RowsOf(chunks', l) = RowsOf(chunks, l)
  BY <1>1 DEF RowsOf, ChunksOf
<1>6. /\ op[r].pc \in PlainPhases /\ x.pc \in PlainPhases
      /\ x.pc \notin LatePhases
  BY <1>1, <1>4 DEF PlainPhases, RefreshPhases, LatePhases, IndexPhases, Processing
<1> QED BY <1>1, <1>3, <1>4, <1>5, <1>6, MoveRepairs DEF LatePhases

LEMMA InsertChunkRepairs ==
    ASSUME StoreInv, OrphanInv, TotalsInv, RepairInv, NEW r \in Requests, InsertChunk(r)
    PROVE  RepairInv'
<1>1. PICK c \in op[r].pending : /\ chunks' = chunks \cup {c}
                                 /\ op' = [op EXCEPT ![r].pending = @ \ {c}]
  BY DEF InsertChunk
<1> DEFINE x == [op[r] EXCEPT !.pending = op[r].pending \ {c}]
<1>2. UNCHANGED <<setup, row, vectors, index, suspect, refreshed>> BY DEF InsertChunk, history
<1>3. op' = [op EXCEPT ![r] = x] BY <1>1
<1>4. op[r] \in Op /\ op[r].pc \in {"inserting", "failed"} /\ Flying(op[r])
  BY <1>1, OpType DEF BusyOp, Flying
<1>5. /\ x.pc = op[r].pc /\ x.doc = op[r].doc /\ x.alone = op[r].alone
      /\ x.left = op[r].left /\ x.items = op[r].items
  BY <1>4 DEF Op
<1> HIDE DEF x
<1>6. CASE op[r].pc = "failed" BY <1>2, <1>3, <1>4, <1>5, <1>6, OtherRepairs
<1>7. CASE op[r].pc = "inserting"
  <2>1. ASSUME Pending(setup.kind[r], op[r])
        PROVE  \A l : l # op[r].doc => RowsOf(chunks', l) = RowsOf(chunks, l)
    <3>1. op[r].alone BY <2>1, PendingElim
    <3>2. Careful(setup, r, op[r], row, chunks, suspect) BY <1>7, <3>1, AtPhase
    <3>3. c \in Full(r, op[r].doc, op[r].size) BY <1>1, <1>7, <3>2 DEF Careful
    <3>4. c.doc = op[r].doc BY <3>3 DEF Full
    <3> QED BY <1>1, <3>4 DEF RowsOf
  <2>2. /\ op[r].pc \in PlainPhases /\ x.pc \in PlainPhases
        /\ x.pc \notin LatePhases
    BY <1>5, <1>7 DEF PlainPhases, RefreshPhases, LatePhases, IndexPhases, Processing
  <2> QED BY <1>2, <1>3, <1>5, <2>1, <2>2, MoveRepairs DEF LatePhases
<1> QED BY <1>4, <1>6, <1>7

LEMMA FinishProcessingRepairs ==
    ASSUME StoreInv, OrphanInv, TotalsInv, RepairInv, NEW r \in Requests, FinishProcessing(r)
    PROVE  RepairInv'
<1> DEFINE doc == op[r].doc
           copy == op[r].copy
           size == op[r].size
<1>1. op[r].pc = "inserting" /\ UNCHANGED <<setup, chunks, vectors, index, refreshed>>
  BY DEF FinishProcessing, At
<1>2. op[r] \in Op /\ Flying(op[r]) BY <1>1, AtPhase
<1>3. CASE Listed(copy, doc)
  <2> DEFINE x == [op[r] EXCEPT !.pc = "reporting", !.copy = Gone, !.size = 0]
  <2>1. /\ row' = Processed(copy, doc, size)
        /\ op' = [op EXCEPT ![r].pc = "reporting", ![r].copy = Gone, ![r].size = 0]
        /\ suspect' = IF op[r].alone THEN suspect \ {doc} ELSE suspect
    BY <1>3 DEF FinishProcessing, Clears
  <2>2. op' = [op EXCEPT ![r] = x] BY <2>1
  <2>3. /\ x.pc = "reporting" /\ x.alone = op[r].alone /\ x.left = op[r].left
        /\ x.items = op[r].items /\ x.doc = doc
    BY <1>2 DEF Op
  <2> HIDE DEF x
  <2>4. row'.loaders = [copy.loaders EXCEPT ![doc] = [status |-> "SYNC", total |-> size]]
    BY <2>1 DEF Processed
  <2>5. ASSUME Pending(setup.kind[r], op[r])
        PROVE  /\ DOMAIN row'.loaders = DOMAIN row.loaders
               /\ \A l \in DOMAIN row.loaders : l # doc
                     => (Clean(row, suspect, l) => Clean(row', suspect', l))
               /\ Clean(row', suspect', doc)
    <3>1. copy.loaders = row.loaders /\ op[r].alone /\ doc \in DOMAIN row.loaders
      BY <1>1, <2>5, PendingElim DEF CopyPhases
    <3> QED BY <2>1, <2>4, <3>1 DEF Clean, Listed
  <2>6. op[r].pc \in PlainPhases /\ x.pc \in PlainPhases
    BY <1>1, <2>3 DEF PlainPhases, RefreshPhases, LatePhases, IndexPhases, Processing
  <2> QED BY <1>1, <2>2, <2>3, <2>5, <2>6, MoveRepairs
<1>4. CASE ~ Listed(copy, doc)
  <2>1. EndsAs(r, "failed") BY <1>4 DEF FinishProcessing
  <2> QED BY <1>1, <1>2, <2>1, EndRepairs
<1> QED BY <1>3, <1>4

LEMMA ReportRepairs ==
    ASSUME StoreInv, OrphanInv, TotalsInv, RepairInv, NEW r \in Requests, Report(r)
    PROVE  RepairInv'
<1>1. op[r].pc = "reporting" /\ UNCHANGED <<setup, row, chunks, vectors, index, suspect, refreshed>>
  BY DEF Report, At, history
<1>2. Flying(op[r]) BY <1>1, AtPhase
<1>3. CASE EndsAs(r, "failed") \/ EndsAs(r, "done") BY <1>1, <1>2, <1>3, EndRepairs
<1>4. CASE Goto(r, "configuring")
  <2> DEFINE x == [op[r] EXCEPT !.pc = "configuring"]
  <2>1. op' = [op EXCEPT ![r] = x] BY <1>4 DEF Goto
  <2>2. /\ x.pc = "configuring" /\ x.alone = op[r].alone /\ x.left = op[r].left
        /\ x.items = op[r].items /\ x.doc = op[r].doc
    BY OpType DEF Op
  <2> HIDE DEF x
  <2>3. Pending(setup.kind[r], op[r]) => Clean(row, suspect, x.doc)
    BY <1>1, <2>2, PendingElim DEF Repairs, LatePhases
  <2>4. op[r].pc \in PlainPhases /\ x.pc \in PlainPhases
    BY <1>1, <2>2 DEF PlainPhases, RefreshPhases, LatePhases, IndexPhases, Processing
  <2> QED BY <1>1, <2>1, <2>2, <2>3, <2>4, MoveRepairs
<1> QED BY <1>3, <1>4 DEF Report

\* The refresh takes the next loader.
LEMMA TakeItemRepairs ==
    ASSUME StoreInv, OrphanInv, TotalsInv, RepairInv, NEW r \in Requests, TakeItem(r)
    PROVE  RepairInv'
<1>1. op[r].pc = "item" /\ UNCHANGED <<setup, row, chunks, vectors, index, suspect, refreshed>>
  BY DEF TakeItem, At, history
<1>2. op[r] \in Op /\ Flying(op[r]) BY <1>1, AtPhase
<1>3. PICK l \in op[r].left :
        \/ EndsAs(r, "failed")
        \/ op' = [op EXCEPT ![r].pc = "found", ![r].doc = l, ![r].left = @ \ {l}]
  BY DEF TakeItem
<1>4. CASE EndsAs(r, "failed") BY <1>1, <1>2, <1>4, EndRepairs
<1>5. CASE op' = [op EXCEPT ![r].pc = "found", ![r].doc = l, ![r].left = @ \ {l}]
  <2> DEFINE x == [op[r] EXCEPT !.pc = "found", !.doc = l, !.left = op[r].left \ {l}]
  <2>1. op' = [op EXCEPT ![r] = x] BY <1>5
  <2>2. /\ x.pc = "found" /\ x.alone = op[r].alone /\ x.items = op[r].items /\ x.doc = l
        /\ x.left = op[r].left \ {l}
    BY <1>2 DEF Op
  <2> HIDE DEF x
  <2>3. ASSUME Pending(setup.kind[r], x)
        PROVE  /\ x.pc \in RefreshPhases /\ Repairs(x, row, suspect)
               /\ Vouched(setup, muddled) => Covers(setup, x, session[r], chunks, vectors)
    <3>1. Pending(setup.kind[r], op[r]) BY <1>1, <2>2, <2>3 DEF Pending
    <3>2. /\ Repairs(op[r], row, suspect)
          /\ Vouched(setup, muddled) => Covers(setup, op[r], session[r], chunks, vectors)
      BY <3>1, PendingElim
    <3>3. x.pc \in RefreshPhases /\ Repairs(x, row, suspect)
      BY <1>1, <1>3, <2>2, <3>2 DEF Repairs, RefreshPhases, LatePhases, IndexPhases
    <3>4. Vouched(setup, muddled) => Covers(setup, x, session[r], chunks, vectors)
      BY <1>1, <1>3, <2>2, <3>2 DEF Covers, Repairs, IndexPhases
    <3> QED BY <3>3, <3>4
  <2>4. UNCHANGED <<session, muddled>> BY <1>1 DEF index
  <2> QED BY <1>1, <1>2, <2>1, <2>2, <2>3, <2>4, OneRepairs
<1> QED BY <1>3, <1>4, <1>5

LEMMA FindToMarkRepairs ==
    ASSUME StoreInv, OrphanInv, TotalsInv, RepairInv, NEW r \in Requests, FindToMark(r)
    PROVE  RepairInv'
<1>1. op[r].pc = "found" /\ UNCHANGED <<setup, row, chunks, vectors, index, suspect, refreshed>>
  BY DEF FindToMark, At, history
<1>2. PICK l \in Target(op[r].doc) :
         op' = [op EXCEPT ![r].pc = "marking", ![r].doc = l, ![r].copy = row]
  BY DEF FindToMark
<1> DEFINE x == [op[r] EXCEPT !.pc = "marking", !.doc = l, !.copy = row]
<1>3. op' = [op EXCEPT ![r] = x] BY <1>2
<1>4. /\ x.pc = "marking" /\ x.alone = op[r].alone /\ x.items = op[r].items /\ x.doc = l
      /\ x.left = op[r].left
  BY OpType DEF Op
<1> HIDE DEF x
<1>5. Pending(setup.kind[r], op[r]) => l = op[r].doc
  BY <1>1, <1>2, PendingElim, StoreAssumption DEF Target, StoreAssumption
<1>6. /\ op[r].pc \in PlainPhases /\ x.pc \in PlainPhases
      /\ x.pc \notin LatePhases
  BY <1>1, <1>4 DEF PlainPhases, RefreshPhases, LatePhases, IndexPhases, Processing
<1> QED BY <1>1, <1>3, <1>4, <1>5, <1>6, MoveRepairs DEF LatePhases


LEMMA SaveConfigRepairs ==
    ASSUME StoreInv, OrphanInv, TotalsInv, RepairInv, NEW r \in Requests,
           SaveConfig(r) \/ SaveUpserting(r)
    PROVE  RepairInv'
<1>1. PICK pc \in {"upserting", "loading"} :
         /\ op[r].pc = IF pc = "upserting" THEN "saving" ELSE "upserting"
         /\ Goto(r, pc) \/ EndsAs(r, "done")
         /\ row'.loaders = op[r].copy.loaders
         /\ UNCHANGED <<setup, chunks, vectors, index, suspect, refreshed>>
  <2>1. op[r].copy \in Rows BY OpType DEF Op
  <2>2. CASE SaveConfig(r)
    <3>1. row'.loaders = op[r].copy.loaders BY <2>1, <2>2, RowElim DEF SaveConfig, Configured
    <3> QED BY <2>2, <3>1 DEF SaveConfig, At, history
  <2>3. CASE SaveUpserting(r)
    <3>1. row'.loaders = op[r].copy.loaders BY <2>1, <2>3, RowElim DEF SaveUpserting
    <3> QED BY <2>3, <3>1 DEF SaveUpserting, At, history
  <2> QED BY <2>2, <2>3
<1>2. Flying(op[r]) BY <1>1 DEF Flying
<1>3. CASE EndsAs(r, "done") BY <1>1, <1>2, <1>3, EndRepairs
<1>4. CASE Goto(r, pc)
  <2> DEFINE x == [op[r] EXCEPT !.pc = pc]
  <2>1. op' = [op EXCEPT ![r] = x] BY <1>4 DEF Goto
  <2>2. /\ x.pc = pc /\ x.alone = op[r].alone /\ x.left = op[r].left
        /\ x.items = op[r].items /\ x.doc = op[r].doc
    BY OpType DEF Op
  <2> HIDE DEF x
  <2>3. ASSUME Pending(setup.kind[r], op[r])
        PROVE  /\ row'.loaders = row.loaders
               /\ Clean(row, suspect, x.doc)
    BY <1>1, <2>2, <2>3, PendingElim DEF Repairs, LatePhases, CopyPhases
  <2>4. \A l : row'.loaders = row.loaders /\ Clean(row, suspect, l)
                  => Clean(row', suspect', l)
    BY <1>1 DEF Clean, Listed
  <2>5. op[r].pc \in PlainPhases /\ x.pc \in PlainPhases
    BY <1>1, <2>2 DEF PlainPhases, RefreshPhases, LatePhases, IndexPhases, Processing
  <2> QED BY <1>1, <2>1, <2>2, <2>3, <2>4, <2>5, MoveRepairs
<1> QED BY <1>1, <1>3, <1>4

\* Indexing the loader in hand leaves row and chunk rows alone.
LEMMA IndexRepairs ==
    ASSUME StoreInv, OrphanInv, TotalsInv, RepairInv, NEW r \in Requests, Indexing(r),
           Pending(setup.kind[r], op[r]) /\ Vouched(setup, muddled)
              => Covers(setup, op'[r], session'[r], chunks, vectors')
    PROVE  RepairInv'
<1>1. PICK pc \in IndexPhases \cup {"finishing"} : \E docs :
         /\ op' = [op EXCEPT ![r] = [op[r] EXCEPT !.pc = pc, !.docs = docs]]
         /\ op[r].pc \in IndexPhases \cup {"reading", "unindexing"}
         /\ UNCHANGED <<setup, row, chunks, suspect, refreshed>>
  BY IndexingStep
<1>2. PICK docs : op' = [op EXCEPT ![r] = [op[r] EXCEPT !.pc = pc, !.docs = docs]] BY <1>1
<1> DEFINE x == [op[r] EXCEPT !.pc = pc, !.docs = docs]
<1>3. op[r] \in Op /\ op \in [Requests -> Op] BY OpType DEF StoreInv, StoreTypeOK
<1>4. /\ op' = [op EXCEPT ![r] = x] /\ op'[r] = x /\ x.pc = pc /\ x.alone = op[r].alone
      /\ x.doc = op[r].doc /\ x.items = op[r].items /\ x.left = op[r].left
  BY <1>2, <1>3 DEF Op
<1> HIDE DEF x
<1>5. Flying(op[r]) /\ op[r].pc \notin {"idle", "done", "failed", "item"}
  BY <1>1 DEF Flying, IndexPhases
<1>6. muddled' = muddled
  BY DEF Indexing, ReadChunks, LookUp, AddDocuments, Record, List, Prune, Unindex, Forget, index
<1>7. ASSUME Pending(setup.kind[r], x)
      PROVE  /\ x.pc \in RefreshPhases /\ Repairs(x, row, suspect)
             /\ Vouched(setup, muddled) => Covers(setup, x, session'[r], chunks, vectors')
  <2>1. Pending(setup.kind[r], op[r]) BY <1>4, <1>5, <1>7 DEF Pending
  <2>2. Repairs(op[r], row, suspect) /\ op[r].pc \in RefreshPhases
    BY <2>1 DEF RepairInv, Repairing
  <2>3. op[r].pc \in LatePhases /\ x.pc \in LatePhases /\ x.pc # "item"
    BY <1>1, <1>4, <2>2 DEF RefreshPhases, LatePhases, IndexPhases, Processing
  <2>4. Repairs(x, row, suspect) BY <1>4, <1>5, <2>2, <2>3 DEF Repairs
  <2> QED BY <1>4, <2>1, <2>3, <2>4 DEF RefreshPhases
<1> QED BY <1>1, <1>4, <1>5, <1>6, <1>7, OneRepairs

\* Step by step: what is added are the chunks of the loader that are not there yet; what
\* is cleaned up are stale chunks of it.
LEMMA IndexCovers ==
    ASSUME StoreInv, IndexTypeOK, OrphanInv, TotalsInv, TrackInv, RepairInv,
           NEW r \in Requests, Indexing(r), Pending(setup.kind[r], op[r]),
           Vouched(setup, muddled)
    PROVE  Covers(setup, op'[r], session'[r], chunks, vectors')
<1> DEFINE d == op[r].doc
           y == op'[r]
<1> SUFFICES Covers(setup, y, session'[r], chunks, vectors') OBVIOUS
<1>1. /\ op[r] \in Op /\ op \in [Requests -> Op] /\ chunks \subseteq Chunk
      /\ session \in [Requests -> [known : SUBSET Chunk, older : SUBSET Chunk]]
  BY OpType DEF StoreInv, StoreTypeOK, IndexTypeOK
<1>2. PICK pc \in IndexPhases \cup {"finishing"} : \E docs :
         /\ op' = [op EXCEPT ![r] = [op[r] EXCEPT !.pc = pc, !.docs = docs]]
         /\ op[r].pc \in IndexPhases \cup {"reading", "unindexing"}
  BY IndexingStep
<1>3. y.doc = d /\ y.items = op[r].items /\ y.left = op[r].left /\ y.pc = pc
  BY <1>1, <1>2 DEF Op
<1>4. /\ Kind(r) = "refresh" /\ op[r].alone /\ Flying(op[r]) /\ d \in Loaders
      /\ op[r].pc # "unindexing" /\ op[r].pc # "item"
      /\ Covers(setup, op[r], session[r], chunks, vectors)
  <2>1. op[r].pc \in RefreshPhases BY DEF RepairInv, Repairing
  <2> QED BY <1>2, <2>1, PendingElim DEF RefreshPhases, LatePhases, IndexPhases, Processing
<1>5. KeepsOthers /\ (Managed => ~muddled) BY KeysAre
<1>6. /\ Managed => Tracks(op[r], session[r], records, vectors)
      /\ ~Managed => op[r].pc \notin ManagedPhases /\ session[r] = Nothing
  BY <1>4, <1>5, TrackElim
<1>7. /\ \A l \in y.items \ y.left : l # d => Indexed(setup, chunks, vectors, l)
      /\ y.pc # "item"
  BY <1>3, <1>4 DEF Covers, IndexPhases
<1>8. \A to : Goto(r, to) => y.pc = to /\ y.docs = op[r].docs
  BY <1>1 DEF Goto, Op
<1>9. \A l : \A c \in KeysOf(setup, chunks, l) : c.doc = l BY <1>1, KeysBelong
<1> HIDE DEF d, y
<1>10. CASE ReadChunks(r)
  <2>1. op[r].pc = "reading" /\ UNCHANGED <<vectors, session>> BY <1>10 DEF ReadChunks, At, index
  <2>2. y.pc = (IF Managed THEN "sending" ELSE "adding") /\ y.docs = Keys(ChunksOf(d))
    <3>1. d # NoLoader BY <1>4, StoreAssumption DEF StoreAssumption
    <3> QED BY <1>1, <1>10, <3>1 DEF ReadChunks, Op, d, y
  <2>3. y.docs = KeysOf(setup, chunks, d) BY <2>2, KeysAre DEF RowsOf, ChunksOf
  <2>4. y.pc = "adding" => session[r].older = {} BY <1>6, <2>2 DEF Nothing
  <2> QED BY <1>3, <1>7, <2>1, <2>2, <2>3, <2>4 DEF Covers, IndexPhases
<1>11. CASE LookUp(r)
  <2>1. op[r].pc = "sending" /\ y.pc = "adding" /\ y.docs = op[r].docs /\ vectors' = vectors
    BY <1>8, <1>11 DEF LookUp, At
  <2>2. session'[r].older = Outdated(op[r].docs) BY <1>11 DEF LookUp, Renewed
  <2>3. y.docs = KeysOf(setup, chunks, d) BY <1>4, <2>1 DEF Covers, d
  <2>4. ASSUME NEW c \in session'[r].older PROVE Stale(setup, chunks, d, c)
    <3>1. /\ c \notin y.docs
          /\ \E k \in y.docs : k.doc = c.doc
      BY <1>5, <2>1, <2>2 DEF Outdated, KeepsOthers
    <3> QED BY <1>9, <2>3, <3>1 DEF Stale
  <2> QED BY <1>3, <1>7, <2>1, <2>3, <2>4 DEF Covers, IndexPhases
<1>12. CASE AddDocuments(r)
  <2>1. /\ op[r].pc = "adding" /\ y.pc \in {"recording", "finishing"}
        /\ y.docs = op[r].docs /\ session' = session
        /\ vectors' = vectors \cup (op[r].docs \ session[r].known)
    BY <1>8, <1>12 DEF AddDocuments, At, index
  <2>2. y.docs = KeysOf(setup, chunks, d) BY <1>4, <2>1 DEF Covers, d
  <2>3. session[r].known \subseteq vectors BY <1>6, <2>1 DEF Tracks, Nothing
  <2>4. Indexed(setup, chunks, vectors', d) BY <2>1, <2>2, <2>3 DEF Indexed
  <2>5. \A l \in y.items \ y.left : l # d => Indexed(setup, chunks, vectors', l)
    BY <1>7, <2>1 DEF Indexed
  <2>6. \A c \in session[r].older : Stale(setup, chunks, d, c)
    BY <1>4, <2>1 DEF Covers, d
  <2> QED BY <1>3, <1>7, <2>1, <2>2, <2>4, <2>5, <2>6 DEF Covers, IndexPhases
<1>13. CASE Record(r)
  <2>1. /\ op[r].pc = "recording" /\ y.pc = "listing" /\ vectors' = vectors
        /\ session' = Renewed(op[r].docs)
    BY <1>8, <1>13 DEF Record, At
  <2>2. session'[r].older \subseteq session[r].older BY <2>1, RenewedType
  <2>3. /\ Indexed(setup, chunks, vectors, d)
        /\ \A c \in session[r].older : Stale(setup, chunks, d, c)
    BY <1>4, <2>1 DEF Covers, d, IndexPhases
  <2> QED BY <1>3, <1>7, <2>1, <2>2, <2>3 DEF Covers, IndexPhases
<1>14. CASE List(r)
  <2>1. op[r].pc = "listing" /\ vectors' = vectors BY <1>14 DEF List, At
  <2>2. y.pc \in {"finishing", "pruning"} /\ y.docs = session[r].older \cap records
    BY <1>1, <1>14 DEF List, Op, y
  <2>3. /\ Indexed(setup, chunks, vectors, d)
        /\ \A c \in session[r].older : Stale(setup, chunks, d, c)
    BY <1>4, <2>1 DEF Covers, d, IndexPhases
  <2> QED BY <1>3, <1>7, <2>1, <2>2, <2>3 DEF Covers, IndexPhases
<1>15. CASE Prune(r)
  <2>1. /\ op[r].pc = "pruning" /\ y.pc = "forgetting" /\ vectors' = vectors \ op[r].docs
    BY <1>8, <1>15 DEF Prune, At
  <2>2. /\ Indexed(setup, chunks, vectors, d)
        /\ \A c \in op[r].docs : Stale(setup, chunks, d, c)
    BY <1>4, <2>1 DEF Covers, d, IndexPhases
  <2>3. Indexed(setup, chunks, vectors', d) BY <2>1, <2>2 DEF Indexed, Stale
  <2>4. ASSUME NEW l \in y.items \ y.left, l # d PROVE Indexed(setup, chunks, vectors', l)
    <3>1. Indexed(setup, chunks, vectors, l) BY <1>7, <2>4
    <3> QED BY <1>9, <2>1, <2>2, <2>4, <3>1 DEF Indexed, Stale
  <2> QED BY <1>3, <1>7, <2>1, <2>3, <2>4 DEF Covers, IndexPhases
<1>16. CASE Forget(r) /\ Kind(r) # "unindex"
  <2>1. op[r].pc = "forgetting" /\ y.pc = "finishing" /\ vectors' = vectors
    BY <1>8, <1>16 DEF Forget, At
  <2>2. Indexed(setup, chunks, vectors, d) BY <1>4, <2>1 DEF Covers, d, IndexPhases
  <2> QED BY <1>3, <1>7, <2>1, <2>2 DEF Covers, IndexPhases
<1>17. ~Unindex(r) BY <1>4 DEF Unindex, At
<1> QED BY <1>10, <1>11, <1>12, <1>13, <1>14, <1>15, <1>16, <1>17 DEF Indexing

LEMMA IndexingRepairs ==
    ASSUME StoreInv, IndexTypeOK, OrphanInv, TotalsInv, TrackInv, RepairInv,
           NEW r \in Requests, Indexing(r)
    PROVE  RepairInv'
BY IndexRepairs, IndexCovers

\* A refresh that ends alone leaves nothing in flight.
LEMMA CompleteRepairs ==
    ASSUME StoreInv, OrphanInv, RepairInv, NEW r \in Requests, Complete(r), setup' = setup,
           op[r].pc \notin {"idle", "inserting", "done", "failed"},
           Pending(setup.kind[r], op[r]) =>
              \A l \in DOMAIN row'.loaders :
                 /\ row'.status = "UPSERTED" /\ Clean(row', suspect', l)
                 /\ Vouched(setup, muddled') => Indexed(setup, chunks', vectors', l)
    PROVE  RepairInv'
<1> DEFINE x == Over(op[r], "done")
<1>1. op' = [op EXCEPT ![r] = x] BY DEF Complete, EndsAs
<1>2. refreshed' = (Kind(r) = "refresh" /\ op[r].alone) BY DEF Complete
<1>3. /\ x.pc = "done" /\ x.pending = op[r].pending /\ x.alone = op[r].alone
      /\ op[r].pending = {} /\ Flying(op[r])
  BY OpType, OverFields DEF BusyOp, Flying
<1> HIDE DEF x
<1>4. op \in [Requests -> Op] BY DEF StoreInv, StoreTypeOK
<1>5. op'[r] = x /\ \A q \in Requests \ {r} : op'[q] = op[q] BY <1>1, <1>4
<1>6. Repairing'
  <2>1. ASSUME NEW q \in Requests, Pending(setup'.kind[q], op'[q]) PROVE FALSE
    <3>1. q # r BY <1>3, <1>5, <2>1 DEF Pending
    <3>2. Flying(op[q]) /\ op[q].alone BY <1>5, <2>1, <3>1 DEF Pending, Flying
    <3> QED BY <1>3, <3>1, <3>2 DEF OrphanInv, Serial
  <2> QED BY <2>1 DEF Repairing
<1>7. Done'
  <2> SUFFICES ASSUME refreshed' PROVE /\ \A q \in Requests : ~ Flying(op'[q])
                                       /\ \A l \in DOMAIN row'.loaders :
                                             /\ row'.status = "UPSERTED"
                                             /\ Clean(row', suspect', l)
                                             /\ Vouched(setup, muddled')
                                                  => Indexed(setup, chunks', vectors', l)
    BY DEF Done
  <2>1. Pending(setup.kind[r], op[r]) BY <1>2 DEF Pending, Kind
  <2>2. \A q \in Requests : q # r => ~ Flying(op[q])
    BY <1>2, <1>3 DEF OrphanInv, Serial
  <2>3. ~ Flying(x) BY <1>3 DEF Flying
  <2> QED BY <1>5, <2>1, <2>2, <2>3
<1> QED BY <1>6, <1>7 DEF RepairInv

LEMMA NoItemRepairs ==
    ASSUME StoreInv, OrphanInv, TotalsInv, RepairInv, NEW r \in Requests, NoItem(r)
    PROVE  RepairInv'
<1>1. /\ op[r].pc = "item" /\ op[r].left = {} /\ Complete(r)
      /\ UNCHANGED <<setup, row, chunks, vectors, suspect>>
  BY DEF NoItem, At
<1>2. Pending(setup.kind[r], op[r]) => DOMAIN row.loaders = {}
  BY <1>1, PendingElim DEF Repairs
<1>3. Pending(setup.kind[r], op[r]) => DOMAIN row'.loaders = {} BY <1>1, <1>2
<1> QED BY <1>1, <1>3, CompleteRepairs

LEMMA FinishUpsertRepairs ==
    ASSUME StoreInv, OrphanInv, TotalsInv, RepairInv, NEW r \in Requests, FinishUpsert(r)
    PROVE  RepairInv'
<1>1. /\ op[r].pc = "finishing" /\ row' = [op[r].copy EXCEPT !.status = "UPSERTED"]
      /\ UNCHANGED <<setup, chunks, vectors, index, suspect>>
  BY DEF FinishUpsert, At
<1>2. op[r] \in Op /\ op[r].copy \in Rows BY OpType DEF Op
<1>3. row'.loaders = op[r].copy.loaders /\ row'.status = "UPSERTED" BY <1>1, <1>2, RowElim
<1>4. UNCHANGED <<session, muddled>> BY <1>1 DEF index
<1>5. ASSUME Pending(setup.kind[r], op[r])
      PROVE  /\ row'.loaders = row.loaders /\ DOMAIN row'.loaders = op[r].items
             /\ op[r].left \subseteq op[r].items
             /\ \A l \in op[r].items \ op[r].left :
                   /\ Clean(row', suspect', l)
                   /\ Vouched(setup, muddled) => Indexed(setup, chunks, vectors, l)
  <2>1. row'.loaders = row.loaders BY <1>1, <1>3, <1>5, PendingElim DEF CopyPhases
  <2>2. /\ Repairs(op[r], row, suspect)
        /\ Vouched(setup, muddled) => Covers(setup, op[r], session[r], chunks, vectors)
    BY <1>5, PendingElim
  <2>3. /\ DOMAIN row.loaders = op[r].items /\ op[r].left \subseteq op[r].items
        /\ \A l \in op[r].items \ op[r].left : Clean(row, suspect, l)
    BY <1>1, <2>2 DEF Repairs, LatePhases
  <2>4. \A l \in op[r].items \ op[r].left :
           Vouched(setup, muddled) => Indexed(setup, chunks, vectors, l)
    BY <1>1, <2>2 DEF Covers
  <2>5. \A l : Clean(row, suspect, l) => Clean(row', suspect', l)
    BY <1>1, <2>1 DEF Clean, Listed
  <2> QED BY <2>1, <2>3, <2>4, <2>5
<1>6. CASE op[r].left = {}
  <2>1. Complete(r) BY <1>6 DEF FinishUpsert
  <2>2. Pending(setup.kind[r], op[r]) =>
           \A l \in DOMAIN row'.loaders :
              /\ row'.status = "UPSERTED" /\ Clean(row', suspect', l)
              /\ Vouched(setup, muddled) => Indexed(setup, chunks, vectors, l)
    BY <1>3, <1>5, <1>6
  <2> QED BY <1>1, <1>4, <2>1, <2>2, CompleteRepairs
<1>7. CASE op[r].left # {}
  <2> DEFINE x == [op[r] EXCEPT !.pc = "item", !.copy = Gone, !.docs = {}]
  <2>1. op' = [op EXCEPT ![r] = x] /\ refreshed' = refreshed BY <1>7 DEF FinishUpsert
  <2>2. /\ x.pc = "item" /\ x.alone = op[r].alone /\ x.left = op[r].left
        /\ x.items = op[r].items
    BY <1>2 DEF Op
  <2> HIDE DEF x
  <2>3. ASSUME Pending(setup.kind[r], x)
        PROVE  /\ x.pc \in RefreshPhases /\ Repairs(x, row', suspect')
               /\ Vouched(setup, muddled) => Covers(setup, x, session[r], chunks, vectors)
    <3>1. Pending(setup.kind[r], op[r]) BY <1>1, <2>2, <2>3 DEF Pending
    <3>2. Repairs(x, row', suspect')
      BY <1>5, <1>7, <2>2, <3>1 DEF Repairs, LatePhases, IndexPhases
    <3>3. Vouched(setup, muddled) => Covers(setup, x, session[r], chunks, vectors)
      BY <1>5, <2>2, <3>1 DEF Covers, IndexPhases
    <3> QED BY <2>2, <3>2, <3>3 DEF RefreshPhases
  <2>4. Flying(op[r]) BY <1>1 DEF Flying
  <2> QED BY <1>1, <1>4, <2>1, <2>2, <2>3, <2>4, OneRepairs
<1> QED BY <1>6, <1>7

\* Requests that are no refreshes.
LEMMA ElseRepair ==
    ASSUME StoreInv, OrphanInv, TotalsInv, RepairInv, NEW r \in Requests,
           \/ Clear(r) \/ Unlist(r) \/ FindChunk(r) \/ ChangeChunk(r) \/ SaveTotals(r)
           \/ EraseChunks(r) \/ RemoveRow(r) \/ Touch(r)
           \/ Forget(r) /\ Kind(r) = "unindex"
    PROVE  RepairInv'
<1>1. CASE Clear(r)
  BY <1>1, ElseRepairs
     DEF Clear, At, history, RefreshPhases, LatePhases, IndexPhases, Processing
<1>2. CASE ChangeChunk(r)
  BY <1>2, ElseRepairs
     DEF ChangeChunk, At, history, RefreshPhases, LatePhases, IndexPhases, Processing
<1>3. CASE EraseChunks(r)
  BY <1>3, ElseRepairs
     DEF EraseChunks, At, history, RefreshPhases, LatePhases, IndexPhases, Processing
<1>4. CASE \/ Unlist(r) \/ SaveTotals(r) \/ RemoveRow(r) \/ Touch(r)
           \/ Forget(r) /\ Kind(r) = "unindex"
  <2>1. /\ op[r].pc \in {"unlisting", "counting", "removing", "touching", "forgetting"}
        /\ EndsAs(r, "done") /\ UNCHANGED <<setup, refreshed>>
    BY <1>4 DEF Unlist, SaveTotals, RemoveRow, Touch, Forget, At, history
  <2>2. Flying(op[r]) BY <2>1 DEF Flying
  <2> QED BY <2>1, <2>2, EndRepairs
<1>5. CASE FindChunk(r)
  <2> DEFINE found == {c \in chunks : \E d \in op[r].docs : Same(c, d)}
  <2>1. op[r].pc = "seeking" /\ UNCHANGED <<setup, refreshed>>
    BY <1>5 DEF FindChunk, At, history
  <2>2. Flying(op[r]) BY <2>1 DEF Flying
  <2>3. CASE EndsAs(r, "failed") BY <2>1, <2>2, <2>3, EndRepairs
  <2>4. CASE op' = [op EXCEPT ![r].pc = "changing", ![r].docs = found]
    <3> DEFINE x == [op[r] EXCEPT !.pc = "changing", !.docs = found]
    <3>1. op' = [op EXCEPT ![r] = x] BY <2>4
    <3> HIDE DEF found
    <3>2. x.alone = op[r].alone BY OpType DEF Op
    <3> HIDE DEF x
    <3>3. op[r].pc \notin RefreshPhases \cup {"idle", "done", "failed"}
      BY <2>1 DEF PlainPhases, RefreshPhases, LatePhases, IndexPhases, Processing
    <3> QED BY <2>1, <2>2, <3>1, <3>2, <3>3, OtherRepairs
  <2> QED BY <1>5, <2>3, <2>4 DEF FindChunk
<1> QED BY <1>1, <1>2, <1>3, <1>4, <1>5

LEMMA NotFoundRepairs ==
    ASSUME StoreInv, OrphanInv, RepairInv, NEW r \in Requests, NotFound(r)
    PROVE  RepairInv'
<1>1. Flying(op[r]) /\ EndsAs(r, "failed") /\ UNCHANGED <<setup, refreshed>>
  BY DEF NotFound, history, Flying
<1> QED BY <1>1, EndRepairs


LEMMA ThrowRepairs ==
    ASSUME StoreInv, OrphanInv, RepairInv, NEW r \in Requests, Throw(r)
    PROVE  RepairInv'
<1>1. op[r].pc \notin {"idle", "done", "failed"} /\ UNCHANGED <<setup, refreshed>>
  BY DEF Throw
<1>2. op[r] \in Op /\ Flying(op[r]) BY <1>1, OpType DEF Flying
<1>3. CASE op[r].pending = {}
  <2>1. EndsAs(r, "failed") BY <1>3 DEF Throw
  <2> QED BY <1>1, <1>2, <2>1, EndRepairs
<1>4. CASE op[r].pending # {}
  <2>1. PICK c \in op[r].pending :
          op' = [op EXCEPT ![r] = [Over(op[r], "failed") EXCEPT
                                      !.pending = Over(op[r], "failed").pending \ {c}]]
    BY <1>4 DEF Throw
  <2> DEFINE o == Over(op[r], "failed")
             x == [o EXCEPT !.pending = o.pending \ {c}]
  <2>2. op' = [op EXCEPT ![r] = x] BY <2>1
  <2>3. o \in Op /\ o.pc = "failed" /\ o.alone = op[r].alone
    BY <1>2, OverType, OverFields
  <2> HIDE DEF o
  <2>4. x.pc = "failed" /\ x.alone = op[r].alone BY <2>3 DEF Op
  <2> HIDE DEF x
  <2> QED BY <1>1, <1>2, <2>2, <2>4, OtherRepairs
<1> QED BY <1>3, <1>4

\* The refresh is taken again: all its loaders are to come.
LEMMA WorkerDiesRepairs ==
    ASSUME StoreInv, OrphanInv, TotalsInv, RepairInv, WorkerDies
    PROVE  RepairInv'
<1> DEFINE next(q) == IF InJob(q) THEN Restarted(q) ELSE [op[q] EXCEPT !.pending = {}]
<1>1. /\ op' = [q \in Requests |-> next(q)]
      /\ UNCHANGED <<setup, row, chunks, vectors, suspect, refreshed>>
  BY DEF WorkerDies, history
<1>2. setup.queue /\ \E q \in Requests : Flying(op[q]) BY DEF WorkerDies, InJob, Flying
<1>3. Done' BY <1>1, <1>2 DEF RepairInv, Done
<1>4. ASSUME NEW q \in Requests, Pending(setup.kind[q], next(q))
      PROVE  /\ next(q).pc \in RefreshPhases
             /\ Repairs(next(q), row, suspect)
             /\ Covers(setup, next(q), session'[q], chunks, vectors)
  <2>1. Kind(q) = "refresh" BY <1>4 DEF Pending, Kind
  <2>2. CASE InJob(q)
    <3> DEFINE x == Restarted(q)
    <3>1. /\ x.pc = "item" /\ x.items = op[q].items /\ x.left = op[q].items
          /\ x.alone = op[q].alone
      BY <2>1, RestType DEF Restarted, Op, UploadKinds, UpsertKinds
    <3> HIDE DEF x
    <3>2. next(q) = x BY <2>2 DEF x
    <3> HIDE DEF next
    <3>3. Pending(setup.kind[q], op[q]) BY <1>4, <2>2, <3>1, <3>2 DEF Pending, InJob
    <3>4. DOMAIN row.loaders = op[q].items BY <3>3, PendingElim DEF Repairs
    <3>5. Covers(setup, x, session'[q], chunks, vectors) BY <3>1 DEF Covers, IndexPhases
    <3> QED BY <3>1, <3>2, <3>4, <3>5 DEF Repairs, RefreshPhases, LatePhases, IndexPhases
  <2>3. CASE ~ InJob(q)
    <3>1. next(q) = [op[q] EXCEPT !.pending = {}] BY <2>3
    <3> HIDE DEF next
    <3>2. next(q).pc = op[q].pc BY <3>1, OpType DEF Op
    <3>3. op[q].pc \notin {"idle", "done", "failed"} BY <1>4, <3>2 DEF Pending
    <3> QED BY <1>2, <2>1, <2>3, <3>3 DEF InJob, UpsertKinds
  <2> QED BY <2>2, <2>3
<1> HIDE DEF next
<1>5. \A q \in Requests : op'[q] = next(q) BY <1>1
<1>6. Repairing' BY <1>1, <1>4, <1>5 DEF Repairing
<1> QED BY <1>3, <1>6 DEF RepairInv

LEMMA ServerDiesRepairs ==
    ASSUME StoreInv, OrphanInv, TotalsInv, RepairInv, ServerDies
    PROVE  RepairInv'
<1> DEFINE lost == {q \in Requests : op[q].pc \notin {"idle", "done", "failed"} /\ ~InJob(q)}
           o(q) == IF q \in lost THEN Over(op[q], "failed") ELSE op[q]
           next(q) == IF setup.queue THEN o(q) ELSE [o(q) EXCEPT !.pending = {}]
<1>1. /\ op' = [q \in Requests |-> next(q)]
      /\ UNCHANGED <<setup, row, chunks, vectors, refreshed>>
      /\ lost # {}
  BY DEF ServerDies
<1>2. PICK r \in lost : r \in Requests /\ Flying(op[r]) BY <1>1 DEF Flying
<1>3. Done' BY <1>1, <1>2 DEF RepairInv, Done
<1>4. ASSUME NEW q \in Requests
      PROVE  /\ next(q).alone = op[q].alone
             /\ next(q).pc = IF q \in lost THEN "failed" ELSE op[q].pc
  <2>1. /\ o(q) \in Op /\ o(q).alone = op[q].alone
        /\ o(q).pc = IF q \in lost THEN "failed" ELSE op[q].pc
    <3>1. CASE q \in lost
      <4>1. o(q) = Over(op[q], "failed") BY <3>1
      <4> HIDE DEF o
      <4> QED BY <3>1, <4>1, OpType, OverType, OverFields
    <3>2. CASE q \notin lost BY <3>2, OpType
    <3> QED BY <3>1, <3>2
  <2> HIDE DEF o, lost
  <2>2. CASE setup.queue BY <2>1, <2>2
  <2>3. CASE ~ setup.queue
    <3>1. next(q) = [o(q) EXCEPT !.pending = {}] BY <2>3
    <3> HIDE DEF next
    <3> QED BY <2>1, <3>1 DEF Op
  <2> QED BY <2>2, <2>3
<1>5. ASSUME NEW q \in Requests, Pending(setup.kind[q], next(q)) PROVE FALSE
  <2>1. q \notin lost /\ op[q].alone /\ Flying(op[q])
    BY <1>4, <1>5 DEF Pending, Flying
  <2>2. q # r BY <1>2, <2>1
  <2> QED BY <1>2, <2>1, <2>2 DEF OrphanInv, Serial
<1> HIDE DEF next
<1>6. \A q \in Requests : op'[q] = next(q) BY <1>1
<1>7. Repairing' BY <1>1, <1>5, <1>6 DEF Repairing
<1> QED BY <1>3, <1>7 DEF RepairInv

\* A refresh has all loaders to come.
LEMMA EnterRepairs ==
    ASSUME StoreInv, OrphanInv, RepairInv, NEW r \in Requests, NEW start \in Op,
           Enter(r, start),
           Kind(r) = "refresh" => /\ start.pc = "item" /\ start.items = DOMAIN row.loaders
                                  /\ start.left = start.items
    PROVE  RepairInv'
<1> DEFINE others == {q \in Requests : InFlight(q)}
           next(q) == IF q = r THEN [start EXCEPT !.alone = (others = {})]
                      ELSE IF q \in others THEN [op[q] EXCEPT !.alone = FALSE] ELSE op[q]
<1>1. /\ op' = [q \in Requests |-> next(q)] /\ UNCHANGED <<setup, row, chunks, vectors, session>>
      /\ refreshed' = FALSE
  BY DEF Enter
<1>2. \A q \in Requests : q \in others <=> Flying(op[q]) BY FlyingInFlight
<1>3. (others = {}) \in BOOLEAN OBVIOUS
<1>4. next(r) = [start EXCEPT !.alone = (others = {})] OBVIOUS
<1>5. \A q \in Requests \ {r} : IF q \in others THEN next(q) = [op[q] EXCEPT !.alone = FALSE]
                                ELSE next(q) = op[q]
  OBVIOUS
<1>6. \A q \in Requests : op'[q] = next(q) BY <1>1
<1> HIDE DEF next, others
<1>7. ASSUME NEW q \in Requests, Pending(setup.kind[q], next(q))
      PROVE  /\ next(q).pc \in RefreshPhases
             /\ Repairs(next(q), row, suspect')
             /\ Vouched(setup, muddled') => Covers(setup, next(q), session[q], chunks, vectors)
  <2>1. CASE q = r
    <3>1. Kind(r) = "refresh" BY <1>7, <2>1 DEF Pending, Kind
    <3>2. /\ next(r).pc = "item" /\ next(r).items = DOMAIN row.loaders
          /\ next(r).left = DOMAIN row.loaders
      BY <1>3, <1>4, <3>1 DEF Op
    <3> QED BY <2>1, <3>2 DEF Repairs, Covers, RefreshPhases, LatePhases, IndexPhases
  <2>2. CASE q # r
    <3>1. q \notin others
      <4>1. q \in others => next(q).alone = FALSE BY <1>5, <2>2, OpType DEF Op
      <4> QED BY <1>7, <4>1 DEF Pending
    <3>2. next(q) = op[q] BY <1>5, <2>2, <3>1
    <3> QED BY <1>2, <1>7, <3>1, <3>2 DEF Pending, Flying
  <2> QED BY <2>1, <2>2
<1>8. Repairing' BY <1>1, <1>6, <1>7 DEF Repairing
<1>9. Done' BY <1>1 DEF Done
<1> QED BY <1>8, <1>9 DEF RepairInv

LEMMA BeginRepairs ==
    ASSUME StoreInv, OrphanInv, RepairInv, NEW r \in Requests, Begin(r)
    PROVE  RepairInv'
BY BeginsEnter, EnterRepairs

LEMMA InitRepairs == Init => RepairInv
<1> SUFFICES ASSUME Init PROVE RepairInv OBVIOUS
<1>1. \A r \in Requests : op[r] = Rest BY DEF Init
<1>2. \A k : ~ Pending(k, Rest) BY DEF Pending, Rest
<1>3. ~ refreshed BY DEF Init
<1> QED BY <1>1, <1>2, <1>3 DEF RepairInv, Repairing, Done

LEMMA NextRepairs ==
    StoreInv /\ IndexTypeOK /\ OrphanInv /\ TotalsInv /\ TrackInv /\ RepairInv /\ [Next]_vars
       => RepairInv'
<1> SUFFICES ASSUME StoreInv, IndexTypeOK, OrphanInv, TotalsInv, TrackInv, RepairInv, [Next]_vars
             PROVE  RepairInv'
  OBVIOUS
<1>1. ASSUME NEW r \in Requests, Begin(r) PROVE RepairInv' BY <1>1, BeginRepairs
<1>2. ASSUME NEW r \in Requests, Step(r) PROVE RepairInv'
  BY <1>2, MarkRepairs, FindRepairs, SplitRepairs, InsertChunkRepairs, FinishProcessingRepairs,
     ReportRepairs, NoItemRepairs, TakeItemRepairs, FindToMarkRepairs, SaveConfigRepairs,
     IndexingRepairs, FinishUpsertRepairs, ElseRepair, NotFoundRepairs
     DEF Step, Indexing
<1>3. ASSUME NEW r \in Requests, Throw(r) PROVE RepairInv' BY <1>3, ThrowRepairs
<1>4. CASE WorkerDies BY <1>4, WorkerDiesRepairs
<1>5. CASE ServerDies BY <1>5, ServerDiesRepairs
<1>6. CASE UNCHANGED vars BY <1>6 DEF vars, index, RepairInv, Repairing, Done
<1> QED BY <1>1, <1>2, <1>3, <1>4, <1>5, <1>6 DEF Next

\* A refresh that ran alone to its end leaves every loader SYNC with the right
\* totals, whatever failed, died or overlapped before it, and however often its worker
\* died; and its chunks in the vector store, if indexing a loader cleans up nothing of
\* the others and no overlap or cut has left keys on record that are not there: what it
\* skips is there already, and what it cleans up are stale chunks of the same loader.
THEOREM RefreshRepairsHolds == Spec => []RefreshRepairs
<1>1. StoreInv /\ TotalsInv /\ RepairInv => RefreshRepairs
  <2> SUFFICES ASSUME StoreInv, TotalsInv, RepairInv, refreshed, NEW l \in DOMAIN row.loaders
               PROVE  /\ row.status = "UPSERTED"
                      /\ row.loaders[l].status = "SYNC"
                      /\ row.loaders[l].total = Cardinality(ChunksOf(l))
                      /\ KeepsOthers /\ (Managed => ~muddled) => Keys(ChunksOf(l)) \subseteq vectors
    BY DEF RefreshRepairs
  <2>1. l \in Loaders BY OpType, StillTyped, RowElim
  <2>2. /\ row.status = "UPSERTED" /\ Clean(row, suspect, l)
        /\ Vouched(setup, muddled) => Indexed(setup, chunks, vectors, l)
        /\ \A r \in Requests : ~ Flying(op[r])
    BY DEF RepairInv, Done
  <2>3. Right(row, chunks, suspect, l) BY <2>1, <2>2 DEF TotalsInv, AllRight
  <2>4. Keys(ChunksOf(l)) = KeysOf(setup, chunks, l) BY KeysAre DEF ChunksOf, RowsOf
  <2>5. KeepsOthers /\ (Managed => ~muddled) => Keys(ChunksOf(l)) \subseteq vectors
    BY <2>2, <2>4, KeysAre DEF Indexed
  <2> QED BY <2>2, <2>3, <2>5 DEF Right, Clean, Counts, RowsOf, ChunksOf
<1>2. Init => StoreInv /\ IndexTypeOK /\ OrphanInv /\ TotalsInv /\ TrackInv /\ RepairInv
  BY InitTyped, InitIndexTyped, InitKept, InitTotals, InitTracks, InitRepairs
<1>3. StoreInv /\ IndexTypeOK /\ OrphanInv /\ TotalsInv /\ TrackInv /\ RepairInv /\ [Next]_vars
         => (StoreInv /\ IndexTypeOK /\ OrphanInv /\ TotalsInv /\ TrackInv /\ RepairInv)'
  BY NextTyped, NextIndexTyped, NextKept, NextTotals, NextTracks, NextRepairs
<1> QED BY <1>1, <1>2, <1>3, PTL DEF Spec
==============================================================================
