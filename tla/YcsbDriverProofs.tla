-------------------------- MODULE YcsbDriverProofs --------------------------
(***************************************************************************)
(* Proofs about the benchmark driver for any number of threads, records    *)
(* and CPUs: the records are shared out to the threads once each, and the  *)
(* CPUs are chosen one NUMA node after the other.                          *)
(***************************************************************************)
EXTENDS YcsbDriver, FiniteSetTheorems, TLAPS

-----------------------------------------------------------------------------
(* Arithmetic.                                                             *)

LEMMA Division ==
    ASSUME NEW s \in Nat, NEW n \in Nat \ {0}
    PROVE  /\ s \div n \in Nat
           /\ n * (s \div n) <= s /\ s < n * (s \div n) + n
  OBVIOUS

LEMMA ProductsGrow ==
    ASSUME NEW n \in Nat, NEW a \in Nat, NEW b \in Nat, a <= b
    PROVE  n * a <= n * b
  OBVIOUS

LEMMA Digits ==
    ASSUME NEW n \in Nat \ {0}, NEW a \in Nat, NEW c \in Nat, NEW b \in 0 .. n - 1, NEW d \in 0 .. n - 1,
           a * n + b = c * n + d
    PROVE  a = c /\ b = d
  OBVIOUS

Number(n, m, a, b, c) == (a * m + b) * n + c

LEMMA ThreeDigits ==
    ASSUME NEW n, NEW m, NEW a, NEW b, NEW c, NEW d, NEW e, NEW f,
           {n, m} \subseteq Nat \ {0}, {a, d} \subseteq Nat,
           {b, e} \subseteq 0 .. m - 1, {c, f} \subseteq 0 .. n - 1,
           Number(n, m, a, b, c) = Number(n, m, d, e, f)
    PROVE  a = d /\ b = e /\ c = f
  <1>1. a * m + b \in Nat /\ d * m + e \in Nat
    OBVIOUS
  <1>2. ASSUME NEW x \in Nat, NEW y \in Nat, x * n + c = y * n + f
        PROVE  x = y /\ c = f
    <2>1. c \in 0 .. n - 1 /\ f \in 0 .. n - 1 /\ n \in Nat \ {0}
      OBVIOUS
    <2> QED  BY <1>2, <2>1
  <1>3. a * m + b = d * m + e /\ c = f
    BY <1>1, <1>2 DEF Number
  <1>4. a = d /\ b = e
    BY <1>3, Digits
  <1> QED  BY <1>3, <1>4

LEMMA NextDigit ==
    ASSUME NEW n \in Nat \ {0}, NEW d \in 0 .. n - 1
    PROVE  (d + 1) % n = IF d + 1 = n THEN 0 ELSE d + 1
  OBVIOUS

-----------------------------------------------------------------------------
(* The invariant.                                                          *)

(* The CPUs in the order in which they are chosen. *)
Places == [sock : 0 .. NUM_SOCKET - 1, smt : 0 .. SMT_LEVEL - 1,
           phy : 0 .. NUM_PHYSICAL_CPU_PER_SOCKET - 1]
Rank(c) == NUM_PHYSICAL_CPU_PER_SOCKET * (SMT_LEVEL * c.sock + c.smt) + c.phy
Cpu(c) == OS_CPU_ID(c.sock, c.phy, c.smt)
Total == NUM_SOCKET * NUM_PHYSICAL_CPU_PER_SOCKET * SMT_LEVEL

CpuInv ==
    /\ curr \in Places /\ n_cpus \in 0 .. num_thread
    /\ phase = "cpus" <=> n_cpus < num_thread
    /\ cpu_set = {Cpu(c) : c \in {d \in Places : Rank(d) < n_cpus}}
    /\ Cardinality(cpu_set) = n_cpus
    /\ n_cpus < Total => Rank(curr) = n_cpus

(* The threads that have taken a number. *)
Started == {t \in Threads : thread_id[t] # Unset}

(* The numbers taken are those below next_thread_id, once each. *)
IdInv ==
    /\ phase \in {"cpus", "files", "load", "run", "end", "failed"}
    /\ phase \notin {"load", "run"} => Started = {}
    /\ thread_id \in [Threads -> Nat \union {Unset}]
    /\ next_thread_id = Cardinality(Started)
    /\ \A t \in Started : thread_id[t] < next_thread_id
    /\ \A t, u \in Started : thread_id[t] = thread_id[u] => t = u
    /\ \A id \in 0 .. next_thread_id - 1 : \E t \in Started : thread_id[t] = id

(* One thread is pinned, to all chosen CPUs together. *)
AffinityInv ==
    affinity = [t \in Threads |-> IF thread_id[t] = 0 THEN cpu_set ELSE AllCpus]

(* A thread is inside its share, and calls what its record says. *)
LoopInv(t) ==
    /\ thread_id[t] = Unset => op[t] = NoOp /\ index[t] = 0
    /\ thread_id[t] # Unset =>
           index[t] \in start_key(thread_id[t]) .. end_key(thread_id[t])
    /\ op[t] # NoOp =>
           index[t] < end_key(thread_id[t]) /\ op[t] \in Ops /\ op[t] = Request(index[t])
    /\ op[t] = NoOp => answer[t] = Pending
    /\ op[t] # NoOp => \/ answer[t] = Pending
                       \/ op[t].kind = "insert" /\ answer[t] = TRUE
                       \/ op[t].kind = "lookup" /\ answer[t] \in Vals \union {NotFound}

DriverInv ==
    /\ txns \in Txns /\ table \in [Keys -> Seq(Keys)]
    /\ op \in [Threads -> Ops \union {NoOp}]
    /\ index \in [Threads -> Nat]
    /\ answer \in [Threads -> Vals \union {TRUE, NotFound, Pending}]
    /\ \A t \in Threads : LoopInv(t)

(* The records of the phase for which the call has taken effect. *)
Handles(t, i) ==
    /\ start_key(thread_id[t]) <= i
    /\ i < index[t] \/ (i = index[t] /\ op[t] # NoOp /\ answer[t] # Pending)

Done == {i \in Handled(Size) : \E t \in Started : Handles(t, i)}

(* Of these, the inserts of key k. *)
Taken(k) == {i \in Done : Request(i).kind = "insert" /\ Request(i).key = k}

(* How many values key k has from the phases before. *)
Earlier(k) ==
    CASE phase = "run" -> Cardinality(Loaded(k))
      [] phase = "end" -> Cardinality(Loaded(k)) + Cardinality(Inserted(k))
      [] OTHER -> 0

(* A key has one value for each insert that has taken effect, and its       *)
(* values are the key.                                                      *)
RecordInv ==
    /\ \A k \in Keys :
           /\ \A j \in 1 .. Len(table[k]) : table[k][j] = k
           /\ Len(table[k]) = Earlier(k) + Cardinality(Taken(k))
    /\ LoadedKeysAreFound

-----------------------------------------------------------------------------
(* The CPUs.                                                               *)

LEMMA SizesArePositive ==
    /\ NUM_SOCKET \in Nat \ {0} /\ NUM_PHYSICAL_CPU_PER_SOCKET \in Nat \ {0}
    /\ SMT_LEVEL \in Nat \ {0} /\ num_thread \in Nat \ {0} /\ num_thread <= Total
  <1>1. num_thread \in Nat /\ (num_thread = 0 <=> Threads = {})
    BY YcsbAssumption, FS_CardinalityType, FS_EmptySet DEF num_thread
  <1>2. num_thread <= Total
    BY YcsbAssumption DEF num_thread, Total
  <1> QED  BY <1>1, <1>2, YcsbAssumption

(* A CPU's number tells its place. *)
LEMMA CpuTellsPlace ==
    ASSUME NEW c \in Places, NEW d \in Places, Cpu(c) = Cpu(d)
    PROVE  c = d
  <1> DEFINE N == NUM_SOCKET
             P == NUM_PHYSICAL_CPU_PER_SOCKET
             S == SMT_LEVEL
  <1>1. N \in Nat \ {0} /\ P \in Nat \ {0} /\ S \in Nat \ {0}
    BY SizesArePositive
  <1>2. /\ c.sock \in 0 .. N - 1 /\ c.phy \in 0 .. P - 1 /\ c.smt \in 0 .. S - 1
        /\ d.sock \in 0 .. N - 1 /\ d.phy \in 0 .. P - 1 /\ d.smt \in 0 .. S - 1
        /\ {c.sock, c.smt, d.sock, d.smt} \subseteq Nat
    BY <1>1 DEF Places
  <1>3. Number(P, N, c.smt, c.sock, c.phy) = Number(P, N, d.smt, d.sock, d.phy)
    BY DEF Cpu, OS_CPU_ID, Number
  <1> HIDE DEF N, P, S
  <1>4. c.smt = d.smt /\ c.sock = d.sock /\ c.phy = d.phy
    BY <1>1, <1>2, <1>3, ThreeDigits
  <1>5. c = [sock |-> c.sock, smt |-> c.smt, phy |-> c.phy]
    BY DEF Places
  <1>6. d = [sock |-> d.sock, smt |-> d.smt, phy |-> d.phy]
    BY DEF Places
  <1> QED  BY <1>4, <1>5, <1>6

LEMMA RankTellsPlace ==
    ASSUME NEW c \in Places, NEW d \in Places, Rank(c) = Rank(d)
    PROVE  c = d
  <1> DEFINE N == NUM_SOCKET
             P == NUM_PHYSICAL_CPU_PER_SOCKET
             S == SMT_LEVEL
  <1>1. N \in Nat \ {0} /\ P \in Nat \ {0} /\ S \in Nat \ {0}
    BY SizesArePositive
  <1>2. /\ c.sock \in 0 .. N - 1 /\ c.phy \in 0 .. P - 1 /\ c.smt \in 0 .. S - 1
        /\ d.sock \in 0 .. N - 1 /\ d.phy \in 0 .. P - 1 /\ d.smt \in 0 .. S - 1
        /\ {c.sock, c.smt, d.sock, d.smt} \subseteq Nat
    BY <1>1 DEF Places
  <1>3. Number(P, S, c.sock, c.smt, c.phy) = Number(P, S, d.sock, d.smt, d.phy)
    BY <1>1, <1>2 DEF Rank, Number
  <1> HIDE DEF N, P, S
  <1>4. c.sock = d.sock /\ c.smt = d.smt /\ c.phy = d.phy
    BY <1>1, <1>2, <1>3, ThreeDigits
  <1>5. c = [sock |-> c.sock, smt |-> c.smt, phy |-> c.phy]
    BY DEF Places
  <1>6. d = [sock |-> d.sock, smt |-> d.smt, phy |-> d.phy]
    BY DEF Places
  <1> QED  BY <1>4, <1>5, <1>6

LEMMA RankType ==
    ASSUME NEW c \in Places
    PROVE  Rank(c) \in Nat
  <1>1. /\ NUM_PHYSICAL_CPU_PER_SOCKET \in Nat /\ SMT_LEVEL \in Nat
        /\ c.sock \in Nat /\ c.smt \in Nat /\ c.phy \in Nat
    BY SizesArePositive DEF Places
  <1> QED  BY <1>1 DEF Rank

(* The carries of NextCpu, with the digits as plain numbers. *)
LEMMA Carry ==
    ASSUME NEW N \in Nat \ {0}, NEW P \in Nat \ {0}, NEW S \in Nat \ {0},
           NEW sock \in 0 .. N - 1, NEW smt \in 0 .. S - 1
    PROVE  /\ smt + 1 < S => P * (S * sock + (smt + 1)) + 0 = P * (S * sock + smt) + (P - 1) + 1
           /\ smt + 1 = S => P * (S * (sock + 1) + 0) + 0 = P * (S * sock + smt) + (P - 1) + 1
           /\ smt + 1 = S /\ sock + 1 = N => P * (S * sock + smt) + (P - 1) + 1 = N * P * S
  <1>1. ASSUME NEW x \in Nat PROVE P * (x + 1) = P * x + P
    OBVIOUS
  <1>2. S * sock + smt \in Nat
    OBVIOUS
  <1>3. P * ((S * sock + smt) + 1) = P * (S * sock + smt) + P
    BY <1>1, <1>2
  <1>4. smt + 1 = S => S * (sock + 1) = (S * sock + smt) + 1
    OBVIOUS
  <1>5. sock + 1 = N => P * (S * (sock + 1)) = N * P * S
    OBVIOUS
  <1>6. S * (sock + 1) \in Nat /\ S * sock \in Nat
    OBVIOUS
  <1> QED  BY <1>2, <1>3, <1>4, <1>5, <1>6

LEMMA NextCpuType ==
    ASSUME curr \in Places
    PROVE  NextCpu \in Places
  <1>1. \A n \in Nat \ {0}, x \in Nat : x % n \in 0 .. n - 1
    OBVIOUS
  <1> DEFINE N == NUM_SOCKET
             P == NUM_PHYSICAL_CPU_PER_SOCKET
             S == SMT_LEVEL
             phy == (curr.phy + 1) % P
             smt == IF phy = 0 THEN (curr.smt + 1) % S ELSE curr.smt
             sock == IF phy = 0 /\ smt = 0 THEN (curr.sock + 1) % N ELSE curr.sock
  <1>2. N \in Nat \ {0} /\ P \in Nat \ {0} /\ S \in Nat \ {0}
    BY SizesArePositive
  <1>3. curr.sock \in 0 .. N - 1 /\ curr.phy \in 0 .. P - 1 /\ curr.smt \in 0 .. S - 1
    BY DEF Places
  <1>4. NextCpu = [sock |-> sock, phy |-> phy, smt |-> smt]
    BY DEF NextCpu
  <1> HIDE DEF N, P, S
  <1>5. {curr.sock + 1, curr.phy + 1, curr.smt + 1} \subseteq Nat
    BY <1>2, <1>3
  <1>6. phy \in 0 .. P - 1 /\ smt \in 0 .. S - 1 /\ sock \in 0 .. N - 1
    BY <1>1, <1>2, <1>3, <1>5
  <1> HIDE DEF phy, smt, sock
  <1> QED  BY <1>4, <1>6 DEF Places, N, P, S

(* The next CPU is the one of the next rank. *)
LEMMA NextCpuRank ==
    ASSUME curr \in Places, Rank(curr) + 1 < Total
    PROVE  NextCpu \in Places /\ Rank(NextCpu) = Rank(curr) + 1
  <1> DEFINE N == NUM_SOCKET
             P == NUM_PHYSICAL_CPU_PER_SOCKET
             S == SMT_LEVEL
             phy == (curr.phy + 1) % P
             smt == IF phy = 0 THEN (curr.smt + 1) % S ELSE curr.smt
             sock == IF phy = 0 /\ smt = 0 THEN (curr.sock + 1) % N ELSE curr.sock
  <1>1. N \in Nat \ {0} /\ P \in Nat \ {0} /\ S \in Nat \ {0}
    BY SizesArePositive
  <1>2. curr.sock \in 0 .. N - 1 /\ curr.phy \in 0 .. P - 1 /\ curr.smt \in 0 .. S - 1
    BY DEF Places
  <1>3. NextCpu = [sock |-> sock, phy |-> phy, smt |-> smt]
    BY DEF NextCpu
  <1>4. phy = (IF curr.phy + 1 = P THEN 0 ELSE curr.phy + 1)
    <2> HIDE DEF P
    <2> QED  BY <1>1, <1>2, NextDigit
  <1>5. smt = (IF phy = 0 THEN (IF curr.smt + 1 = S THEN 0 ELSE curr.smt + 1) ELSE curr.smt)
    <2> HIDE DEF S, phy
    <2> QED  BY <1>1, <1>2, NextDigit DEF smt
  <1>6. sock = (IF phy = 0 /\ smt = 0 THEN (IF curr.sock + 1 = N THEN 0 ELSE curr.sock + 1)
                                       ELSE curr.sock)
    <2> HIDE DEF N, phy, smt
    <2> QED  BY <1>1, <1>2, NextDigit DEF sock
  <1> HIDE DEF phy, smt, sock
  <1>7. phy \in 0 .. P - 1 /\ smt \in 0 .. S - 1 /\ sock \in 0 .. N - 1
    <2> HIDE DEF N, P, S
    <2>1. phy \in 0 .. P - 1
      BY <1>1, <1>2, <1>4
    <2>2. smt \in 0 .. S - 1
      BY <1>1, <1>2, <1>5
    <2>3. sock \in 0 .. N - 1
      BY <1>1, <1>2, <1>6
    <2> QED  BY <2>1, <2>2, <2>3
  <1>8. NextCpu \in Places
    BY <1>3, <1>7 DEF Places
  <1>9. /\ Rank(NextCpu) = P * (S * sock + smt) + phy
        /\ Rank(curr) = P * (S * curr.sock + curr.smt) + curr.phy
        /\ Total = N * P * S
    BY <1>3 DEF Rank, Total
  <1> HIDE DEF N, P, S
  <1>10. CASE curr.phy + 1 # P
    <2>1. phy = curr.phy + 1 /\ smt = curr.smt /\ sock = curr.sock
      BY <1>2, <1>4, <1>5, <1>6, <1>10
    <2>2. P * (S * curr.sock + curr.smt) \in Int
      BY <1>1, <1>2
    <2> QED  BY <1>2, <1>8, <1>9, <2>1, <2>2
  <1>11. CASE curr.phy + 1 = P /\ curr.smt + 1 # S
    <2>1. phy = 0 /\ smt = curr.smt + 1 /\ sock = curr.sock /\ curr.phy = P - 1
      BY <1>1, <1>2, <1>4, <1>5, <1>6, <1>11
    <2>2. curr.smt + 1 < S
      BY <1>1, <1>2, <1>11
    <2>3. P * (S * curr.sock + (curr.smt + 1)) + 0 = P * (S * curr.sock + curr.smt) + (P - 1) + 1
      BY <1>1, <1>2, <2>2, Carry
    <2> QED  BY <1>8, <1>9, <2>1, <2>3
  <1>12. CASE curr.phy + 1 = P /\ curr.smt + 1 = S
    <2>1. phy = 0 /\ smt = 0 /\ curr.phy = P - 1
      BY <1>1, <1>2, <1>4, <1>5, <1>12
    <2>2. curr.sock + 1 = N => Rank(curr) + 1 = Total
      BY <1>1, <1>2, <1>9, <1>12, <2>1, Carry
    <2>3. Rank(curr) \in Nat /\ Total \in Nat
      BY <1>1, <1>9, RankType
    <2>4. curr.sock + 1 # N
      BY <2>2, <2>3
    <2>5. sock = curr.sock + 1
      BY <1>6, <2>1, <2>4
    <2> DEFINE a == curr.sock
               b == curr.smt
    <2>6. a \in 0 .. N - 1 /\ b \in 0 .. S - 1 /\ b + 1 = S
      BY <1>2, <1>12
    <2> HIDE DEF a, b
    <2>7. P * (S * (a + 1) + 0) + 0 = P * (S * a + b) + (P - 1) + 1
      BY <1>1, <2>6, Carry
    <2> QED  BY <1>8, <1>9, <2>1, <2>5, <2>7 DEF a, b
  <1> QED  BY <1>10, <1>11, <1>12

(* What is left alone when the CPUs are chosen, and afterwards. *)
LEMMA CpuVarsKept ==
    ASSUME YcsbNext, ~SetCpu
    PROVE  UNCHANGED cpuVars /\ (phase = "cpus" <=> phase' = "cpus")
  <1>1. CASE ReadFiles
    BY <1>1 DEF ReadFiles
  <1>2. CASE JoinAndSpawn
    BY <1>2 DEF JoinAndSpawn
  <1>3. CASE \E t \in Threads : ThreadStep(t)
    BY <1>3 DEF ThreadStep, FetchId, Call, InsideCall, EndCall, driverVars
  <1> QED  BY <1>1, <1>2, <1>3 DEF YcsbNext

LEMMA CpuInvInit ==
    ASSUME YcsbInit
    PROVE  CpuInv
  <1>1. phase = "cpus" /\ curr = [sock |-> 0, phy |-> 0, smt |-> 0] /\ cpu_set = {} /\ n_cpus = 0
    BY DEF YcsbInit
  <1>2. curr \in Places
    BY <1>1, SizesArePositive DEF Places
  <1>3. Rank(curr) = 0
    BY <1>1, SizesArePositive DEF Rank
  <1>4. \A c \in Places : ~(Rank(c) < 0)
    BY RankType
  <1>5. Cardinality(cpu_set) = 0
    BY <1>1, FS_EmptySet
  <1> QED  BY <1>1, <1>2, <1>3, <1>4, <1>5, SizesArePositive DEF CpuInv

LEMMA CpuInvStep ==
    ASSUME CpuInv, SetCpu
    PROVE  CpuInv'
  <1>1. /\ curr \in Places /\ n_cpus \in Nat /\ n_cpus < num_thread /\ num_thread <= Total
        /\ num_thread \in Nat /\ Total \in Nat
    BY SizesArePositive DEF CpuInv, SetCpu, Total
  <1>2. Rank(curr) = n_cpus
    BY <1>1 DEF CpuInv
  <1>3. /\ cpu_set' = cpu_set \union {Cpu(curr)} /\ curr' = NextCpu /\ n_cpus' = n_cpus + 1
        /\ phase' = IF n_cpus' = num_thread THEN "files" ELSE "cpus"
    BY DEF SetCpu, Cpu
  <1> DEFINE Chosen(n) == {c \in Places : Rank(c) < n}
  <1>4. cpu_set = {Cpu(c) : c \in Chosen(n_cpus)} /\ Cardinality(cpu_set) = n_cpus
    BY DEF CpuInv
  <1>5. Chosen(n_cpus + 1) = Chosen(n_cpus) \union {curr}
    <2>1. \A c \in Places : Rank(c) < n_cpus + 1 <=> Rank(c) < n_cpus \/ c = curr
      BY <1>1, <1>2, RankType, RankTellsPlace
    <2> QED  BY <1>1, <2>1
  <1>6. cpu_set' = {Cpu(c) : c \in Chosen(n_cpus')}
    BY <1>3, <1>4, <1>5
  <1>7. Cpu(curr) \notin cpu_set
    <2>1. ASSUME NEW c \in Places, Rank(c) < n_cpus, Cpu(c) = Cpu(curr)
          PROVE  FALSE
      <3>1. c = curr
        BY <1>1, <2>1, CpuTellsPlace
      <3> QED  BY <1>1, <1>2, <2>1, <3>1
    <2> QED  BY <1>4, <2>1
  <1>8. Cardinality(cpu_set') = n_cpus + 1
    <2>1. IsFiniteSet(cpu_set)
      <3>1. \A x \in cpu_set : \E c \in Places : Rank(c) < n_cpus /\ Cpu(c) = x
        BY <1>4
      <3>2. PICK place \in [cpu_set -> Chosen(n_cpus)] : \A x \in cpu_set : Cpu(place[x]) = x
        <4> DEFINE place == [x \in cpu_set |-> CHOOSE c \in Chosen(n_cpus) : Cpu(c) = x]
        <4>1. \A x \in cpu_set : place[x] \in Chosen(n_cpus) /\ Cpu(place[x]) = x
          BY <3>1
        <4> QED  BY <4>1
      <3> DEFINE rank == [x \in cpu_set |-> Rank(place[x])]
      <3>3. \A x \in cpu_set : Rank(place[x]) \in 0 .. n_cpus - 1
        BY <1>1, <3>2, RankType
      <3>4. \A x, y \in cpu_set : Rank(place[x]) = Rank(place[y]) => x = y
        BY <3>2, RankTellsPlace
      <3>5. rank \in Injection(cpu_set, 0 .. n_cpus - 1)
        BY <3>3, <3>4 DEF Injection, IsInjective
      <3>6. IsFiniteSet(0 .. n_cpus - 1)
        BY <1>1, FS_Interval
      <3> QED  BY <3>5, <3>6, FS_Injection
    <2> QED  BY <1>3, <1>4, <1>7, <2>1, FS_AddElement
  <1>9. n_cpus + 1 < Total => NextCpu \in Places /\ Rank(NextCpu) = n_cpus + 1
    BY <1>1, <1>2, NextCpuRank
  <1>10. NextCpu \in Places
    BY <1>1, NextCpuType
  <1>11. (phase = "cpus" <=> n_cpus < num_thread)'
    BY <1>1, <1>3 DEF num_thread
  <1>12. (n_cpus < Total => Rank(curr) = n_cpus)'
    BY <1>3, <1>9 DEF Total, Rank
  <1> QED  BY <1>1, <1>3, <1>6, <1>8, <1>10, <1>11, <1>12 DEF CpuInv, num_thread

LEMMA CpuInvNext ==
    ASSUME CpuInv, [YcsbNext]_allVars
    PROVE  CpuInv'
  <1>1. CASE SetCpu
    BY <1>1, CpuInvStep
  <1>2. CASE UNCHANGED cpuVars /\ (phase = "cpus" <=> phase' = "cpus")
    BY <1>2 DEF CpuInv, cpuVars, num_thread, Total, Rank
  <1>3. CASE UNCHANGED allVars
    BY <1>2, <1>3 DEF allVars, driverVars
  <1> QED  BY <1>1, <1>2, <1>3, CpuVarsKept

(* What the CPUs chosen so far have in common, from the order of their      *)
(* ranks.                                                                  *)
LEMMA CpuInvFillsNodes ==
    ASSUME CpuInv
    PROVE  CpusFillNodes
  <1> DEFINE N == NUM_SOCKET
             P == NUM_PHYSICAL_CPU_PER_SOCKET
             S == SMT_LEVEL
  <1>1. N \in Nat \ {0} /\ P \in Nat \ {0} /\ S \in Nat \ {0}
    BY SizesArePositive
  <1>2. ASSUME NEW sock \in 1 .. N - 1, cpu_set \intersect Socket(sock) # {},
               NEW x \in Socket(sock - 1)
        PROVE  x \in cpu_set
    <2>1. PICK c \in Places : Rank(c) < n_cpus /\ Cpu(c) \in Socket(sock)
      BY <1>2 DEF CpuInv
    <2>2. c.sock = sock
      <3>1. PICK phy \in 0 .. P - 1, smt \in 0 .. S - 1 : Cpu(c) = OS_CPU_ID(sock, phy, smt)
        BY <2>1 DEF Socket
      <3> DEFINE d == [sock |-> sock, smt |-> smt, phy |-> phy]
      <3>2. sock \in 0 .. N - 1
        BY <1>1
      <3>3. d \in Places /\ Cpu(d) = Cpu(c) /\ d.sock = sock
        BY <3>1, <3>2 DEF Places, Cpu
      <3> QED  BY <3>3, CpuTellsPlace
    <2>3. PICK phy \in 0 .. P - 1, smt \in 0 .. S - 1 : x = OS_CPU_ID(sock - 1, phy, smt)
      BY DEF Socket
    <2> DEFINE e == [sock |-> sock - 1, smt |-> smt, phy |-> phy]
    <2>4. sock - 1 \in 0 .. N - 1
      BY <1>1
    <2>5. e \in Places /\ Cpu(e) = x
      BY <2>3, <2>4 DEF Places, Cpu
    <2>6. Rank(e) < Rank(c)
      <3>1. Rank(e) = P * (S * (sock - 1) + smt) + phy
        BY DEF Rank
      <3>2. Rank(c) = P * (S * sock + c.smt) + c.phy /\ c.smt \in Nat /\ c.phy \in Nat
        BY <1>1, <2>2 DEF Rank, Places
      <3> HIDE DEF N, P, S
      <3>3. S * (sock - 1) + smt + 1 <= S * sock + c.smt
        <4>1. S * (sock - 1) = S * sock - S
          BY <1>1
        <4>2. S * sock \in Nat /\ smt + 1 <= S
          BY <1>1
        <4> QED  BY <1>1, <3>2, <4>1, <4>2
      <3> DEFINE u == S * (sock - 1) + smt
                 v == S * sock + c.smt
      <3>4. u \in Nat /\ v \in Nat /\ u + 1 <= v
        BY <1>1, <3>2, <3>3
      <3> HIDE DEF u, v
      <3>5. P * (u + 1) <= P * v /\ P * (u + 1) = P * u + P /\ P * u \in Nat /\ P * v \in Nat
        BY <1>1, <3>4, ProductsGrow
      <3>6. P * u + phy < P * v + c.phy
        BY <1>1, <3>2, <3>5
      <3> QED  BY <3>1, <3>2, <3>6 DEF u, v
    <2>7. Rank(e) < n_cpus
      BY <2>1, <2>5, <2>6, RankType, SizesArePositive DEF CpuInv
    <2> QED  BY <2>5, <2>7 DEF CpuInv
  <1>3. Cardinality(cpu_set) = n_cpus
    BY DEF CpuInv
  <1> QED  BY <1>2, <1>3 DEF CpusFillNodes

(* get_cpu_id never returns a CPU twice, and fills one NUMA node after the  *)
(* other, on a machine of any size (ycsb.cpp:134-155).                      *)
THEOREM NodesAreFilled == YcsbSpec => []CpusFillNodes
  <1>1. YcsbInit => CpuInv
    BY CpuInvInit
  <1>2. CpuInv /\ [YcsbNext]_allVars => CpuInv'
    BY CpuInvNext
  <1>3. CpuInv => CpusFillNodes
    BY CpuInvFillsNodes
  <1> QED  BY <1>1, <1>2, <1>3, PTL DEF YcsbSpec

-----------------------------------------------------------------------------
(* The numbers of the threads.                                             *)

LEMMA IdInvInit ==
    ASSUME YcsbInit
    PROVE  IdInv
  <1>1. phase = "cpus" /\ next_thread_id = 0 /\ thread_id = [t \in Threads |-> Unset]
    BY DEF YcsbInit
  <1>2. Started = {}
    BY <1>1 DEF Started
  <1>3. Cardinality(Started) = 0
    BY <1>2, FS_EmptySet
  <1> QED  BY <1>1, <1>2, <1>3 DEF IdInv

(* Of the steps, FetchId and JoinAndSpawn give and take numbers. *)
LEMMA NumbersKept ==
    ASSUME YcsbNext, ~JoinAndSpawn, \A t \in Threads : ~FetchId(t)
    PROVE  /\ UNCHANGED <<next_thread_id, thread_id, affinity>>
           /\ \/ phase' = phase
              \/ phase = "cpus" /\ phase' = "files"
              \/ phase = "files" /\ phase' \in {"load", "failed"}
  <1>1. CASE SetCpu
    BY <1>1 DEF SetCpu
  <1>2. CASE ReadFiles
    BY <1>2 DEF ReadFiles
  <1>3. ASSUME NEW t \in Threads, Call(t) \/ InsideCall(t) \/ EndCall(t)
        PROVE  UNCHANGED <<next_thread_id, thread_id, affinity, phase>>
    BY <1>3 DEF Call, InsideCall, EndCall, driverVars
  <1> QED  BY <1>1, <1>2, <1>3 DEF YcsbNext, ThreadStep

LEMMA FetchIdStarts ==
    ASSUME IdInv, NEW t \in Threads, FetchId(t)
    PROVE  /\ next_thread_id \in Nat /\ next_thread_id' = next_thread_id + 1
           /\ t \notin Started /\ Started' = Started \union {t} /\ IsFiniteSet(Started)
           /\ thread_id' = [thread_id EXCEPT ![t] = next_thread_id]
           /\ next_thread_id # Unset /\ UNCHANGED <<phase, cpuVars>>
  <1>1. IsFiniteSet(Started)
    BY YcsbAssumption, FS_Subset DEF Started
  <1>2. next_thread_id \in Nat
    BY <1>1, FS_CardinalityType DEF IdInv
  <1>3. next_thread_id # Unset
    BY <1>2, YcsbAssumption
  <1>4. thread_id' = [thread_id EXCEPT ![t] = next_thread_id] /\ thread_id[t] = Unset
    BY DEF FetchId
  <1>5. \A u \in Threads : thread_id'[u] = IF u = t THEN next_thread_id ELSE thread_id[u]
    BY <1>4 DEF IdInv
  <1>6. t \notin Started /\ Started' = Started \union {t}
    BY <1>3, <1>4, <1>5 DEF Started
  <1> QED  BY <1>1, <1>2, <1>3, <1>4, <1>6 DEF FetchId, Fetched

LEMMA IdInvFetch ==
    ASSUME IdInv, NEW t \in Threads, FetchId(t)
    PROVE  IdInv'
  <1> DEFINE n == next_thread_id
  <1>1. /\ n \in Nat /\ n' = n + 1
        /\ t \notin Started /\ Started' = Started \union {t} /\ IsFiniteSet(Started)
        /\ thread_id' = [thread_id EXCEPT ![t] = n]
        /\ n # Unset /\ phase' = phase
    BY FetchIdStarts
  <1>2. phase \in {"load", "run"}
    BY DEF FetchId
  <1>3. /\ thread_id \in [Threads -> Nat \union {Unset}]
        /\ n = Cardinality(Started)
        /\ \A u \in Started : thread_id[u] < n
        /\ \A u, v \in Started : thread_id[u] = thread_id[v] => u = v
        /\ \A id \in 0 .. n - 1 : \E u \in Started : thread_id[u] = id
    BY DEF IdInv
  <1>4. Started \subseteq Threads /\ \A u \in Started : thread_id[u] \in Nat
    BY <1>3 DEF Started
  <1>5. thread_id' \in [Threads -> Nat \union {Unset}]
    BY <1>1, <1>3
  <1>6. thread_id'[t] = n /\ \A u \in Started : thread_id'[u] = thread_id[u]
    BY <1>1, <1>3, <1>4
  <1>7. Cardinality(Started') = n + 1
    BY <1>1, <1>3, FS_AddElement
  <1>8. \A u \in Started' : thread_id'[u] < n'
    BY <1>1, <1>3, <1>4, <1>6
  <1>9. \A u, v \in Started' : thread_id'[u] = thread_id'[v] => u = v
    BY <1>1, <1>3, <1>4, <1>6
  <1>10. \A id \in 0 .. n' - 1 : \E u \in Started' : thread_id'[u] = id
    <2> SUFFICES ASSUME NEW id \in 0 .. n' - 1
                 PROVE  \E u \in Started' : thread_id'[u] = id
      OBVIOUS
    <2>1. CASE id = n
      BY <1>1, <1>6, <2>1
    <2>2. CASE id \in 0 .. n - 1
      BY <1>1, <1>3, <1>6, <2>2
    <2> QED  BY <1>1, <2>1, <2>2
  <1> QED  BY <1>1, <1>2, <1>5, <1>7, <1>8, <1>9, <1>10 DEF IdInv

LEMMA IdInvNext ==
    ASSUME IdInv, [YcsbNext]_allVars
    PROVE  IdInv'
  <1>1. CASE JoinAndSpawn
    <2>1. /\ phase' \in {"run", "end"} /\ next_thread_id' = 0
          /\ thread_id' = [t \in Threads |-> Unset]
      BY <1>1 DEF JoinAndSpawn, FirstId
    <2>2. Started' = {}
      BY <2>1 DEF Started
    <2>3. Cardinality(Started') = 0
      BY <2>2, FS_EmptySet
    <2> QED  BY <2>1, <2>2, <2>3 DEF IdInv
  <1>2. CASE \E t \in Threads : FetchId(t)
    BY <1>2, IdInvFetch
  <1>3. CASE UNCHANGED <<next_thread_id, thread_id>> /\ phase' = phase
    BY <1>3 DEF IdInv, Started
  <1>4. CASE /\ UNCHANGED <<next_thread_id, thread_id>>
             /\ \/ phase = "cpus" /\ phase' = "files"
                \/ phase = "files" /\ phase' \in {"load", "failed"}
    BY <1>4 DEF IdInv, Started
  <1>5. CASE UNCHANGED allVars
    BY <1>3, <1>5 DEF allVars, driverVars
  <1> QED  BY <1>1, <1>2, <1>3, <1>4, <1>5, NumbersKept

LEMMA AffinityInvInit ==
    ASSUME YcsbInit
    PROVE  AffinityInv
  BY YcsbAssumption DEF YcsbInit, AffinityInv

(* Numbers are given when all CPUs are chosen, at least one. *)
LEMMA SomeCpuChosen ==
    ASSUME CpuInv, phase # "cpus"
    PROVE  cpu_set # {}
  <1>1. n_cpus > 0
    BY SizesArePositive DEF CpuInv
  <1> QED  BY <1>1, FS_EmptySet DEF CpuInv

LEMMA AffinityInvNext ==
    ASSUME CpuInv, IdInv, AffinityInv, [YcsbNext]_allVars
    PROVE  AffinityInv'
  <1>1. CASE JoinAndSpawn
    BY <1>1, YcsbAssumption DEF JoinAndSpawn, AffinityInv
  <1>2. ASSUME NEW t \in Threads, FetchId(t)
        PROVE  AffinityInv'
    <2> DEFINE n == next_thread_id
    <2>1. /\ n \in Nat /\ cpu_set' = cpu_set /\ n # Unset
          /\ thread_id' = [thread_id EXCEPT ![t] = n]
      BY <1>2, FetchIdStarts DEF cpuVars
    <2>2. thread_id \in [Threads -> Nat \union {Unset}] /\ thread_id[t] = Unset /\ Unset # 0
      BY <1>2, YcsbAssumption DEF IdInv, FetchId
    <2>3. \A u \in Threads : thread_id'[u] = IF u = t THEN n ELSE thread_id[u]
      BY <2>1, <2>2
    <2>4. affinity[t] = AllCpus
      BY <2>2 DEF AffinityInv
    <2>5. CASE n = 0
      <3>1. cpu_set # {}
        BY <1>2, SomeCpuChosen DEF FetchId
      <3>2. affinity' = [affinity EXCEPT ![t] = cpu_set]
        BY <1>2, <2>5, <3>1 DEF FetchId, sched_setaffinity, CpuSet
      <3> QED  BY <2>1, <2>3, <2>5, <3>2 DEF AffinityInv
    <2>6. CASE n # 0
      <3>1. affinity' = affinity
        BY <1>2, <2>6 DEF FetchId, sched_setaffinity, CpuSet
      <3> QED  BY <2>1, <2>2, <2>3, <2>6, <3>1 DEF AffinityInv
    <2> QED  BY <2>5, <2>6
  <1>3. CASE UNCHANGED <<thread_id, affinity, cpu_set>>
    BY <1>3 DEF AffinityInv, AllCpus
  <1>4. CASE SetCpu
    <2>1. \A t \in Threads : thread_id[t] = Unset
      BY <1>4 DEF SetCpu, IdInv, Started
    <2>2. UNCHANGED <<thread_id, affinity>>
      BY <1>4 DEF SetCpu
    <2> QED  BY <2>1, <2>2, YcsbAssumption DEF AffinityInv
  <1>5. CASE UNCHANGED allVars
    BY <1>3, <1>5 DEF allVars, driverVars, cpuVars
  <1>6. ASSUME YcsbNext, ~JoinAndSpawn, \A t \in Threads : ~FetchId(t), ~SetCpu
        PROVE  UNCHANGED <<thread_id, affinity, cpu_set>>
    BY <1>6, NumbersKept, CpuVarsKept DEF cpuVars
  <1> QED  BY <1>1, <1>2, <1>3, <1>4, <1>5, <1>6

-----------------------------------------------------------------------------
(* The shares and the loops of the threads.                                *)

LEMMA ShareFits ==
    ASSUME NEW size \in Nat
    PROVE  /\ Share(size) \in Nat
           /\ Share(size) * num_thread \in Nat
           /\ Share(size) * num_thread <= size
  <1> DEFINE n == num_thread
  <1>1. n \in Nat \ {0}
    BY SizesArePositive
  <1> HIDE DEF n
  <1>2. size \div n \in Nat /\ n * (size \div n) <= size
    BY <1>1, Division
  <1>3. \A s \in Nat : s * n = n * s /\ s * n \in Nat
    BY <1>1
  <1> QED  BY <1>2, <1>3 DEF Share, n

LEMMA SizeType == Size \in Nat /\ Size <= LOAD_SIZE + RUN_SIZE
  BY YcsbAssumption DEF Size

(* A thread's share is inside what is shared out, and two shares are apart. *)
LEMMA ShareBounds ==
    ASSUME NEW id \in Nat
    PROVE  /\ start_key(id) \in Nat /\ end_key(id) \in Nat
           /\ start_key(id) <= end_key(id) /\ end_key(id) = start_key(id + 1)
           /\ id < num_thread => end_key(id) <= Share(Size) * num_thread
           /\ \A other \in Nat : id < other => end_key(id) <= start_key(other)
  <1> DEFINE s == Share(Size)
             n == num_thread
  <1>1. s \in Nat /\ n \in Nat
    BY SizeType, ShareFits, SizesArePositive
  <1>2. start_key(id) = s * id /\ end_key(id) = s * id + s
    BY DEF start_key, end_key
  <1>3. \A other \in Nat : start_key(other) = s * other
    BY DEF start_key
  <1> HIDE DEF s, n
  <1>4. s * id \in Nat /\ s * (id + 1) = s * id + s /\ id + 1 \in Nat
    BY <1>1
  <1>5. \A other \in Nat : id < other => s * (id + 1) <= s * other
    <2> SUFFICES ASSUME NEW other \in Nat, id < other
                 PROVE  s * (id + 1) <= s * other
      OBVIOUS
    <2>1. id + 1 \in Nat /\ id + 1 <= other
      OBVIOUS
    <2> QED  BY <1>1, <2>1, ProductsGrow
  <1>6. id < n => s * (id + 1) <= s * n
    BY <1>1, <1>5
  <1>7. end_key(id) = start_key(id + 1)
    BY <1>2, <1>3, <1>4
  <1>8. \A other \in Nat : id < other => end_key(id) <= start_key(other)
    BY <1>2, <1>3, <1>4, <1>5
  <1>9. id < n => end_key(id) <= s * n
    BY <1>2, <1>4, <1>6
  <1> QED  BY <1>1, <1>2, <1>4, <1>7, <1>8, <1>9 DEF s, n

LEMMA NumbersAreSmall ==
    ASSUME IdInv
    PROVE  /\ IsFiniteSet(Started) /\ next_thread_id \in Nat /\ next_thread_id <= num_thread
           /\ \A t \in Started : thread_id[t] \in Nat /\ thread_id[t] < num_thread
           /\ \A t \in Threads \ Started : next_thread_id < num_thread
  <1>1. Started \subseteq Threads
    BY DEF Started
  <1>2. /\ IsFiniteSet(Started) /\ Cardinality(Started) <= num_thread
        /\ Cardinality(Started) = num_thread => Started = Threads
    BY <1>1, YcsbAssumption, FS_Subset DEF num_thread
  <1>3. Cardinality(Started) \in Nat /\ num_thread \in Nat
    BY <1>2, FS_CardinalityType, SizesArePositive
  <1>4. \A t \in Started : thread_id[t] \in Nat
    BY DEF IdInv, Started
  <1> QED  BY <1>1, <1>2, <1>3, <1>4 DEF IdInv

(* What the records of a phase ask for. *)
LEMMA RequestType ==
    ASSUME phase \in {"load", "run"}, txns \in Txns, NEW i \in 0 .. Size - 1
    PROVE  /\ Request(i) \in Ops /\ Request(i) # NoOp /\ Request(i).key \in Keys
           /\ \/ Request(i) = [kind |-> "insert", key |-> Request(i).key, val |-> Request(i).key]
              \/ phase = "run" /\ Request(i) = [kind |-> "lookup", key |-> Request(i).key]
           /\ Request(i).kind = "insert" <=> (phase = "run" => txns[i].kind = "insert")
           /\ Request(i).key = IF phase = "load" THEN InitKeys[i] ELSE txns[i].key
  <1>1. CASE phase = "load"
    <2>1. InitKeys[i] \in Keys
      BY <1>1, YcsbAssumption DEF Size
    <2>2. Request(i) = [kind |-> "insert", key |-> InitKeys[i], val |-> InitKeys[i]]
      BY <1>1 DEF Request
    <2> QED  BY <1>1, <2>1, <2>2, YcsbAssumption DEF Ops, NoOp
  <1>2. CASE phase = "run"
    <2>1. txns[i] \in [kind : {"insert", "lookup"}, key : Keys]
      <3>1. txns \in [0 .. RUN_SIZE - 1 -> [kind : {"insert", "lookup"}, key : Keys]]
        BY YcsbAssumption
      <3> QED  BY <1>2, <3>1 DEF Size
    <2>2. CASE txns[i].kind = "lookup"
      <3>1. Request(i) = [kind |-> "lookup", key |-> txns[i].key]
        BY <1>2, <2>2 DEF Request
      <3> QED  BY <1>2, <2>1, <2>2, <3>1 DEF Ops, NoOp
    <2>3. CASE txns[i].kind = "insert"
      <3>1. Request(i) = [kind |-> "insert", key |-> txns[i].key, val |-> txns[i].key]
        BY <1>2, <2>3 DEF Request
      <3> QED  BY <1>2, <2>1, <2>3, <3>1, YcsbAssumption DEF Ops, NoOp
    <2> QED  BY <2>1, <2>2, <2>3
  <1> QED  BY <1>1, <1>2

LEMMA NoOpIsNoCall ==
    /\ NoOp.kind = "none" /\ NoOp \notin Ops
    /\ \A o \in Ops : o.kind \in {"insert", "remove", "lookup"} /\ o.key \in Keys
    /\ \A o \in Ops : o.kind = "insert" => o.val \in Vals
  BY DEF NoOp, Ops

LEMMA PendingIsNoAnswer == Pending \notin Vals \union {TRUE, NotFound}
  BY YcsbAssumption

LEMMA DriverInvInit ==
    ASSUME YcsbInit
    PROVE  DriverInv
  <1>1. /\ table = [k \in Keys |-> <<>>] /\ op = [t \in Threads |-> NoOp]
        /\ answer = [t \in Threads |-> Pending] /\ txns \in Txns
        /\ thread_id = [t \in Threads |-> Unset] /\ index = [t \in Threads |-> 0]
    BY DEF YcsbInit, Init
  <1>2. ASSUME NEW t \in Threads
        PROVE  LoopInv(t)
    BY <1>1 DEF LoopInv
  <1> QED  BY <1>1, <1>2 DEF DriverInv

(* A thread that does not move stays inside its share. *)
LEMMA LoopKept ==
    ASSUME NEW t \in Threads, LoopInv(t),
           phase' = phase, txns' = txns, thread_id'[t] = thread_id[t],
           index'[t] = index[t], op'[t] = op[t], answer'[t] = answer[t]
    PROVE  LoopInv(t)'
  <1> DEFINE id == thread_id[t]
  <1>1. start_key(id)' = start_key(id) /\ end_key(id)' = end_key(id)
    BY DEF start_key, end_key, Share, Size, num_thread
  <1>2. Request(index[t])' = Request(index[t])
    BY DEF Request
  <1> QED  BY <1>1, <1>2 DEF LoopInv, Ops, NoOp

(* When nobody has a number, nobody is inside a call. *)
LEMMA NobodyCalls ==
    ASSUME DriverInv, Started = {}
    PROVE  \A t \in Threads : /\ op[t] = NoOp /\ index[t] = 0
                              /\ thread_id[t] = Unset /\ answer[t] = Pending
  BY DEF DriverInv, LoopInv, Started

LEMMA LoopBetweenPhases ==
    ASSUME DriverInv, Started = {}, UNCHANGED <<vars, txns, thread_id, index>>
    PROVE  DriverInv'
  <1>1. \A t \in Threads : /\ op'[t] = NoOp /\ index'[t] = 0
                           /\ thread_id'[t] = Unset /\ answer'[t] = Pending
    BY NobodyCalls DEF vars
  <1>2. \A t \in Threads : LoopInv(t)'
    BY <1>1 DEF LoopInv, NoOp
  <1>3. /\ (txns \in Txns)' /\ (table \in [Keys -> Seq(Keys)])'
        /\ (op \in [Threads -> Ops \union {NoOp}])'
        /\ (index \in [Threads -> Nat])'
        /\ (answer \in [Threads -> Vals \union {TRUE, NotFound, Pending}])'
    BY DEF DriverInv, vars, Ops, NoOp
  <1> QED  BY <1>2, <1>3 DEF DriverInv

LEMMA DriverInvFetch ==
    ASSUME DriverInv, IdInv, NEW t \in Threads, FetchId(t)
    PROVE  DriverInv'
  <1> DEFINE n == next_thread_id
  <1>1. /\ n \in Nat /\ t \notin Started /\ n # Unset /\ phase' = phase
        /\ thread_id' = [thread_id EXCEPT ![t] = n]
    BY FetchIdStarts
  <1>2. /\ index' = [index EXCEPT ![t] = start_key(n)] /\ UNCHANGED <<vars, txns>>
        /\ thread_id[t] = Unset
    BY DEF FetchId
  <1>3. /\ index \in [Threads -> Nat] /\ thread_id \in [Threads -> Nat \union {Unset}]
        /\ op[t] = NoOp /\ answer[t] = Pending
    BY <1>2 DEF DriverInv, LoopInv, IdInv
  <1>4. start_key(n) \in start_key(n) .. end_key(n) /\ start_key(n) \in Nat
    BY <1>1, ShareBounds
  <1>5. \A id \in Nat : start_key(id)' = start_key(id) /\ end_key(id)' = end_key(id)
    BY <1>1 DEF start_key, end_key, Share, Size, num_thread
  <1>6. thread_id'[t] = n /\ index'[t] = start_key(n) /\ op'[t] = NoOp /\ answer'[t] = Pending
    BY <1>1, <1>2, <1>3 DEF vars
  <1>7. LoopInv(t)'
    BY <1>1, <1>4, <1>5, <1>6 DEF LoopInv, NoOp
  <1>8. ASSUME NEW u \in Threads, u # t
        PROVE  LoopInv(u)'
    <2>1. /\ thread_id'[u] = thread_id[u] /\ index'[u] = index[u] /\ op'[u] = op[u]
          /\ answer'[u] = answer[u] /\ txns' = txns
      BY <1>1, <1>2, <1>3, <1>8 DEF vars
    <2> QED  BY <1>1, <2>1, LoopKept DEF DriverInv
  <1>9. index' \in [Threads -> Nat]
    BY <1>2, <1>3, <1>4
  <1>10. /\ (txns \in Txns)' /\ (table \in [Keys -> Seq(Keys)])'
         /\ (op \in [Threads -> Ops \union {NoOp}])'
         /\ (answer \in [Threads -> Vals \union {TRUE, NotFound, Pending}])'
    BY <1>2 DEF DriverInv, vars, Ops, NoOp
  <1> QED  BY <1>7, <1>8, <1>9, <1>10 DEF DriverInv

LEMMA DriverInvCall ==
    ASSUME DriverInv, IdInv, NEW t \in Threads, Call(t)
    PROVE  DriverInv'
  <1> DEFINE i == index[t]
             o == Request(i)
  <1>1. /\ thread_id[t] # Unset /\ i < end_key(thread_id[t]) /\ op[t] = NoOp
        /\ op'[t] = o /\ UNCHANGED <<phase, txns, thread_id, index, table, answer>>
    BY DEF Call, Invoke, driverVars
  <1>2. PICK x \in Ops : op' = [op EXCEPT ![t] = x]
    BY DEF Call, Invoke
  <1>3. op' = [op EXCEPT ![t] = o] /\ o \in Ops /\ op \in [Threads -> Ops \union {NoOp}]
    BY <1>1, <1>2 DEF DriverInv
  <1>4. op' \in [Threads -> Ops \union {NoOp}]
    BY <1>3
  <1>5. i \in start_key(thread_id[t]) .. end_key(thread_id[t]) /\ answer[t] = Pending
    BY <1>1 DEF DriverInv, LoopInv
  <1>7. /\ start_key(thread_id[t])' = start_key(thread_id[t])
        /\ end_key(thread_id[t])' = end_key(thread_id[t])
    BY <1>1 DEF start_key, end_key, Share, Size, num_thread
  <1>8. Request(index[t])' = o
    BY <1>1 DEF Request
  <1>9. LoopInv(t)'
    BY <1>1, <1>3, <1>5, <1>7, <1>8, NoOpIsNoCall DEF LoopInv, Ops, NoOp
  <1>10. ASSUME NEW u \in Threads, u # t
         PROVE  LoopInv(u)'
    <2>1. op'[u] = op[u]
      BY <1>3, <1>10
    <2> QED  BY <1>1, <2>1, LoopKept DEF DriverInv
  <1>11. /\ (txns \in Txns)' /\ (table \in [Keys -> Seq(Keys)])'
         /\ (index \in [Threads -> Nat])'
         /\ (answer \in [Threads -> Vals \union {TRUE, NotFound, Pending}])'
    BY <1>1 DEF DriverInv
  <1>12. (op \in [Threads -> Ops \union {NoOp}])'
    BY <1>4 DEF Ops, NoOp
  <1> QED  BY <1>9, <1>10, <1>11, <1>12 DEF DriverInv

LEMMA NewestType ==
    ASSUME DriverInv, NEW k \in Keys
    PROVE  Newest(k) \in Vals \union {NotFound}
  <1>1. table[k] \in Seq(Keys)
    BY DEF DriverInv
  <1> QED  BY <1>1, YcsbAssumption DEF Newest

LEMMA DriverInvInside ==
    ASSUME DriverInv, NEW t \in Threads, InsideCall(t)
    PROVE  DriverInv'
  <1>1. op' = op /\ UNCHANGED <<phase, txns, thread_id, index>>
    BY DEF InsideCall, Insert, Lookup, driverVars
  <1>2. op[t] \in Ops /\ op[t] # NoOp
    BY NoOpIsNoCall DEF InsideCall, Insert, Lookup, DriverInv
  <1>3. table' \in [Keys -> Seq(Keys)]
    <2>1. CASE Insert(t)
      <3>1. op[t].kind = "insert" /\ table' = [table EXCEPT ![op[t].key] = <<op[t].val>> \o @]
        BY <2>1 DEF Insert
      <3>2. op[t].val \in Keys /\ table \in [Keys -> Seq(Keys)]
        BY <1>2, <3>1, NoOpIsNoCall, YcsbAssumption DEF DriverInv
      <3>3. \A s \in Seq(Keys) : <<op[t].val>> \o s \in Seq(Keys)
        BY <3>2
      <3> QED  BY <3>1, <3>2, <3>3
    <2>2. CASE Lookup(t)
      BY <2>2 DEF Lookup, DriverInv
    <2> QED  BY <2>1, <2>2 DEF InsideCall
  <1>4. /\ answer' = [answer EXCEPT ![t] = answer'[t]]
        /\ \/ op[t].kind = "insert" /\ answer'[t] = TRUE
           \/ op[t].kind = "lookup" /\ answer'[t] \in Vals \union {NotFound}
    <2>1. CASE Insert(t)
      BY <2>1 DEF Insert, DriverInv
    <2>2. CASE Lookup(t)
      <3>1. Newest(op[t].key) \in Vals \union {NotFound}
        BY <1>2, NewestType, NoOpIsNoCall
      <3> QED  BY <2>2, <3>1 DEF Lookup, DriverInv
    <2> QED  BY <2>1, <2>2 DEF InsideCall
  <1>5. answer' \in [Threads -> Vals \union {TRUE, NotFound, Pending}]
    BY <1>4 DEF DriverInv
  <1>6. /\ start_key(thread_id[t])' = start_key(thread_id[t])
        /\ end_key(thread_id[t])' = end_key(thread_id[t])
    BY <1>1 DEF start_key, end_key, Share, Size, num_thread
  <1>7. Request(index[t])' = Request(index[t])
    BY <1>1 DEF Request
  <1>8. LoopInv(t)'
    BY <1>1, <1>2, <1>4, <1>6, <1>7 DEF LoopInv, DriverInv, Ops, NoOp
  <1>9. ASSUME NEW u \in Threads, u # t
        PROVE  LoopInv(u)'
    <2>1. answer'[u] = answer[u]
      BY <1>4, <1>9 DEF DriverInv
    <2> QED  BY <1>1, <2>1, LoopKept DEF DriverInv
  <1>10. /\ (txns \in Txns)' /\ (index \in [Threads -> Nat])'
         /\ (op \in [Threads -> Ops \union {NoOp}])'
    BY <1>1 DEF DriverInv, Ops, NoOp
  <1> QED  BY <1>3, <1>5, <1>8, <1>9, <1>10 DEF DriverInv

LEMMA DriverInvEnd ==
    ASSUME DriverInv, IdInv, NEW t \in Threads, EndCall(t)
    PROVE  DriverInv'
  <1> DEFINE i == index[t]
             id == thread_id[t]
  <1>1. /\ op[t] # NoOp /\ answer[t] # Pending
        /\ op' = [op EXCEPT ![t] = NoOp] /\ answer' = [answer EXCEPT ![t] = Pending]
        /\ index' = [index EXCEPT ![t] = i + 1]
        /\ UNCHANGED <<phase, txns, thread_id, table>>
    BY DEF EndCall, Return, NextIndex
  <1>2. /\ index \in [Threads -> Nat] /\ op \in [Threads -> Ops \union {NoOp}]
        /\ answer \in [Threads -> Vals \union {TRUE, NotFound, Pending}]
    BY DEF DriverInv
  <1>3. id # Unset /\ i \in start_key(id) .. end_key(id) /\ i < end_key(id)
    BY <1>1 DEF DriverInv, LoopInv
  <1>4. id \in Nat
    BY <1>3 DEF IdInv
  <1> HIDE DEF id
  <1>5. i + 1 \in start_key(id) .. end_key(id) /\ i + 1 \in Nat
    <2>1. start_key(id) \in Nat /\ end_key(id) \in Nat
      BY <1>4, ShareBounds
    <2> QED  BY <1>2, <1>3, <2>1
  <1> USE DEF id
  <1>6. start_key(id)' = start_key(id) /\ end_key(id)' = end_key(id)
    BY <1>1 DEF start_key, end_key, Share, Size, num_thread
  <1>7. op'[t] = NoOp /\ answer'[t] = Pending /\ index'[t] = i + 1
    BY <1>1, <1>2
  <1>8. LoopInv(t)'
    BY <1>1, <1>3, <1>5, <1>6, <1>7 DEF LoopInv, NoOp
  <1>9. ASSUME NEW u \in Threads, u # t
        PROVE  LoopInv(u)'
    <2>1. op'[u] = op[u] /\ answer'[u] = answer[u] /\ index'[u] = index[u]
      BY <1>1, <1>2, <1>9
    <2> QED  BY <1>1, <2>1, LoopKept DEF DriverInv
  <1>10. /\ index' \in [Threads -> Nat]
         /\ answer' \in [Threads -> Vals \union {TRUE, NotFound, Pending}]
         /\ op' \in [Threads -> Ops \union {NoOp}]
    BY <1>1, <1>2, <1>5
  <1>11. (op \in [Threads -> Ops \union {NoOp}])'
    BY <1>10 DEF Ops, NoOp
  <1>12. (txns \in Txns)' /\ (table \in [Keys -> Seq(Keys)])'
    BY <1>1 DEF DriverInv
  <1> QED  BY <1>8, <1>9, <1>10, <1>11, <1>12 DEF DriverInv

LEMMA DriverInvJoin ==
    ASSUME DriverInv, JoinAndSpawn
    PROVE  DriverInv'
  <1>1. /\ \A t \in Threads : op[t] = NoOp
        /\ thread_id' = [t \in Threads |-> Unset] /\ index' = [t \in Threads |-> 0]
        /\ UNCHANGED <<table, op, answer, txns>>
    BY DEF JoinAndSpawn, Joined, vars
  <1>2. \A t \in Threads : answer[t] = Pending
    BY <1>1 DEF DriverInv, LoopInv
  <1>3. \A t \in Threads : LoopInv(t)'
    BY <1>1, <1>2 DEF LoopInv, NoOp
  <1>4. index' \in [Threads -> Nat]
    BY <1>1
  <1>5. /\ (txns \in Txns)' /\ (table \in [Keys -> Seq(Keys)])'
        /\ (op \in [Threads -> Ops \union {NoOp}])'
        /\ (answer \in [Threads -> Vals \union {TRUE, NotFound, Pending}])'
    BY <1>1 DEF DriverInv, Ops, NoOp
  <1> QED  BY <1>3, <1>4, <1>5 DEF DriverInv

LEMMA DriverInvNext ==
    ASSUME DriverInv, IdInv, [YcsbNext]_allVars
    PROVE  DriverInv'
  <1>1. CASE SetCpu \/ ReadFiles
    <2>1. phase \notin {"load", "run"} /\ UNCHANGED <<vars, txns, thread_id, index>>
      BY <1>1 DEF SetCpu, ReadFiles
    <2> QED  BY <2>1, LoopBetweenPhases DEF IdInv
  <1>2. CASE JoinAndSpawn
    BY <1>2, DriverInvJoin
  <1>3. ASSUME NEW t \in Threads, ThreadStep(t)
        PROVE  DriverInv'
    BY <1>3, DriverInvFetch, DriverInvCall, DriverInvInside, DriverInvEnd DEF ThreadStep
  <1>4. CASE UNCHANGED allVars
    <2>1. UNCHANGED <<phase, txns, thread_id, index, op, answer, table>>
      BY <1>4 DEF allVars, driverVars, vars
    <2>2. \A t \in Threads : LoopInv(t)'
      BY <2>1, LoopKept DEF DriverInv
    <2>3. /\ (txns \in Txns)' /\ (table \in [Keys -> Seq(Keys)])'
          /\ (op \in [Threads -> Ops \union {NoOp}])' /\ (index \in [Threads -> Nat])'
          /\ (answer \in [Threads -> Vals \union {TRUE, NotFound, Pending}])'
      BY <2>1 DEF DriverInv, Ops, NoOp
    <2> QED  BY <2>2, <2>3 DEF DriverInv
  <1> QED  BY <1>1, <1>2, <1>3, <1>4 DEF YcsbNext

LEMMA InvariantsGiveTypes ==
    ASSUME CpuInv, IdInv, AffinityInv, DriverInv
    PROVE  YcsbTypeOK
  <1>1. cpu_set \subseteq AllCpus
    <2>1. \A c \in Places : Cpu(c) \in AllCpus
      <3> SUFFICES ASSUME NEW c \in Places
                   PROVE  Cpu(c) \in AllCpus
        OBVIOUS
      <3>1. /\ c.sock \in 0 .. NUM_SOCKET - 1 /\ c.smt \in 0 .. SMT_LEVEL - 1
            /\ c.phy \in 0 .. NUM_PHYSICAL_CPU_PER_SOCKET - 1
        BY DEF Places
      <3>2. Cpu(c) \in Socket(c.sock)
        BY <3>1 DEF Socket, Cpu
      <3> QED  BY <3>1, <3>2 DEF AllCpus
    <2> QED  BY <2>1 DEF CpuInv
  <1>2. affinity \in [Threads -> SUBSET AllCpus]
    BY <1>1 DEF AffinityInv
  <1>3. thread_id \in [Threads -> 0 .. num_thread - 1 \union {Unset}]
    <2>1. \A t \in Threads : thread_id[t] # Unset => thread_id[t] \in Nat /\ thread_id[t] < num_thread
      BY NumbersAreSmall DEF Started
    <2>2. \A t \in Threads : thread_id[t] # Unset => thread_id[t] \in 0 .. num_thread - 1
      BY <2>1, SizesArePositive
    <2> QED  BY <2>2 DEF IdInv
  <1>4. next_thread_id \in 0 .. num_thread
    BY NumbersAreSmall, SizesArePositive
  <1>5. index \in [Threads -> 0 .. LOAD_SIZE + RUN_SIZE]
    <2> SUFFICES ASSUME NEW t \in Threads
                 PROVE  index[t] \in 0 .. LOAD_SIZE + RUN_SIZE
      BY DEF DriverInv
    <2>1. CASE thread_id[t] = Unset
      BY <2>1, YcsbAssumption DEF DriverInv, LoopInv
    <2>2. CASE thread_id[t] # Unset
      <3> DEFINE id == thread_id[t]
      <3>1. id \in Nat /\ id < num_thread
        BY <2>2, NumbersAreSmall DEF Started
      <3>2. index[t] \in Nat /\ index[t] <= end_key(id)
        <4>1. index[t] \in start_key(id) .. end_key(id) /\ index[t] \in Nat
          BY <2>2 DEF DriverInv, LoopInv
        <4> HIDE DEF id
        <4>2. start_key(id) \in Nat /\ end_key(id) \in Nat
          BY <3>1, ShareBounds
        <4> QED  BY <4>1, <4>2
      <3>3. /\ end_key(id) <= Share(Size) * num_thread /\ Share(Size) * num_thread <= Size
            /\ end_key(id) \in Nat /\ Share(Size) * num_thread \in Nat
        BY <3>1, ShareBounds, SizeType, ShareFits
      <3>4. Size \in Nat /\ Size <= LOAD_SIZE + RUN_SIZE /\ LOAD_SIZE + RUN_SIZE \in Nat
        BY SizeType, YcsbAssumption
      <3> QED  BY <3>2, <3>3, <3>4
    <2> QED  BY <2>1, <2>2
  <1>6. answer \in [Threads -> Vals \union {TRUE, NotFound, Pending}]
    BY DEF DriverInv
  <1>7. table \in [Keys -> Seq(Vals)]
    BY YcsbAssumption DEF DriverInv
  <1> QED  BY <1>1, <1>2, <1>3, <1>4, <1>5, <1>6, <1>7
           DEF YcsbTypeOK, CpuInv, IdInv, DriverInv, Places

(* Main and the threads keep all they write in range: of the indices, the   *)
(* last is inside the file the phase has read (ycsb.cpp:268, 300).          *)
THEOREM YcsbTypeCorrect == YcsbSpec => []YcsbTypeOK
  <1> DEFINE Inv == CpuInv /\ IdInv /\ AffinityInv /\ DriverInv
  <1>1. YcsbInit => Inv
    BY CpuInvInit, IdInvInit, AffinityInvInit, DriverInvInit
  <1>2. Inv /\ [YcsbNext]_allVars => Inv'
    BY CpuInvNext, IdInvNext, AffinityInvNext, DriverInvNext
  <1>3. Inv => YcsbTypeOK
    BY InvariantsGiveTypes
  <1> QED  BY <1>1, <1>2, <1>3, PTL DEF YcsbSpec

-----------------------------------------------------------------------------
(* The records.                                                            *)

LEMMA HandledIsFinite ==
    ASSUME NEW size \in Nat
    PROVE  IsFiniteSet(Handled(size)) /\ Handled(size) \subseteq Nat
  BY ShareFits, FS_Interval DEF Handled

LEMMA TakenIsFinite ==
    ASSUME NEW k
    PROVE  IsFiniteSet(Taken(k)) /\ Cardinality(Taken(k)) \in Nat
  <1>1. IsFiniteSet(Handled(Size))
    BY SizeType, HandledIsFinite
  <1>2. Taken(k) \subseteq Handled(Size)
    BY DEF Taken, Done
  <1> QED  BY <1>1, <1>2, FS_Subset, FS_CardinalityType

LEMMA LoadedIsFinite ==
    ASSUME NEW k
    PROVE  /\ Cardinality(Loaded(k)) \in Nat
           /\ Loaded(k) # {} => Cardinality(Loaded(k)) > 0
           /\ Cardinality(Inserted(k)) \in Nat
  <1>1. IsFiniteSet(Handled(LOAD_SIZE)) /\ IsFiniteSet(Handled(RUN_SIZE))
    BY YcsbAssumption, HandledIsFinite
  <1>2. IsFiniteSet(Loaded(k)) /\ IsFiniteSet(Inserted(k))
    BY <1>1, FS_Subset DEF Loaded, Inserted
  <1> QED  BY <1>2, FS_CardinalityType, FS_EmptySet

(* No more records are in the shares than in the files. *)
LEMMA FilesHoldShares ==
    ASSUME NEW k
    PROVE  /\ Cardinality(LoadRecords(k)) \in Nat /\ Cardinality(InsertRecords(k)) \in Nat
           /\ Cardinality(Loaded(k)) <= Cardinality(LoadRecords(k))
           /\ Cardinality(Inserted(k)) <= Cardinality(InsertRecords(k))
  <1>1. ASSUME NEW size \in Nat
        PROVE  IsFiniteSet(0 .. size - 1) /\ Handled(size) \subseteq 0 .. size - 1
    <2>1. Share(size) * num_thread \in Nat /\ Share(size) * num_thread <= size
      BY ShareFits
    <2>2. 0 \in Int /\ size - 1 \in Int
      OBVIOUS
    <2>3. IsFiniteSet(0 .. size - 1)
      BY <2>2, FS_Interval
    <2>4. Handled(size) \subseteq 0 .. size - 1
      BY <2>1 DEF Handled
    <2> QED  BY <2>3, <2>4
  <1>2. LOAD_SIZE \in Nat /\ RUN_SIZE \in Nat
    BY YcsbAssumption
  <1>3. IsFiniteSet(LoadRecords(k)) /\ IsFiniteSet(InsertRecords(k))
    BY <1>1, <1>2, FS_Subset DEF LoadRecords, InsertRecords
  <1>4. Loaded(k) \subseteq LoadRecords(k) /\ Inserted(k) \subseteq InsertRecords(k)
    BY <1>1, <1>2 DEF Loaded, LoadRecords, Inserted, InsertRecords
  <1> QED  BY <1>3, <1>4, FS_Subset, FS_CardinalityType

LEMMA EarlierType ==
    ASSUME NEW k
    PROVE  Earlier(k) \in Nat
  BY LoadedIsFinite DEF Earlier

LEMMA NothingTaken ==
    ASSUME Started = {}, NEW k
    PROVE  Cardinality(Taken(k)) = 0
  <1>1. Taken(k) = {}
    BY DEF Taken, Done
  <1> QED  BY <1>1, FS_EmptySet

(* A thread handles records of its own share, and no two shares have one in *)
(* common.                                                                 *)
LEMMA SharesAreApart ==
    ASSUME IdInv, DriverInv, NEW t \in Started, NEW u \in Started, NEW i \in Nat,
           Handles(t, i), start_key(thread_id[u]) <= i, i < end_key(thread_id[u])
    PROVE  t = u
  <1> DEFINE a == thread_id[t]
             b == thread_id[u]
  <1>1. a \in Nat /\ b \in Nat
    BY NumbersAreSmall
  <1>2. /\ index[t] \in start_key(a) .. end_key(a) /\ index[t] \in Nat
        /\ op[t] # NoOp => index[t] < end_key(a)
    BY DEF DriverInv, LoopInv, Started
  <1>3. start_key(a) <= i /\ (i < index[t] \/ (i = index[t] /\ op[t] # NoOp))
    BY DEF Handles
  <1>4. a = b => t = u
    BY DEF IdInv
  <1> HIDE DEF a, b
  <1>5. /\ start_key(a) \in Nat /\ end_key(a) \in Nat /\ start_key(b) \in Nat /\ end_key(b) \in Nat
        /\ a < b => end_key(a) <= start_key(b)
        /\ b < a => end_key(b) <= start_key(a)
    BY <1>1, ShareBounds
  <1>6. i < end_key(a)
    BY <1>2, <1>3, <1>5
  <1>7. start_key(b) <= i /\ i < end_key(b)
    BY DEF b
  <1> QED  BY <1>1, <1>3, <1>4, <1>5, <1>6, <1>7

(* What is taken changes with the phase, the transactions and what the      *)
(* threads handle.                                                         *)
LEMMA TakenKept ==
    ASSUME phase' = phase, txns' = txns, NEW k,
           \A t \in Threads, i \in Nat :
               (t \in Started /\ Handles(t, i))' <=> (t \in Started /\ Handles(t, i))
    PROVE  Taken(k)' = Taken(k)
  <1>1. Handled(Size)' = Handled(Size)
    BY DEF Handled, Share, Size, num_thread
  <1>2. \A i : Request(i)' = Request(i)
    BY DEF Request
  <1>3. Handled(Size) \subseteq Nat
    BY SizeType, HandledIsFinite
  <1>4. Started \subseteq Threads /\ Started' \subseteq Threads
    BY DEF Started
  <1>5. Done' = Done
    BY <1>1, <1>3, <1>4 DEF Done
  <1> QED  BY <1>2, <1>5 DEF Taken

LEMMA RecordInvInit ==
    ASSUME YcsbInit
    PROVE  RecordInv
  <1>1. /\ table = [k \in Keys |-> <<>>] /\ op = [t \in Threads |-> NoOp] /\ phase = "cpus"
        /\ thread_id = [t \in Threads |-> Unset]
    BY DEF YcsbInit, Init
  <1>2. Started = {}
    BY <1>1 DEF Started
  <1>3. \A k \in Keys : Cardinality(Taken(k)) = 0
    BY <1>2, NothingTaken
  <1>4. \A k \in Keys : Earlier(k) = 0
    BY <1>1 DEF Earlier
  <1>5. LoadedKeysAreFound
    BY <1>1 DEF LoadedKeysAreFound
  <1> QED  BY <1>1, <1>3, <1>4, <1>5 DEF RecordInv

LEMMA RecordInvKept ==
    ASSUME RecordInv, UNCHANGED <<phase, txns, table>>, LoadedKeysAreFound',
           \A t \in Threads, i \in Nat :
               (t \in Started /\ Handles(t, i))' <=> (t \in Started /\ Handles(t, i))
    PROVE  RecordInv'
  <1>1. ASSUME NEW k \in Keys
        PROVE  Taken(k)' = Taken(k) /\ Earlier(k)' = Earlier(k)
    <2>1. Taken(k)' = Taken(k)
      BY TakenKept
    <2>2. Loaded(k)' = Loaded(k) /\ Inserted(k)' = Inserted(k)
      BY DEF Loaded, Inserted, Handled, Share, num_thread
    <2> QED  BY <2>1, <2>2 DEF Earlier
  <1>2. \A k \in Keys : /\ \A j \in 1 .. Len(table'[k]) : table'[k][j] = k
                        /\ Len(table'[k]) = Earlier(k)' + Cardinality(Taken(k)')
    BY <1>1 DEF RecordInv
  <1> QED  BY <1>2 DEF RecordInv

LEMMA RecordInvFetch ==
    ASSUME RecordInv, DriverInv, IdInv, NEW t \in Threads, FetchId(t)
    PROVE  RecordInv'
  <1> DEFINE n == next_thread_id
  <1>1. /\ n \in Nat /\ t \notin Started /\ Started' = Started \union {t}
        /\ thread_id' = [thread_id EXCEPT ![t] = n] /\ UNCHANGED phase
    BY FetchIdStarts
  <1>2. /\ index' = [index EXCEPT ![t] = start_key(n)] /\ UNCHANGED <<vars, txns>>
        /\ thread_id[t] = Unset
    BY DEF FetchId
  <1>3. op[t] = NoOp /\ index \in [Threads -> Nat] /\ thread_id \in [Threads -> Nat \union {Unset}]
    BY <1>2 DEF DriverInv, LoopInv, IdInv
  <1>5. \A i \in Nat : ~Handles(t, i)'
    <2>1. thread_id'[t] = n /\ index'[t] = start_key(n) /\ op'[t] = NoOp
      BY <1>1, <1>2, <1>3 DEF vars
    <2>2. start_key(n) \in Nat
      BY <1>1, ShareBounds
    <2>3. start_key(thread_id[t])' = start_key(n)
      BY <1>1, <2>1 DEF start_key, Share, Size, num_thread
    <2>4. ASSUME NEW i \in Nat, Handles(t, i)'
          PROVE  FALSE
      <3>1. start_key(n) <= i /\ i < start_key(n)
        BY <2>1, <2>3, <2>4 DEF Handles, NoOp
      <3> QED  BY <2>2, <3>1
    <2> QED  BY <2>4
  <1>6. ASSUME NEW u \in Threads, u # t, NEW i \in Nat
        PROVE  Handles(u, i)' <=> Handles(u, i)
    <2>1. /\ thread_id'[u] = thread_id[u] /\ index'[u] = index[u] /\ op'[u] = op[u]
          /\ answer'[u] = answer[u]
      BY <1>1, <1>2, <1>3, <1>6 DEF vars
    <2>2. start_key(thread_id[u])' = start_key(thread_id[u])
      BY <1>1, <2>1 DEF start_key, Share, Size, num_thread
    <2> QED  BY <2>1, <2>2 DEF Handles, NoOp
  <1>7. LoadedKeysAreFound'
    BY <1>1, <1>2 DEF RecordInv, LoadedKeysAreFound, Loaded, Handled, Share, num_thread, vars
  <1> QED  BY <1>1, <1>2, <1>5, <1>6, <1>7, RecordInvKept DEF vars

LEMMA RecordInvCall ==
    ASSUME RecordInv, DriverInv, NEW t \in Threads, Call(t)
    PROVE  RecordInv'
  <1>1. /\ op[t] = NoOp /\ answer[t] = Pending
        /\ UNCHANGED <<phase, txns, thread_id, index, table, answer>>
    BY DEF Call, Invoke, driverVars, DriverInv, LoopInv
  <1>2. PICK x \in Ops : op' = [op EXCEPT ![t] = x]
    BY DEF Call, Invoke
  <1>3. \A u \in Threads : u # t => op'[u] = op[u]
    BY <1>2 DEF DriverInv
  <1>4. ASSUME NEW u \in Threads, NEW i \in Nat
        PROVE  (u \in Started /\ Handles(u, i))' <=> (u \in Started /\ Handles(u, i))
    <2>1. start_key(thread_id[u])' = start_key(thread_id[u]) /\ Started' = Started
      BY <1>1 DEF start_key, Share, Size, num_thread, Started
    <2> QED  BY <1>1, <1>3, <2>1 DEF Handles, NoOp
  <1>5. LoadedKeysAreFound'
    BY <1>1, <1>3 DEF RecordInv, LoadedKeysAreFound, Loaded, Handled, Share, num_thread
  <1> QED  BY <1>1, <1>4, <1>5, RecordInvKept

LEMMA RecordInvEnd ==
    ASSUME RecordInv, DriverInv, IdInv, NEW t \in Threads, EndCall(t)
    PROVE  RecordInv'
  <1>1. /\ op[t] # NoOp /\ answer[t] # Pending
        /\ op' = [op EXCEPT ![t] = NoOp] /\ answer' = [answer EXCEPT ![t] = Pending]
        /\ index' = [index EXCEPT ![t] = index[t] + 1]
        /\ UNCHANGED <<phase, txns, thread_id, table>>
    BY DEF EndCall, Return, NextIndex
  <1>2. /\ index \in [Threads -> Nat] /\ op \in [Threads -> Ops \union {NoOp}]
        /\ answer \in [Threads -> Vals \union {TRUE, NotFound, Pending}]
    BY DEF DriverInv
  <1>3. op'[t] = NoOp /\ answer'[t] = Pending /\ index'[t] = index[t] + 1 /\ index[t] \in Nat
    BY <1>1, <1>2
  <1>4. \A u \in Threads : u # t => op'[u] = op[u] /\ answer'[u] = answer[u] /\ index'[u] = index[u]
    BY <1>1, <1>2
  <1>5. ASSUME NEW u \in Threads, NEW i \in Nat
        PROVE  (u \in Started /\ Handles(u, i))' <=> (u \in Started /\ Handles(u, i))
    <2>1. start_key(thread_id[u])' = start_key(thread_id[u]) /\ Started' = Started
      BY <1>1 DEF start_key, Share, Size, num_thread, Started
    <2>2. CASE u = t
      BY <1>1, <1>3, <2>1, <2>2 DEF Handles, NoOp
    <2>3. CASE u # t
      BY <1>1, <1>4, <2>1, <2>3 DEF Handles, NoOp
    <2> QED  BY <2>2, <2>3
  <1>6. LoadedKeysAreFound'
    BY <1>1, <1>3, <1>4 DEF RecordInv, LoadedKeysAreFound, Loaded, Handled, Share, num_thread
  <1> QED  BY <1>1, <1>5, <1>6, RecordInvKept

LEMMA RecordInvBetweenPhases ==
    ASSUME RecordInv, IdInv, SetCpu \/ ReadFiles
    PROVE  RecordInv'
  <1>1. /\ phase \in {"cpus", "files"} /\ phase' \in {"cpus", "files", "load", "failed"}
        /\ UNCHANGED <<vars, thread_id>>
    BY DEF SetCpu, ReadFiles
  <1>2. Started = {} /\ Started' = {}
    BY <1>1 DEF IdInv, Started
  <1>3. \A k : Cardinality(Taken(k)) = 0 /\ Cardinality(Taken(k)') = 0
    <2>1. \A k : Taken(k)' = {}
      BY <1>2 DEF Taken, Done
    <2> QED  BY <1>2, <2>1, NothingTaken, FS_EmptySet
  <1>4. \A k : Earlier(k) = 0 /\ Earlier(k)' = 0
    BY <1>1 DEF Earlier
  <1>5. LoadedKeysAreFound'
    BY <1>1 DEF LoadedKeysAreFound
  <1> QED  BY <1>1, <1>3, <1>4, <1>5 DEF RecordInv, vars

(* The record of a thread inside a call is one of the phase's. *)
LEMMA RecordInHand ==
    ASSUME DriverInv, IdInv, NEW t \in Threads, op[t] # NoOp
    PROVE  /\ t \in Started /\ phase \in {"load", "run"}
           /\ index[t] \in Handled(Size) /\ index[t] \in 0 .. Size - 1
           /\ start_key(thread_id[t]) <= index[t] /\ index[t] < end_key(thread_id[t])
           /\ op[t] = Request(index[t])
  <1> DEFINE id == thread_id[t]
  <1>1. /\ id # Unset /\ index[t] \in start_key(id) .. end_key(id) /\ index[t] \in Nat
        /\ index[t] < end_key(id) /\ op[t] = Request(index[t])
    BY DEF DriverInv, LoopInv
  <1>2. t \in Started /\ phase \in {"load", "run"}
    BY <1>1 DEF Started, IdInv
  <1>3. id \in Nat /\ id < num_thread
    BY <1>2, NumbersAreSmall
  <1> DEFINE shared == Share(Size) * num_thread
  <1>4. shared \in Nat /\ shared <= Size /\ Size \in Nat
    BY SizeType, ShareFits
  <1> HIDE DEF id, shared
  <1>5. start_key(id) \in Nat /\ end_key(id) \in Nat /\ end_key(id) <= shared
    BY <1>3, ShareBounds DEF shared
  <1>6. index[t] \in 0 .. shared - 1 /\ index[t] \in 0 .. Size - 1 /\ start_key(id) <= index[t]
    BY <1>1, <1>4, <1>5
  <1> QED  BY <1>1, <1>2, <1>6 DEF Handled, id, shared

(* When a call takes effect, its record and no other is done. *)
LEMMA OneMoreDone ==
    ASSUME DriverInv, IdInv, NEW t \in Threads, op[t] # NoOp, answer[t] = Pending,
           UNCHANGED <<phase, txns, thread_id, index, op>>,
           answer'[t] # Pending, \A u \in Threads \ {t} : answer'[u] = answer[u]
    PROVE  index[t] \notin Done /\ Done' = Done \union {index[t]}
  <1> DEFINE i == index[t]
  <1>1. /\ t \in Started /\ i \in Handled(Size) /\ i \in Nat
        /\ start_key(thread_id[t]) <= i /\ i < end_key(thread_id[t])
    BY RecordInHand
  <1>2. ASSUME NEW u \in Started, Handles(u, i)
        PROVE  FALSE
    <2>1. u = t
      BY <1>1, <1>2, SharesAreApart
    <2> QED  BY <1>1, <1>2, <2>1 DEF Handles
  <1>3. Started' = Started /\ Handled(Size)' = Handled(Size) /\ Started \subseteq Threads
    BY DEF Started, Handled, Share, Size, num_thread
  <1>4. ASSUME NEW u \in Threads, NEW j \in Nat
        PROVE  Handles(u, j)' <=> Handles(u, j) \/ (u = t /\ j = i)
    <2>1. start_key(thread_id[u])' = start_key(thread_id[u])
      BY DEF start_key, Share, Size, num_thread
    <2>2. CASE u = t
      BY <1>1, <2>1, <2>2 DEF Handles, NoOp
    <2>3. CASE u # t
      BY <2>1, <2>3 DEF Handles, NoOp
    <2> QED  BY <2>2, <2>3
  <1>5. Handled(Size) \subseteq Nat
    BY SizeType, HandledIsFinite
  <1>6. i \notin Done
    BY <1>2 DEF Done
  <1>7. Done' = Done \union {i}
    BY <1>1, <1>3, <1>4, <1>5 DEF Done
  <1> QED  BY <1>6, <1>7

LEMMA RecordInvInsert ==
    ASSUME RecordInv, DriverInv, IdInv, NEW t \in Threads, Insert(t), UNCHANGED driverVars
    PROVE  RecordInv'
  <1> DEFINE i == index[t]
             key == op[t].key
  <1>1. /\ op[t].kind = "insert" /\ answer[t] = Pending
        /\ table' = [table EXCEPT ![key] = <<op[t].val>> \o @]
        /\ answer' = [answer EXCEPT ![t] = TRUE]
        /\ UNCHANGED <<op, phase, txns, thread_id, index>>
    BY DEF Insert, driverVars
  <1>2. op[t] # NoOp
    BY <1>1, NoOpIsNoCall
  <1>3. i \in 0 .. Size - 1 /\ phase \in {"load", "run"} /\ op[t] = Request(i) /\ txns \in Txns
    BY <1>2, RecordInHand DEF DriverInv
  <1>4. key \in Keys /\ op[t].val = key
    <2>1. /\ Request(i).key \in Keys
          /\ \/ Request(i) = [kind |-> "insert", key |-> Request(i).key, val |-> Request(i).key]
             \/ Request(i) = [kind |-> "lookup", key |-> Request(i).key]
      BY <1>3, RequestType
    <2>2. Request(i).kind = "insert"
      BY <1>1, <1>3
    <2>3. Request(i).val = Request(i).key
      BY <2>1, <2>2
    <2> QED  BY <1>3, <2>1, <2>3
  <1>5. answer'[t] = TRUE /\ TRUE # Pending /\ \A u \in Threads \ {t} : answer'[u] = answer[u]
    BY <1>1, PendingIsNoAnswer DEF DriverInv
  <1>6. i \notin Done /\ Done' = Done \union {i}
    BY <1>1, <1>2, <1>5, OneMoreDone
  <1>7. \A j : Request(j)' = Request(j)
    BY <1>1 DEF Request
  <1>8. Taken(key)' = Taken(key) \union {i} /\ i \notin Taken(key)
    BY <1>1, <1>3, <1>6, <1>7 DEF Taken
  <1>9. \A k \in Keys : k # key => Taken(k)' = Taken(k)
    BY <1>3, <1>6, <1>7 DEF Taken
  <1>10. Cardinality(Taken(key)') = Cardinality(Taken(key)) + 1
    BY <1>8, TakenIsFinite, FS_AddElement
  <1>11. \A k : Earlier(k)' = Earlier(k)
    BY <1>1 DEF Earlier, Loaded, Inserted, Handled, Share, num_thread
  <1>12. ASSUME NEW k \in Keys
         PROVE  /\ \A j \in 1 .. Len(table'[k]) : table'[k][j] = k
                /\ Len(table'[k]) = Earlier(k)' + Cardinality(Taken(k)')
    <2>1. /\ table[k] \in Seq(Keys) /\ \A j \in 1 .. Len(table[k]) : table[k][j] = k
          /\ Len(table[k]) = Earlier(k) + Cardinality(Taken(k))
      BY DEF RecordInv, DriverInv
    <2>2. CASE k # key
      <3>1. table'[k] = table[k]
        BY <1>1, <2>2 DEF DriverInv
      <3>2. Taken(k)' = Taken(k) /\ Earlier(k)' = Earlier(k)
        BY <1>9, <1>11, <2>2
      <3> HIDE DEF key
      <3> QED  BY <2>1, <3>1, <3>2
    <2>3. CASE k = key
      <3>1. table'[k] = <<k>> \o table[k]
        BY <1>1, <1>4, <2>3 DEF DriverInv
      <3>2. Len(table'[k]) = Len(table[k]) + 1
        BY <2>1, <3>1
      <3>3. \A j \in 1 .. Len(table[k]) + 1 : table'[k][j] = IF j = 1 THEN k ELSE table[k][j - 1]
        BY <2>1, <3>1
      <3>4. \A j \in 1 .. Len(table'[k]) : table'[k][j] = k
        BY <2>1, <3>2, <3>3
      <3>5. Earlier(k) \in Nat /\ Cardinality(Taken(k)) \in Nat
        BY EarlierType, TakenIsFinite
      <3>6. Cardinality(Taken(k)') = Cardinality(Taken(k)) + 1
        BY <1>1, <1>10, <2>3
      <3> HIDE DEF key
      <3> QED  BY <1>11, <2>1, <3>2, <3>4, <3>5, <3>6
    <2> QED  BY <2>2, <2>3
  <1>13. LoadedKeysAreFound'
    BY <1>1, <1>5 DEF RecordInv, LoadedKeysAreFound, Loaded, Handled, Share, num_thread
  <1> QED  BY <1>12, <1>13 DEF RecordInv

LEMMA RecordInvLookup ==
    ASSUME RecordInv, DriverInv, IdInv, NEW t \in Threads, Lookup(t), UNCHANGED driverVars
    PROVE  RecordInv'
  <1> DEFINE i == index[t]
             key == op[t].key
  <1>1. /\ op[t].kind = "lookup" /\ answer' = [answer EXCEPT ![t] = Newest(key)]
        /\ UNCHANGED <<table, op, phase, txns, thread_id, index>>
    BY DEF Lookup, driverVars
  <1>2. op[t] # NoOp /\ key \in Keys
    BY <1>1, NoOpIsNoCall DEF DriverInv
  <1>3. op[t] = Request(i)
    BY <1>2, RecordInHand
  <1>4. answer'[t] = Newest(key) /\ \A u \in Threads \ {t} : answer'[u] = answer[u]
    BY <1>1 DEF DriverInv
  <1>5. Newest(key) # Pending
    BY <1>2, NewestType, PendingIsNoAnswer
  <1>6. Done' = Done \/ Done' = Done \union {i}
    <2>1. CASE answer[t] = Pending
      BY <1>1, <1>2, <1>4, <1>5, <2>1, OneMoreDone
    <2>2. CASE answer[t] # Pending
      <3>1. ASSUME NEW u \in Threads, NEW j
            PROVE  Handles(u, j)' <=> Handles(u, j)
        <4>1. start_key(thread_id[u])' = start_key(thread_id[u])
          BY <1>1 DEF start_key, Share, Size, num_thread
        <4> QED  BY <1>1, <1>4, <1>5, <2>2, <4>1 DEF Handles, NoOp
      <3>2. Started' = Started /\ Handled(Size)' = Handled(Size) /\ Started \subseteq Threads
        BY <1>1 DEF Started, Handled, Share, Size, num_thread
      <3> QED  BY <3>1, <3>2 DEF Done
    <2> QED  BY <2>1, <2>2
  <1>7. \A j : Request(j)' = Request(j)
    BY <1>1 DEF Request
  <1>8. \A k \in Keys : Taken(k)' = Taken(k)
    BY <1>1, <1>3, <1>6, <1>7 DEF Taken
  <1>9. \A k : Earlier(k)' = Earlier(k)
    BY <1>1 DEF Earlier, Loaded, Inserted, Handled, Share, num_thread
  <1>10. \A k \in Keys : /\ \A j \in 1 .. Len(table'[k]) : table'[k][j] = k
                         /\ Len(table'[k]) = Earlier(k)' + Cardinality(Taken(k)')
    BY <1>1, <1>8, <1>9 DEF RecordInv
  <1>11. phase = "run" /\ Loaded(key) # {} => Newest(key) = key
    <2> SUFFICES ASSUME phase = "run", Loaded(key) # {}
                 PROVE  Newest(key) = key
      OBVIOUS
    <2>1. Len(table[key]) = Cardinality(Loaded(key)) + Cardinality(Taken(key))
      BY <1>2 DEF RecordInv, Earlier
    <2>2. Len(table[key]) > 0 /\ table[key] \in Seq(Keys)
      BY <1>2, <2>1, LoadedIsFinite, TakenIsFinite DEF DriverInv
    <2>3. table[key][1] = key
      BY <1>2, <2>2 DEF RecordInv
    <2> QED  BY <2>2, <2>3 DEF Newest
  <1>12. LoadedKeysAreFound'
    BY <1>1, <1>4, <1>11 DEF RecordInv, LoadedKeysAreFound, Loaded, Handled, Share, num_thread
  <1> QED  BY <1>10, <1>12 DEF RecordInv

(* Every record of what is shared out is in some thread's share. *)
LEMMA SharesCover ==
    ASSUME NEW i \in Handled(Size)
    PROVE  \E id \in 0 .. num_thread - 1 : start_key(id) <= i /\ i < end_key(id)
  <1> DEFINE s == Share(Size)
             n == num_thread
             id == i \div s
  <1>1. s \in Nat /\ n \in Nat \ {0} /\ i \in 0 .. s * n - 1
    BY SizeType, ShareFits, SizesArePositive DEF Handled
  <1> HIDE DEF s, n
  <1>2. s # 0 /\ i \in Nat /\ i < s * n
    BY <1>1
  <1>3. id \in Nat /\ s * id <= i /\ i < s * id + s
    BY <1>1, <1>2, Division
  <1> HIDE DEF id
  <1>4. id < n
    <2> SUFFICES ASSUME n <= id
                 PROVE  FALSE
      BY <1>1, <1>3
    <2>1. s * n <= s * id
      BY <1>1, <1>3, ProductsGrow
    <2>2. s * n \in Nat /\ s * id \in Nat
      BY <1>1, <1>3
    <2> QED  BY <1>2, <1>3, <2>1, <2>2
  <1>5. start_key(id) = s * id /\ end_key(id) = s * id + s
    BY DEF start_key, end_key, s
  <1> QED  BY <1>1, <1>3, <1>4, <1>5 DEF n

(* When the threads of a phase are joined, all shares are done. *)
LEMMA AllJoinedAllDone ==
    ASSUME IdInv, DriverInv, \A t \in Threads : Joined(t)
    PROVE  Done = Handled(Size)
  <1>1. Started = Threads
    BY DEF Joined, Started
  <1>2. next_thread_id = num_thread
    BY <1>1 DEF IdInv, num_thread
  <1>3. ASSUME NEW i \in Handled(Size)
        PROVE  \E t \in Started : Handles(t, i)
    <2>1. PICK id \in 0 .. num_thread - 1 : start_key(id) <= i /\ i < end_key(id)
      BY SharesCover
    <2>2. PICK t \in Started : thread_id[t] = id
      BY <1>2 DEF IdInv
    <2>3. index[t] = end_key(id)
      BY <1>1, <2>2 DEF Joined
    <2> QED  BY <2>1, <2>2, <2>3 DEF Handles
  <1> QED  BY <1>3 DEF Done

LEMMA RecordInvJoin ==
    ASSUME RecordInv, DriverInv, IdInv, JoinAndSpawn
    PROVE  RecordInv'
  <1>1. /\ phase \in {"load", "run"} /\ phase' = (IF phase = "load" THEN "run" ELSE "end")
        /\ thread_id' = [t \in Threads |-> Unset] /\ UNCHANGED <<table, op, txns>>
        /\ \A t \in Threads : Joined(t)
    BY DEF JoinAndSpawn, vars
  <1>2. Started' = {}
    BY <1>1 DEF Started
  <1>3. \A k : Cardinality(Taken(k)') = 0
    <2>1. \A k : Taken(k)' = {}
      BY <1>2 DEF Taken, Done
    <2> QED  BY <2>1, FS_EmptySet
  <1>4. Done = Handled(Size) /\ txns \in Txns
    BY <1>1, AllJoinedAllDone DEF DriverInv
  <1>5. Handled(Size) \subseteq 0 .. Size - 1
    <2>1. Share(Size) * num_thread \in Nat /\ Share(Size) * num_thread <= Size /\ Size \in Nat
      BY SizeType, ShareFits
    <2> QED  BY <2>1 DEF Handled
  <1>6. \A i \in Done :
            /\ Request(i).kind = "insert" <=> (phase = "run" => txns[i].kind = "insert")
            /\ Request(i).key = IF phase = "load" THEN InitKeys[i] ELSE txns[i].key
    BY <1>1, <1>4, <1>5, RequestType
  <1>7. \A k : (Loaded(k) = Loaded(k)') /\ (Inserted(k) = Inserted(k)')
    BY <1>1 DEF Loaded, Inserted, Handled, Share, num_thread
  <1>8. ASSUME NEW k \in Keys
        PROVE  Earlier(k)' = Earlier(k) + Cardinality(Taken(k)) /\ Earlier(k)' \in Nat
    <2>1. CASE phase = "load"
      <3>1. Taken(k) = Loaded(k)
        BY <1>4, <1>6, <2>1 DEF Taken, Loaded, Size
      <3>2. Earlier(k) = 0 /\ Earlier(k)' = Cardinality(Loaded(k))
        BY <1>1, <1>7, <2>1 DEF Earlier
      <3> QED  BY <3>1, <3>2, LoadedIsFinite
    <2>2. CASE phase = "run"
      <3>1. Taken(k) = Inserted(k)
        BY <1>4, <1>6, <2>2 DEF Taken, Inserted, Size
      <3>2. /\ Earlier(k) = Cardinality(Loaded(k))
            /\ Earlier(k)' = Cardinality(Loaded(k)) + Cardinality(Inserted(k))
        BY <1>1, <1>7, <2>2 DEF Earlier
      <3> QED  BY <3>1, <3>2, LoadedIsFinite
    <2> QED  BY <1>1, <2>1, <2>2
  <1>9. \A k \in Keys : /\ \A j \in 1 .. Len(table'[k]) : table'[k][j] = k
                        /\ Len(table'[k]) = Earlier(k)' + Cardinality(Taken(k)')
    BY <1>1, <1>3, <1>8 DEF RecordInv
  <1>10. LoadedKeysAreFound'
    <2>1. \A t \in Threads : op'[t].kind = "none"
      BY <1>1, NoOpIsNoCall DEF Joined
    <2> QED  BY <2>1 DEF LoadedKeysAreFound
  <1> QED  BY <1>9, <1>10 DEF RecordInv

LEMMA RecordInvNext ==
    ASSUME RecordInv, DriverInv, IdInv, [YcsbNext]_allVars
    PROVE  RecordInv'
  <1>1. CASE SetCpu \/ ReadFiles
    BY <1>1, RecordInvBetweenPhases
  <1>2. CASE JoinAndSpawn
    BY <1>2, RecordInvJoin
  <1>3. ASSUME NEW t \in Threads, ThreadStep(t)
        PROVE  RecordInv'
    <2>1. CASE FetchId(t)
      BY <2>1, RecordInvFetch
    <2>2. CASE Call(t)
      BY <2>2, RecordInvCall
    <2>3. CASE InsideCall(t)
      BY <2>3, RecordInvInsert, RecordInvLookup DEF InsideCall
    <2>4. CASE EndCall(t)
      BY <2>4, RecordInvEnd
    <2> QED  BY <1>3, <2>1, <2>2, <2>3, <2>4 DEF ThreadStep
  <1>4. CASE UNCHANGED allVars
    <2>1. UNCHANGED <<phase, txns, table, thread_id, index, op, answer>>
      BY <1>4 DEF allVars, driverVars, vars
    <2>2. ASSUME NEW t \in Threads, NEW i \in Nat
          PROVE  (t \in Started /\ Handles(t, i))' <=> (t \in Started /\ Handles(t, i))
      BY <2>1 DEF Started, Handles, start_key, Share, Size, num_thread, NoOp
    <2>3. LoadedKeysAreFound'
      BY <2>1 DEF RecordInv, LoadedKeysAreFound, Loaded, Handled, Share, num_thread
    <2> QED  BY <2>1, <2>2, <2>3, RecordInvKept
  <1> QED  BY <1>1, <1>2, <1>3, <1>4 DEF YcsbNext

LEMMA RecordsAlways == YcsbSpec => [](IdInv /\ DriverInv /\ RecordInv)
  <1> DEFINE Inv == IdInv /\ DriverInv /\ RecordInv
  <1>1. YcsbInit => Inv
    BY IdInvInit, DriverInvInit, RecordInvInit
  <1>2. Inv /\ [YcsbNext]_allVars => Inv'
    BY IdInvNext, DriverInvNext, RecordInvNext
  <1> QED  BY <1>1, <1>2, PTL DEF YcsbSpec

(* Whatever the files hold and however the threads run, no record is        *)
(* handled twice and none of a share is left out: after a phase each key    *)
(* has a value for each of its inserts in the shares, and no more than one  *)
(* for each in the files (ycsb.cpp:266-287, 298-328).                       *)
THEOREM RecordsAreHandledOnce == YcsbSpec => []EachRecordOnce
  <1>1. IdInv /\ DriverInv /\ RecordInv => EachRecordOnce
    <2> SUFFICES ASSUME RecordInv, BetweenPhases, NEW k \in Keys
                 PROVE  /\ phase = "run" =>
                               Len(table[k]) \in Cardinality(Loaded(k)) .. Cardinality(LoadRecords(k))
                        /\ phase = "end" =>
                               Len(table[k]) \in Cardinality(Loaded(k)) + Cardinality(Inserted(k))
                                   .. Cardinality(LoadRecords(k)) + Cardinality(InsertRecords(k))
      BY DEF EachRecordOnce
    <2>1. Started = {}
      BY DEF BetweenPhases, Started
    <2>2. Len(table[k]) = Earlier(k) + 0
      BY <2>1, NothingTaken DEF RecordInv
    <2> QED  BY <2>2, LoadedIsFinite, FilesHoldShares DEF Earlier
  <1> QED  BY <1>1, RecordsAlways, PTL

(* A read of a key that was loaded finds it (ycsb.cpp:313). *)
THEOREM ReadsFindLoadedKeys == YcsbSpec => []LoadedKeysAreFound
  <1>1. IdInv /\ DriverInv /\ RecordInv => LoadedKeysAreFound
    BY DEF RecordInv
  <1> QED  BY <1>1, RecordsAlways, PTL

=============================================================================
