-------------------------- MODULE StreamGatewayProofs -------------------------
(***************************************************************************)
(* Theorems about the stream gateway, for every log, either store, every   *)
(* interleaving of its handlers and every number of crashes.               *)
(***************************************************************************)
EXTENDS StreamGateway, FiniteSums, SequenceTheorems

(* The logs of card c, and its settlements and provisions.                 *)
OfCard(c)      == {i \in 1 .. Len(log) : log[i].card = c}
Settlements(c) == {i \in OfCard(c) : log[i].kind = "SettlementFlushed"}
Provisions(c)  == {i \in OfCard(c) : log[i].kind = "PaycardProvisioned"}

(* What the logs in S amount to.                                           *)
TotalIn(events, S) == SumFunctionOnSet([i \in 1 .. Len(events) |-> events[i].amount], S)
Total(S) == TotalIn(log, S)

(* The last of the logs in S that is about card c.                         *)
LastOf(c, S, i) ==
  i \in S /\ log[i].card = c /\ \A j \in S : log[j].card = c => j <= i

(* Each event continues from the one before it on its card.                *)
Follows(c, i) ==
  \/ /\ log[i].kind = "PaycardProvisioned"
     /\ log[i].left = log[i].amount /\ log[i].left > 0
  \/ \E j \in 1 .. i - 1 :
       /\ LastOf(c, 1 .. i - 1, j)
       /\ \/ /\ log[i].kind = "SettlementFlushed"
             /\ log[i].left = log[j].left - log[i].amount
          \/ log[i].kind = "ResidualDeltaReclaimed" /\ log[i].left = 0

(* The last event of a card leaves what the Vault holds.                   *)
EndsAtVault(c) ==
  phase[c] # "none" => \E j \in 1 .. Len(log) :
                         LastOf(c, 1 .. Len(log), j) /\ avail[c] = log[j].left

(* While a card is open its one provision is its balance and what was      *)
(* settled, and it was not reclaimed.                                      *)
OpenFacts(c) ==
  /\ avail[c] > 0
  /\ \A i \in OfCard(c) : log[i].kind # "ResidualDeltaReclaimed"
  /\ \A p, q \in Provisions(c) : p = q
  /\ \E p \in Provisions(c) : log[p].amount = avail[c] + Total(Settlements(c))

(* How the phase of a card shows in the log.                               *)
LogFacts(c) ==
  /\ phase[c] = "none" => OfCard(c) = {}
  /\ phase[c] = "open" => OpenFacts(c)
  /\ phase[c] # "open" => avail[c] = 0
  /\ EndsAtVault(c)
  /\ \A i \in OfCard(c) : Follows(c, i)

LogInv == \A c \in Cards : LogFacts(c)

-------------------------------------------------------------------------------
(* The logs whose handleLog call waits for its block.                      *)
InFlight == ToSet(awaiting)

(* The logs that will not be taken in again.                               *)
Taken == eventKeys \cup (seen \ InFlight)

(* The projection, or the one that the next start will load.               *)
Image ==
  IF stage # "down" THEN store
  ELSE IF durable /\ snapshot # Corrupt THEN snapshot ELSE NoStore

(* A log is known from the moment its call is made, its call is made once, *)
(* and a durable store has recorded every log whose call is over.          *)
CallInv ==
  /\ seen \subseteq 1 .. Len(log) /\ eventKeys \subseteq 1 .. Len(log)
  /\ \A k \in 1 .. Len(todo) : todo[k] <= Len(log)
  /\ InFlight \subseteq seen \ eventKeys
  /\ \A k, m \in DOMAIN awaiting : awaiting[k] = awaiting[m] => k = m
  /\ stage = "down" => seen = {} /\ awaiting = <<>>
  /\ blocked => stage = "replaying" /\ todo # <<>>
  /\ durable => Taken \subseteq eventKeys
  /\ ~durable => eventKeys = {}

(* The snapshot is what is in memory, unless a crash truncated it.         *)
FileInv ==
  /\ stage = "down" => store = NoStore
  /\ durable /\ stage # "down" => snapshot = store \/ snapshot = Corrupt
  /\ ~corrupted => snapshot \in [Cards -> StreamType]

IInv == TypeOK /\ Len(log) <= MaxLog /\ LogInv /\ CallInv /\ FileInv

(* What the projection has and what it was right to subtract are no less   *)
(* than the card's pool: an open card cannot fall short.                   *)
Backed(c) ==
  phase[c] = "open" /\ Image[c] # NoStream =>
    \A p \in Provisions(c) :
      Image[c].available + Total(Settlements(c) \cap Taken) >= log[p].amount

Shown(c) ==
  /\ Image[c].status = "None" => Image[c] = NoStream
  /\ phase[c] = "none" => Image[c] = NoStream
  /\ Image[c].status = "Terminated" => phase[c] = "closed"
  /\ Backed(c)

ShownInv == \A c \in Cards : Shown(c)

(* The history of the projection that survives.                            *)
Surviving == ~corrupted /\ (durable \/ stage # "down")

(* The projection shows the last log of the card that it has taken in.     *)
ShowsLast(c) ==
  \/ Image[c] = NoStream /\ OfCard(c) \cap applied = {}
  \/ \E i \in applied :
       /\ LastOf(c, applied, i) /\ Image[c] # NoStream
       /\ Image[c].available = log[i].left
       /\ Image[c].status = "Terminated" <=> log[i].left = 0

ExactInv ==
  Surviving =>
    applied \subseteq Taken /\ \A c \in Cards \ (overtaken \cup torn) : ShowsLast(c)

-------------------------------------------------------------------------------
(* The log and the Vault.                                                  *)

EventType == [kind : Vault!Kinds, card : Cards, amount : Nat, left : Nat]

(* What a log holds.                                                       *)
LEMMA EventsTyped ==
  ASSUME NEW events \in Seq(EventType)
  PROVE  Len(events) \in Nat /\ \A i \in 1 .. Len(events) : events[i] \in EventType
BY LenProperties, ElementOfSeq

(* What TypeOK says of the log.                                            *)
LEMMA LogTyped ==
  ASSUME Vault!TypeOK
  PROVE  /\ log \in Seq(EventType) /\ Len(log) \in Nat
         /\ \A i \in 1 .. Len(log) : log[i] \in EventType
         /\ phase \in [Cards -> {"none", "open", "closed"}]
         /\ avail \in [Cards -> Nat]
<1>1. log \in Seq(EventType)
  BY DEF Vault!TypeOK, EventType
<1>2. Len(log) \in Nat /\ \A i \in 1 .. Len(log) : log[i] \in EventType
  BY <1>1, EventsTyped
<1> QED  BY <1>1, <1>2 DEF Vault!TypeOK

(* A transaction makes the log k events of card c longer.                  *)
Grown(c, k) ==
  /\ Vault!TypeOK' /\ Len(log') = Len(log) + k /\ Len(log') <= MaxLog
  /\ \A i \in 1 .. Len(log) : log'[i] = log[i]
  /\ \A i \in Len(log) + 1 .. Len(log') : log'[i].card = c
  /\ \A b \in Cards : b # c => phase'[b] = phase[b] /\ avail'[b] = avail[b]

(* Log i is a settlement from the balance the card had.                    *)
SettledFrom(c, i) ==
  /\ log'[i].kind = "SettlementFlushed"
  /\ log'[i].left = avail[c] - log'[i].amount

(* The three ways the log grows.                                           *)
Opens(c) ==
  /\ Grown(c, 1) /\ phase[c] = "none" /\ phase'[c] = "open"
  /\ log'[Len(log) + 1].kind = "PaycardProvisioned"
  /\ log'[Len(log) + 1].amount = avail'[c] /\ log'[Len(log) + 1].left = avail'[c]
  /\ avail'[c] > 0

Settles(c) ==
  /\ Grown(c, 1) /\ phase[c] = "open"
  /\ phase'[c] = IF avail'[c] = 0 THEN "closed" ELSE "open"
  /\ SettledFrom(c, Len(log) + 1) /\ log'[Len(log) + 1].left = avail'[c]

Closes(c) ==
  /\ phase[c] = "open" /\ phase'[c] = "closed" /\ avail'[c] = 0
  /\ \E k \in {1, 2} :
       /\ Grown(c, k)
       /\ k = 2 => SettledFrom(c, Len(log) + 1)
       /\ log'[Len(log) + k].kind = "ResidualDeltaReclaimed"
       /\ log'[Len(log) + k].left = 0

(* What a transaction that emits the events e does.                        *)
LEMMA EmitGrows ==
  ASSUME Vault!TypeOK, NEW c \in Cards, NEW left \in Nat, NEW e \in Seq(EventType),
         \A i \in 1 .. Len(e) : e[i].card = c, Vault!Emit(c, e, left)
  PROVE  /\ Grown(c, Len(e)) /\ Len(log) \in Nat /\ avail'[c] = left
         /\ phase'[c] = IF left = 0 THEN "closed" ELSE "open"
         /\ \A i \in 1 .. Len(e) : log'[Len(log) + i] = e[i]
<1>1. log' = log \o e /\ Len(log) + Len(e) <= MaxLog
  BY DEF Vault!Emit
<1>2. log \in Seq(EventType) /\ Len(log) \in Nat /\ Len(e) \in Nat
  BY LogTyped, LenProperties
<1>3. /\ log' \in Seq(EventType) /\ Len(log') = Len(log) + Len(e)
      /\ \A i \in 1 .. Len(log) + Len(e) :
           log'[i] = IF i <= Len(log) THEN log[i] ELSE e[i - Len(log)]
  BY <1>1, <1>2, ConcatProperties
<1>4. \A i \in 1 .. Len(log) : log'[i] = log[i]
  BY <1>2, <1>3
<1>5. \A i \in 1 .. Len(e) : log'[Len(log) + i] = e[i]
  <2> SUFFICES ASSUME NEW i \in 1 .. Len(e) PROVE log'[Len(log) + i] = e[i]
    OBVIOUS
  <2>1. /\ Len(log) + i \in 1 .. Len(log) + Len(e) /\ ~(Len(log) + i <= Len(log))
        /\ (Len(log) + i) - Len(log) = i
    BY <1>2
  <2> QED  BY <1>3, <2>1
<1>6. ASSUME NEW i \in Len(log) + 1 .. Len(log') PROVE log'[i].card = c
  <2>1. i - Len(log) \in 1 .. Len(e) /\ i = Len(log) + (i - Len(log))
    BY <1>2, <1>3
  <2> QED  BY <1>5, <2>1
<1>7. /\ avail' \in [Cards -> Nat] /\ phase' \in [Cards -> {"none", "open", "closed"}]
      /\ avail'[c] = left /\ phase'[c] = IF left = 0 THEN "closed" ELSE "open"
      /\ \A b \in Cards : b # c => phase'[b] = phase[b] /\ avail'[b] = avail[b]
  BY LogTyped DEF Vault!Emit
<1>8. Vault!TypeOK'
  BY <1>3, <1>7 DEF Vault!TypeOK, EventType
<1>9. Len(log') <= MaxLog
  BY <1>1, <1>3
<1> QED  BY <1>2, <1>3, <1>4, <1>5, <1>6, <1>7, <1>8, <1>9 DEF Grown

(* Every transaction of the Vault is one of the three.                     *)
LEMMA VaultGrows ==
  ASSUME Vault!TypeOK, Vault!Next
  PROVE  \E c \in Cards : Opens(c) \/ Settles(c) \/ Closes(c)
<1>1. PICK c \in Cards : Vault!Provision(c) \/ Vault!Settle(c) \/ Vault!Flush(c)
  BY DEF Vault!Next
<1>2. avail[c] \in Nat
  BY LogTyped
<1>3. ASSUME NEW kind \in Vault!Kinds, NEW amount \in Nat, NEW left \in Nat,
             NEW x, x = Vault!Event(kind, c, amount, left)
      PROVE  /\ x \in EventType /\ x.card = c /\ x.kind = kind
             /\ x.amount = amount /\ x.left = left
  BY <1>3 DEF Vault!Event, EventType
<1>4. ASSUME NEW x \in EventType, x.card = c, NEW left \in Nat, Vault!Emit(c, <<x>>, left)
      PROVE  /\ Grown(c, 1) /\ avail'[c] = left /\ log'[Len(log) + 1] = x
             /\ phase'[c] = IF left = 0 THEN "closed" ELSE "open"
  <2> DEFINE e == <<x>>
  <2>1. e \in Seq(EventType) /\ Len(e) = 1 /\ 1 \in 1 .. Len(e) /\ e[1] = x
    BY <1>4
  <2>2. \A i \in 1 .. Len(e) : e[i].card = c
    BY <1>4, <2>1
  <2> HIDE DEF e
  <2>3. Vault!Emit(c, e, left)
    BY <1>4 DEF e
  <2>4. /\ Grown(c, Len(e)) /\ avail'[c] = left
        /\ phase'[c] = IF left = 0 THEN "closed" ELSE "open"
        /\ \A i \in 1 .. Len(e) : log'[Len(log) + i] = e[i]
    <3>1. Vault!TypeOK /\ c \in Cards /\ left \in Nat /\ e \in Seq(EventType)
      BY <2>1
    <3> QED  BY <2>2, <2>3, <3>1, EmitGrows
  <2>5. log'[Len(log) + 1] = x
    BY <2>1, <2>4
  <2>6. Grown(c, 1)
    BY <2>1, <2>4
  <2> QED  BY <2>4, <2>5, <2>6
<1>5. CASE Vault!Provision(c)
  <2>1. PICK pool \in Pools :
          Vault!Emit(c, <<Vault!Event("PaycardProvisioned", c, pool, pool)>>, pool)
    BY <1>5 DEF Vault!Provision
  <2>2. PICK x : x = Vault!Event("PaycardProvisioned", c, pool, pool)
    OBVIOUS
  <2>3. pool \in Nat /\ pool > 0 /\ "PaycardProvisioned" \in Vault!Kinds
    BY GatewayAssumption DEF Vault!Kinds
  <2>4. /\ x \in EventType /\ x.card = c /\ x.kind = "PaycardProvisioned"
        /\ x.amount = pool /\ x.left = pool
    BY <1>3, <2>2, <2>3
  <2>5. Vault!Emit(c, <<x>>, pool) /\ phase[c] = "none"
    BY <1>5, <2>1, <2>2 DEF Vault!Provision
  <2>6. /\ Grown(c, 1) /\ avail'[c] = pool /\ log'[Len(log) + 1] = x
        /\ phase'[c] = IF pool = 0 THEN "closed" ELSE "open"
    BY <1>4, <2>3, <2>4, <2>5
  <2> QED  BY <2>3, <2>4, <2>5, <2>6 DEF Opens
<1>6. CASE Vault!Settle(c)
  <2>1. PICK amount \in 1 .. avail[c] :
          Vault!Emit(c, <<Vault!Event("SettlementFlushed", c, amount, avail[c] - amount)>>,
                     avail[c] - amount)
    BY <1>6 DEF Vault!Settle
  <2>2. PICK left : left = avail[c] - amount
    OBVIOUS
  <2>3. PICK x : x = Vault!Event("SettlementFlushed", c, amount, left)
    OBVIOUS
  <2>4. amount \in Nat /\ left \in Nat /\ "SettlementFlushed" \in Vault!Kinds
    BY <1>2, <2>2 DEF Vault!Kinds
  <2>5. /\ x \in EventType /\ x.card = c /\ x.kind = "SettlementFlushed"
        /\ x.amount = amount /\ x.left = left
    BY <1>3, <2>3, <2>4
  <2>6. Vault!Emit(c, <<x>>, left) /\ phase[c] = "open"
    BY <1>6, <2>1, <2>2, <2>3 DEF Vault!Settle
  <2>7. /\ Grown(c, 1) /\ avail'[c] = left /\ log'[Len(log) + 1] = x
        /\ phase'[c] = IF left = 0 THEN "closed" ELSE "open"
    BY <1>4, <2>4, <2>5, <2>6
  <2> QED  BY <2>2, <2>5, <2>6, <2>7 DEF Settles, SettledFrom
<1>7. CASE Vault!Flush(c)
  <2>1. PICK amount \in 0 .. avail[c] - 1 :
          LET rest == avail[c] - amount
              settled == Vault!Event("SettlementFlushed", c, amount, rest)
              reclaimed == Vault!Event("ResidualDeltaReclaimed", c, rest, 0)
          IN  Vault!Emit(c, IF amount = 0 THEN <<reclaimed>> ELSE <<settled, reclaimed>>, 0)
    BY <1>7 DEF Vault!Flush
  <2>2. PICK rest : rest = avail[c] - amount
    OBVIOUS
  <2>3. PICK x : x = Vault!Event("SettlementFlushed", c, amount, rest)
    OBVIOUS
  <2>4. PICK y : y = Vault!Event("ResidualDeltaReclaimed", c, rest, 0)
    OBVIOUS
  <2>5. /\ amount \in Nat /\ rest \in Nat /\ 0 \in Nat
        /\ "SettlementFlushed" \in Vault!Kinds /\ "ResidualDeltaReclaimed" \in Vault!Kinds
    BY <1>2, <2>2 DEF Vault!Kinds
  <2>6. /\ x \in EventType /\ x.card = c /\ x.kind = "SettlementFlushed"
        /\ x.amount = amount /\ x.left = rest
    BY <1>3, <2>3, <2>5
  <2>7. /\ y \in EventType /\ y.card = c /\ y.kind = "ResidualDeltaReclaimed"
        /\ y.left = 0
    BY <1>3, <2>4, <2>5
  <2>8. phase[c] = "open"
    BY <1>7 DEF Vault!Flush
  <2>9. CASE amount = 0
    <3>1. Vault!Emit(c, <<y>>, 0)
      BY <2>1, <2>2, <2>4, <2>9
    <3>2. /\ Grown(c, 1) /\ avail'[c] = 0 /\ log'[Len(log) + 1] = y
          /\ phase'[c] = "closed"
      BY <1>4, <2>5, <2>7, <3>1
    <3> QED  BY <2>7, <2>8, <3>2 DEF Closes
  <2>10. CASE amount # 0
    <3> DEFINE e == <<x, y>>
    <3>1. Vault!Emit(c, e, 0)
      BY <2>1, <2>2, <2>3, <2>4, <2>10
    <3>2. e \in Seq(EventType) /\ Len(e) = 2 /\ e[1] = x /\ e[2] = y
      BY <2>6, <2>7
    <3> HIDE DEF e
    <3>3. \A i \in 1 .. Len(e) : e[i].card = c
      BY <2>6, <2>7, <3>2
    <3>4. /\ Grown(c, Len(e)) /\ avail'[c] = 0 /\ phase'[c] = "closed"
          /\ \A i \in 1 .. Len(e) : log'[Len(log) + i] = e[i]
      BY <2>5, <3>1, <3>2, <3>3, EmitGrows
    <3>5. log'[Len(log) + 1] = x /\ log'[Len(log) + 2] = y
      <4>1. 1 \in 1 .. Len(e) /\ 2 \in 1 .. Len(e)
        BY <3>2
      <4> QED  BY <3>2, <3>4, <4>1
    <3>6. Grown(c, 2)
      BY <3>2, <3>4
    <3> QED  BY <2>2, <2>6, <2>7, <2>8, <3>4, <3>5, <3>6 DEF Closes, SettledFrom
  <2> QED  BY <2>9, <2>10
<1> QED  BY <1>1, <1>5, <1>6, <1>7

(* The logs of a card are logs.                                            *)
LEMMA OfCardTyped ==
  ASSUME NEW c
  PROVE  /\ OfCard(c) \subseteq 1 .. Len(log) /\ Settlements(c) \subseteq 1 .. Len(log)
         /\ Settlements(c) \subseteq OfCard(c) /\ Provisions(c) \subseteq OfCard(c)
BY DEF OfCard, Settlements, Provisions

(* A total is a natural and no less than that of a part, and a log joins   *)
(* with its amount.                                                        *)
LEMMA Totals ==
  ASSUME NEW events \in Seq(EventType), NEW T, T \subseteq 1 .. Len(events)
  PROVE  /\ IsFiniteSet(T) /\ TotalIn(events, T) \in Nat
         /\ \A S \in SUBSET T : TotalIn(events, S) <= TotalIn(events, T)
         /\ \A i \in (1 .. Len(events)) \ T :
              TotalIn(events, T \cup {i}) = TotalIn(events, T) + events[i].amount
<1> DEFINE f == [i \in 1 .. Len(events) |-> events[i].amount]
<1>1. IsFiniteSet(T)
  <2>1. IsFiniteSet(1 .. Len(events))
    BY EventsTyped, FS_Interval
  <2> QED  BY <2>1, FS_Subset
<1>2. \A i \in 1 .. Len(events) : f[i] \in Nat /\ f[i] = events[i].amount
  BY EventsTyped DEF EventType
<1> HIDE DEF f
<1>3. \A i \in T : f[i] \in Nat
  BY <1>2
<1>4. SumFunctionOnSet(f, T) \in Nat
  BY <1>1, <1>3, SumNat
<1>5. ASSUME NEW S \in SUBSET T
      PROVE  SumFunctionOnSet(f, S) <= SumFunctionOnSet(f, T)
  BY <1>1, <1>3, SumPart
<1>6. ASSUME NEW i \in (1 .. Len(events)) \ T
      PROVE  SumFunctionOnSet(f, T \cup {i}) = SumFunctionOnSet(f, T) + f[i]
  <2>1. \A m \in T \cup {i} : f[m] \in Int
    BY <1>2
  <2> QED  BY <1>1, <1>6, <2>1, SumJoin
<1> QED  BY <1>1, <1>2, <1>4, <1>5, <1>6 DEF TotalIn, f

(* The total of old logs stays when the log grows.                         *)
LEMMA TotalStays ==
  ASSUME Vault!TypeOK, NEW S, S \subseteq 1 .. Len(log),
         Len(log') \in Nat, Len(log) <= Len(log'),
         \A i \in 1 .. Len(log) : log'[i] = log[i]
  PROVE  TotalIn(log', S) = Total(S)
<1> DEFINE f == [i \in 1 .. Len(log) |-> log[i].amount]
           g == [i \in 1 .. Len(log') |-> log'[i].amount]
<1>1. IsFiniteSet(S)
  BY LogTyped, Totals
<1>2. \A i \in S : f[i] = g[i]
  BY LogTyped
<1> HIDE DEF f, g
<1>3. SumFunctionOnSet(f, S) = SumFunctionOnSet(g, S)
  BY <1>1, <1>2, SumSame
<1> QED  BY <1>3 DEF Total, TotalIn, f, g

(* The logs of a card, when the log has grown.                             *)
LEMMA GrownLogs ==
  ASSUME Vault!TypeOK, NEW c, NEW k \in Nat, Grown(c, k)
  PROVE  /\ Len(log) \in Nat /\ Len(log') \in Nat /\ Len(log') = Len(log) + k
         /\ \A i \in 1 .. Len(log) : i \in 1 .. Len(log') /\ log'[i] = log[i]
         /\ \A b : b # c => /\ OfCard(b)' = OfCard(b)
                            /\ Settlements(b)' = Settlements(b)
                            /\ Provisions(b)' = Provisions(b)
         /\ OfCard(c)' = OfCard(c) \cup (Len(log) + 1 .. Len(log'))
<1>1. Len(log) \in Nat /\ Len(log') = Len(log) + k /\ Len(log') \in Nat
  BY LogTyped DEF Grown
<1>2. \A i \in 1 .. Len(log) : i \in 1 .. Len(log') /\ log'[i] = log[i]
  BY <1>1 DEF Grown
<1>3. \A i \in 1 .. Len(log') :
        i \in 1 .. Len(log) \/ (i \in Len(log) + 1 .. Len(log') /\ log'[i].card = c)
  BY <1>1 DEF Grown
<1>4. ASSUME NEW b, b # c PROVE OfCard(b)' = OfCard(b)
  BY <1>2, <1>3, <1>4 DEF OfCard
<1>5. ASSUME NEW b, b # c
      PROVE  Settlements(b)' = Settlements(b) /\ Provisions(b)' = Provisions(b)
  <2>1. \A i \in OfCard(b) : log'[i] = log[i]
    BY <1>2, OfCardTyped
  <2> QED  BY <1>4, <1>5, <2>1 DEF Settlements, Provisions
<1>6. OfCard(c)' = OfCard(c) \cup (Len(log) + 1 .. Len(log'))
  <2>1. \A i \in Len(log) + 1 .. Len(log') : i \in 1 .. Len(log') /\ log'[i].card = c
    BY <1>1 DEF Grown
  <2> QED  BY <1>2, <1>3, <2>1 DEF OfCard
<1> QED  BY <1>1, <1>2, <1>4, <1>5, <1>6

(* Old events still continue from those before them.                       *)
LEMMA OldFollow ==
  ASSUME Vault!TypeOK, NEW c, NEW k \in Nat, Grown(c, k),
         NEW b, NEW i \in 1 .. Len(log), Follows(b, i)
  PROVE  Follows(b, i)'
<1>1. Len(log) \in Nat /\ \A j \in 1 .. Len(log) : log'[j] = log[j]
  BY GrownLogs
<1>2. log'[i] = log[i] /\ \A j \in 1 .. i - 1 : log'[j] = log[j]
  BY <1>1
<1>3. \A j : LastOf(b, 1 .. i - 1, j) => LastOf(b, 1 .. i - 1, j)'
  BY <1>2 DEF LastOf
<1> QED  BY <1>2, <1>3 DEF Follows

(* What a transaction leaves as it was for the other cards.                *)
LEMMA OthersKeepFacts ==
  ASSUME Vault!TypeOK, LogInv, NEW c \in Cards, NEW k \in Nat, Grown(c, k),
         NEW b \in Cards, b # c
  PROVE  LogFacts(b)'
<1>1. /\ OfCard(b)' = OfCard(b) /\ Settlements(b)' = Settlements(b)
      /\ Provisions(b)' = Provisions(b)
      /\ Len(log) \in Nat /\ Len(log') \in Nat /\ Len(log') = Len(log) + k
      /\ \A i \in 1 .. Len(log) : i \in 1 .. Len(log') /\ log'[i] = log[i]
  BY GrownLogs
<1>2. phase'[b] = phase[b] /\ avail'[b] = avail[b]
  BY DEF Grown
<1>3. LogFacts(b)
  BY DEF LogInv
<1>4. Total(Settlements(b))' = Total(Settlements(b))
  <2>1. Settlements(b) \subseteq 1 .. Len(log) /\ Len(log) <= Len(log')
    BY <1>1, OfCardTyped
  <2>2. TotalIn(log', Settlements(b)) = Total(Settlements(b))
    BY <1>1, <2>1, TotalStays
  <2> QED  BY <1>1, <2>2 DEF Total
<1>5. phase'[b] = "open" => OpenFacts(b)'
  <2> SUFFICES ASSUME phase'[b] = "open" PROVE OpenFacts(b)'
    OBVIOUS
  <2>1. OpenFacts(b)
    BY <1>2, <1>3 DEF LogFacts
  <2>2. \A i \in OfCard(b) : log'[i] = log[i]
    BY <1>1, OfCardTyped
  <2>3. \A p \in Provisions(b) : log'[p] = log[p]
    BY <2>2, OfCardTyped
  <2> QED  BY <1>1, <1>2, <1>4, <2>1, <2>2, <2>3 DEF OpenFacts
<1>6. EndsAtVault(b)'
  <2> SUFFICES ASSUME phase'[b] # "none" PROVE EndsAtVault(b)'
    BY DEF EndsAtVault
  <2>1. PICK j \in 1 .. Len(log) : LastOf(b, 1 .. Len(log), j) /\ avail[b] = log[j].left
    BY <1>2, <1>3 DEF LogFacts, EndsAtVault
  <2>2. j \in 1 .. Len(log') /\ log'[j] = log[j]
    BY <1>1
  <2>3. \A i \in 1 .. Len(log') : log'[i].card = b => i \in 1 .. Len(log) /\ log[i].card = b
    BY <1>1 DEF OfCard
  <2>4. LastOf(b, 1 .. Len(log), j)'
    BY <2>1, <2>2, <2>3 DEF LastOf
  <2> QED  BY <1>2, <2>1, <2>2, <2>4 DEF EndsAtVault
<1>7. ASSUME NEW i \in OfCard(b)' PROVE Follows(b, i)'
  <2>1. i \in OfCard(b) /\ i \in 1 .. Len(log)
    BY <1>1, <1>7, OfCardTyped
  <2>2. Follows(b, i)
    BY <1>3, <2>1 DEF LogFacts
  <2> QED  BY <2>1, <2>2, OldFollow
<1>8. (phase'[b] = "none" => OfCard(b)' = {}) /\ (phase'[b] # "open" => avail'[b] = 0)
  BY <1>1, <1>2, <1>3 DEF LogFacts
<1> QED  BY <1>5, <1>6, <1>7, <1>8 DEF LogFacts

(* The last event before the log grew, seen from the longer log.           *)
LEMMA LastBefore ==
  ASSUME Vault!TypeOK, LogInv, NEW c \in Cards, phase[c] # "none",
         NEW k \in Nat, Grown(c, k)
  PROVE  \E j \in 1 .. Len(log) :
           /\ log'[j].left = avail[c]
           /\ \A n : n = Len(log) => LastOf(c, 1 .. n, j)'
<1>1. \A i \in 1 .. Len(log) : log'[i] = log[i]
  BY GrownLogs
<1>2. PICK j \in 1 .. Len(log) : LastOf(c, 1 .. Len(log), j) /\ avail[c] = log[j].left
  BY DEF LogInv, LogFacts, EndsAtVault
<1>3. ASSUME NEW n, n = Len(log) PROVE LastOf(c, 1 .. n, j)'
  BY <1>1, <1>2, <1>3 DEF LastOf
<1> QED  BY <1>1, <1>2, <1>3

(* The last event of the log is the last of its card.                      *)
LEMMA LastOfLog ==
  ASSUME NEW c, NEW n \in Nat, n > 0, log'[n].card = c
  PROVE  LastOf(c, 1 .. n, n)'
BY DEF LastOf

(* A card that opens has one provision and nothing settled.                *)
LEMMA OpensKeepsFacts ==
  ASSUME Vault!TypeOK, LogInv, NEW c \in Cards, Opens(c)
  PROVE  LogFacts(c)'
<1> DEFINE n == Len(log)
<1>1. /\ Grown(c, 1) /\ n \in Nat /\ Len(log') = n + 1
      /\ OfCard(c)' = OfCard(c) \cup (n + 1 .. Len(log'))
  BY GrownLogs DEF Opens
<1>2. /\ phase'[c] = "open" /\ avail'[c] > 0 /\ log'[n + 1].card = c
      /\ log'[n + 1].kind = "PaycardProvisioned"
      /\ log'[n + 1].amount = avail'[c] /\ log'[n + 1].left = avail'[c]
  BY <1>1 DEF Opens, Grown
<1>3. OfCard(c)' = {n + 1}
  <2>1. OfCard(c) = {}
    BY DEF LogInv, LogFacts, Opens
  <2> QED  BY <1>1, <2>1
<1>4. Provisions(c)' = {n + 1} /\ Settlements(c)' = {}
  BY <1>2, <1>3 DEF Provisions, Settlements
<1>5. Total(Settlements(c))' = 0
  BY <1>4, SumEmpty DEF Total, TotalIn
<1>6. OpenFacts(c)'
  <2>1. avail'[c] \in Nat
    BY <1>1 DEF Grown, Vault!TypeOK
  <2> HIDE DEF n
  <2>2. log'[n + 1].amount = avail'[c] + Total(Settlements(c))'
    BY <1>2, <1>5, <2>1
  <2> QED  BY <1>2, <1>3, <1>4, <2>2 DEF OpenFacts
<1>7. \A i : i = n + 1 => Follows(c, i)'
  BY <1>2 DEF Follows
<1>8. EndsAtVault(c)'
  <2>1. LastOf(c, 1 .. Len(log), Len(log))'
    BY <1>1, <1>2 DEF LastOf
  <2>2. Len(log') \in 1 .. Len(log') /\ avail'[c] = log'[Len(log')].left
    BY <1>1, <1>2
  <2> QED  BY <2>1, <2>2 DEF EndsAtVault
<1>9. \A i \in OfCard(c)' : Follows(c, i)'
  BY <1>3, <1>7
<1> QED  BY <1>2, <1>6, <1>8, <1>9 DEF LogFacts

(* A settlement continues from the last event of its card.                 *)
LEMMA SettlementFollows ==
  ASSUME Vault!TypeOK, LogInv, NEW c \in Cards, phase[c] # "none",
         NEW k \in Nat, Grown(c, k), SettledFrom(c, Len(log) + 1)
  PROVE  \A i : i = Len(log) + 1 => Follows(c, i)'
<1> SUFFICES ASSUME NEW i, i = Len(log) + 1 PROVE Follows(c, i)'
  OBVIOUS
<1>1. PICK j \in 1 .. Len(log) : /\ log'[j].left = avail[c]
                                 /\ \A n : n = Len(log) => LastOf(c, 1 .. n, j)'
  BY LastBefore
<1>2. i - 1 = Len(log) /\ Len(log) \in Nat
  BY LogTyped
<1>3. LastOf(c, 1 .. i - 1, j)' /\ j \in 1 .. i - 1
  BY <1>1, <1>2
<1>4. log'[i].kind = "SettlementFlushed" /\ log'[i].left = log'[j].left - log'[i].amount
  BY <1>1 DEF SettledFrom
<1> QED  BY <1>3, <1>4 DEF Follows

(* A settlement takes from the balance what it adds to the settled.        *)
LEMMA SettlesKeepsFacts ==
  ASSUME Vault!TypeOK, LogInv, NEW c \in Cards, Settles(c)
  PROVE  LogFacts(c)'
<1> DEFINE n == Len(log)
<1>1. /\ Grown(c, 1) /\ n \in Nat /\ Len(log') = n + 1
      /\ OfCard(c)' = OfCard(c) \cup (n + 1 .. Len(log'))
      /\ \A i \in 1 .. n : i \in 1 .. Len(log') /\ log'[i] = log[i]
  BY GrownLogs DEF Settles
<1>2. /\ phase[c] = "open" /\ phase'[c] = IF avail'[c] = 0 THEN "closed" ELSE "open"
      /\ log'[n + 1].card = c /\ log'[n + 1].kind = "SettlementFlushed"
      /\ log'[n + 1].left = avail[c] - log'[n + 1].amount
      /\ log'[n + 1].left = avail'[c]
  BY <1>1 DEF Settles, Grown, SettledFrom
<1>3. OfCard(c)' = OfCard(c) \cup {n + 1}
  BY <1>1
<1>4. LogFacts(c) /\ OpenFacts(c)
  BY <1>2 DEF LogInv, LogFacts
<1>5. \A i \in OfCard(c) : i \in 1 .. n /\ log'[i] = log[i]
  BY <1>1, OfCardTyped
<1>6. Settlements(c)' = Settlements(c) \cup {n + 1} /\ Provisions(c)' = Provisions(c)
  BY <1>2, <1>3, <1>5 DEF Settlements, Provisions
<1>7. Total(Settlements(c))' = Total(Settlements(c)) + log'[n + 1].amount
  <2>1. log' \in Seq(EventType)
    BY <1>1 DEF Grown, Vault!TypeOK, EventType
  <2>2. /\ Settlements(c) \subseteq 1 .. n /\ Settlements(c) \subseteq 1 .. Len(log')
        /\ n + 1 \in (1 .. Len(log')) \ Settlements(c)
    BY <1>1, OfCardTyped
  <2>3. TotalIn(log', Settlements(c)) = Total(Settlements(c))
    BY <1>1, <2>2, TotalStays
  <2>4. TotalIn(log', Settlements(c) \cup {n + 1})
          = TotalIn(log', Settlements(c)) + log'[n + 1].amount
    BY <2>1, <2>2, Totals
  <2> QED  BY <1>6, <2>3, <2>4 DEF Total
<1>8. avail'[c] \in Nat /\ log'[n + 1].amount \in Nat /\ avail[c] \in Nat
  <2>1. log' \in Seq(EventType) /\ avail' \in [Cards -> Nat] /\ n + 1 \in 1 .. Len(log')
    BY <1>1 DEF Grown, Vault!TypeOK, EventType
  <2>2. log'[n + 1] \in EventType
    BY <2>1, EventsTyped
  <2> QED  BY <2>1, <2>2, LogTyped DEF EventType
<1>9. phase'[c] = "open" => OpenFacts(c)'
  <2> SUFFICES ASSUME phase'[c] = "open" PROVE OpenFacts(c)'
    OBVIOUS
  <2>1. avail'[c] > 0
    BY <1>2, <1>8
  <2>2. \A i \in OfCard(c)' : log'[i].kind # "ResidualDeltaReclaimed"
    BY <1>2, <1>3, <1>4, <1>5 DEF OpenFacts
  <2>3. PICK p \in Provisions(c) : log[p].amount = avail[c] + Total(Settlements(c))
    BY <1>4 DEF OpenFacts
  <2>4. Total(Settlements(c)) \in Nat
    BY LogTyped, OfCardTyped, Totals DEF Total
  <2>5. p \in Provisions(c)' /\ log'[p] = log[p]
    BY <1>5, <1>6, <2>3, OfCardTyped
  <2>6. log'[p].amount = avail'[c] + Total(Settlements(c))'
    BY <1>2, <1>7, <1>8, <2>3, <2>4, <2>5
  <2>7. \A p1, q1 \in Provisions(c)' : p1 = q1
    BY <1>4, <1>6 DEF OpenFacts
  <2> QED  BY <2>1, <2>2, <2>5, <2>6, <2>7 DEF OpenFacts
<1>10. EndsAtVault(c)'
  <2>1. LastOf(c, 1 .. Len(log), Len(log))'
    BY <1>1, <1>2 DEF LastOf
  <2>2. Len(log') \in 1 .. Len(log') /\ avail'[c] = log'[Len(log')].left
    BY <1>1, <1>2
  <2> QED  BY <2>1, <2>2 DEF EndsAtVault
<1>11. \A i \in OfCard(c)' : Follows(c, i)'
  <2>1. \A i : i = n + 1 => Follows(c, i)'
    BY <1>1, <1>2, SettlementFollows DEF Settles
  <2>2. ASSUME NEW i \in OfCard(c) PROVE Follows(c, i)'
    <3>1. Follows(c, i) /\ i \in 1 .. n
      BY <1>4, <1>5, <2>2 DEF LogFacts
    <3> QED  BY <1>1, <3>1, OldFollow
  <2> QED  BY <1>3, <2>1, <2>2
<1>12. phase'[c] # "none" /\ (phase'[c] # "open" => avail'[c] = 0)
  BY <1>2
<1> QED  BY <1>9, <1>10, <1>11, <1>12 DEF LogFacts

(* A flush leaves nothing.                                                 *)
LEMMA ClosesKeepsFacts ==
  ASSUME Vault!TypeOK, LogInv, NEW c \in Cards, Closes(c)
  PROVE  LogFacts(c)'
<1> DEFINE n == Len(log)
<1>1. PICK k \in {1, 2} :
        /\ Grown(c, k) /\ (k = 2 => SettledFrom(c, n + 1))
        /\ log'[n + k].kind = "ResidualDeltaReclaimed" /\ log'[n + k].left = 0
  BY DEF Closes
<1>2. /\ n \in Nat /\ Len(log') = n + k /\ n + k \in n + 1 .. Len(log')
      /\ OfCard(c)' = OfCard(c) \cup (n + 1 .. Len(log'))
      /\ \A i \in 1 .. n : log'[i] = log[i]
  BY <1>1, GrownLogs
<1>3. phase[c] = "open" /\ phase'[c] = "closed" /\ avail'[c] = 0 /\ LogFacts(c)
  BY DEF Closes, LogInv
<1>4. \A i \in n + 1 .. Len(log') : log'[i].card = c
  BY <1>1 DEF Grown
<1>5. EndsAtVault(c)'
  <2>1. LastOf(c, 1 .. Len(log), Len(log))'
    BY <1>2, <1>4 DEF LastOf
  <2>2. Len(log') \in 1 .. Len(log') /\ avail'[c] = log'[Len(log')].left
    BY <1>1, <1>2, <1>3
  <2> QED  BY <2>1, <2>2 DEF EndsAtVault
<1>6. ASSUME NEW i, i = n + k PROVE Follows(c, i)'
  <2>1. log'[i].kind = "ResidualDeltaReclaimed" /\ log'[i].left = 0
    BY <1>1, <1>6
  <2>2. \E j \in 1 .. i - 1 : LastOf(c, 1 .. i - 1, j)'
    <3>1. CASE k = 1
      <4>1. i - 1 = n
        BY <1>2, <1>6, <3>1
      <4>2. PICK j \in 1 .. n : \A m : m = n => LastOf(c, 1 .. m, j)'
        BY <1>1, <1>3, LastBefore
      <4> QED  BY <4>1, <4>2
    <3>2. CASE k = 2
      <4>1. i - 1 \in Nat /\ i - 1 > 0 /\ i - 1 \in 1 .. i - 1 /\ log'[i - 1].card = c
        BY <1>2, <1>4, <1>6, <3>2
      <4> QED  BY <4>1, LastOfLog
    <3> QED  BY <3>1, <3>2
  <2> QED  BY <2>1, <2>2 DEF Follows
<1>7. ASSUME NEW i \in OfCard(c)' PROVE Follows(c, i)'
  <2>1. i \in OfCard(c) \/ i = n + 1 \/ i = n + k
    BY <1>2, <1>7
  <2>2. CASE i \in OfCard(c)
    <3>1. Follows(c, i) /\ i \in 1 .. n
      BY <1>3, <2>2, OfCardTyped DEF LogFacts
    <3> QED  BY <1>1, <3>1, OldFollow
  <2>3. CASE i = n + 1 /\ k = 2
    <3>1. SettledFrom(c, n + 1) /\ phase[c] # "none"
      BY <1>1, <1>3, <2>3
    <3> QED  BY <1>1, <2>3, <3>1, SettlementFollows
  <2>4. CASE i = n + k
    BY <1>6, <2>4
  <2> QED  BY <2>1, <2>2, <2>3, <2>4
<1> QED  BY <1>3, <1>5, <1>7 DEF LogFacts

(* Every transaction keeps what the log says of the Vault.                 *)
LEMMA VaultKeepsLog ==
  ASSUME Vault!TypeOK, LogInv, Vault!Next
  PROVE  LogInv'
<1>1. PICK c \in Cards : Opens(c) \/ Settles(c) \/ Closes(c)
  BY VaultGrows
<1>2. PICK k \in {1, 2} : Grown(c, k)
  BY <1>1 DEF Opens, Settles, Closes
<1>3. LogFacts(c)'
  BY <1>1, OpensKeepsFacts, SettlesKeepsFacts, ClosesKeepsFacts
<1>4. ASSUME NEW b \in Cards PROVE LogFacts(b)'
  <2>1. CASE b # c
    BY <1>2, <2>1, OthersKeepFacts
  <2>2. CASE b = c
    BY <1>3, <2>2
  <2> QED  BY <2>1, <2>2
<1> QED  BY <1>4 DEF LogInv

(* The same for the steps that leave the log alone.                        *)
LEMMA QuietKeepsLog ==
  ASSUME LogInv, UNCHANGED <<phase, avail, log>>
  PROVE  LogInv'
<1>1. ASSUME NEW c \in Cards PROVE LogFacts(c)'
  <2>1. LogFacts(c)
    BY DEF LogInv
  <2>2. /\ OfCard(c)' = OfCard(c) /\ Settlements(c)' = Settlements(c)
        /\ Provisions(c)' = Provisions(c)
    BY DEF OfCard, Settlements, Provisions
  <2>3. Total(Settlements(c))' = Total(Settlements(c))
    BY <2>2 DEF Total
  <2>4. EndsAtVault(c)' = EndsAtVault(c) /\ \A i : Follows(c, i)' = Follows(c, i)
    BY DEF EndsAtVault, Follows, LastOf
  <2> QED  BY <2>1, <2>2, <2>3, <2>4 DEF LogFacts, OpenFacts
<1> QED  BY <1>1 DEF LogInv

-------------------------------------------------------------------------------
(* The calls and the files.                                                *)

(* What a call leaves in the sequence of those that wait.                  *)
LEMMA RemoveOne ==
  ASSUME NEW S, NEW s \in Seq(S), NEW k \in DOMAIN s,
         \A j, m \in DOMAIN s : s[j] = s[m] => j = m
  PROVE  /\ RemoveAt(s, k) \in Seq(S)
         /\ ToSet(RemoveAt(s, k)) = ToSet(s) \ {s[k]}
         /\ \A j, m \in DOMAIN RemoveAt(s, k) :
              RemoveAt(s, k)[j] = RemoveAt(s, k)[m] => j = m
<1> DEFINE n == Len(s)
           a == SubSeq(s, 1, k - 1)
           b == SubSeq(s, k + 1, n)
           r == a \o b
<1>1. n \in Nat /\ k \in 1 .. n /\ DOMAIN s = 1 .. n /\ \A j \in 1 .. n : s[j] \in S
  BY LenProperties, ElementOfSeq
<1>2. a \in Seq(S) /\ Len(a) = k - 1 /\ \A j \in 1 .. k - 1 : a[j] = s[j]
  <2>1. 1 \in Int /\ k - 1 \in Int /\ \A j \in 1 .. k - 1 : s[j] \in S
    BY <1>1
  <2>2. /\ a \in Seq(S) /\ Len(a) = IF 1 <= k - 1 THEN k - 1 - 1 + 1 ELSE 0
        /\ \A j \in 1 .. k - 1 - 1 + 1 : a[j] = s[1 + j - 1]
    BY <2>1, SubSeqProperties
  <2> HIDE DEF a
  <2> QED  BY <1>1, <2>2
<1>3. b \in Seq(S) /\ Len(b) = n - k /\ \A j \in 1 .. n - k : b[j] = s[k + j]
  <2>1. k + 1 \in Int /\ n \in Int /\ \A j \in k + 1 .. n : s[j] \in S
    BY <1>1
  <2>2. /\ b \in Seq(S) /\ Len(b) = IF k + 1 <= n THEN n - (k + 1) + 1 ELSE 0
        /\ \A j \in 1 .. n - (k + 1) + 1 : b[j] = s[k + 1 + j - 1]
    BY <2>1, SubSeqProperties
  <2> HIDE DEF b
  <2>3. Len(b) = n - k
    BY <1>1, <2>2
  <2>4. ASSUME NEW j \in 1 .. n - k PROVE b[j] = s[k + j]
    <3>1. j \in 1 .. n - (k + 1) + 1 /\ k + 1 + j - 1 = k + j
      BY <1>1
    <3> QED  BY <2>2, <3>1
  <2> QED  BY <2>2, <2>3, <2>4
<1> HIDE DEF a, b
<1>4. /\ r \in Seq(S) /\ Len(r) = n - 1 /\ DOMAIN r = 1 .. n - 1
      /\ \A j \in 1 .. n - 1 : r[j] = IF j < k THEN s[j] ELSE s[j + 1]
  <2>1. /\ r \in Seq(S) /\ Len(r) = Len(a) + Len(b)
        /\ \A j \in 1 .. Len(a) + Len(b) : r[j] = IF j <= Len(a) THEN a[j] ELSE b[j - Len(a)]
    <3>1. a \in Seq(S) /\ b \in Seq(S)
      BY <1>2, <1>3
    <3> QED  BY <3>1, ConcatProperties
  <2> HIDE DEF r
  <2>2. Len(r) = n - 1 /\ DOMAIN r = 1 .. n - 1
    <3>1. Len(r) = n - 1
      BY <1>1, <1>2, <1>3, <2>1
    <3>2. DOMAIN r = 1 .. Len(r)
      BY <2>1, LenProperties
    <3> QED  BY <3>1, <3>2
  <2>3. ASSUME NEW j \in 1 .. n - 1 PROVE r[j] = IF j < k THEN s[j] ELSE s[j + 1]
    <3>1. CASE j < k
      <4>1. j \in 1 .. Len(a) + Len(b) /\ j <= Len(a) /\ j \in 1 .. k - 1
        BY <1>1, <1>2, <1>3, <3>1
      <4> QED  BY <1>2, <2>1, <3>1, <4>1
    <3>2. CASE ~(j < k)
      <4>1. /\ j \in 1 .. Len(a) + Len(b) /\ ~(j <= Len(a))
            /\ j - Len(a) \in 1 .. n - k /\ k + (j - Len(a)) = j + 1
        BY <1>1, <1>2, <1>3, <3>2
      <4> QED  BY <1>3, <2>1, <3>2, <4>1
    <3> QED  BY <3>1, <3>2
  <2> QED  BY <2>1, <2>2, <2>3
<1>5. RemoveAt(s, k) = r
  BY DEF RemoveAt, a, b
<1> HIDE DEF r
<1>6. ToSet(r) = ToSet(s) \ {s[k]}
  <2>1. ASSUME NEW j \in 1 .. n - 1 PROVE r[j] \in ToSet(s) \ {s[k]}
    <3>1. PICK m \in 1 .. n : r[j] = s[m] /\ m # k
      BY <1>1, <1>4
    <3>2. s[m] # s[k]
      BY <1>1, <3>1
    <3> QED  BY <1>1, <3>1, <3>2 DEF ToSet
  <2>2. ASSUME NEW m \in 1 .. n, m # k PROVE s[m] \in ToSet(r)
    <3>1. CASE m < k
      <4>1. m \in 1 .. n - 1
        BY <1>1, <3>1
      <4> QED  BY <1>4, <3>1, <4>1 DEF ToSet
    <3>2. CASE ~(m < k)
      <4>1. m - 1 \in 1 .. n - 1 /\ ~(m - 1 < k) /\ (m - 1) + 1 = m
        BY <1>1, <2>2, <3>2
      <4>2. r[m - 1] = s[m]
        BY <1>4, <4>1
      <4> QED  BY <1>4, <4>1, <4>2 DEF ToSet
    <3> QED  BY <3>1, <3>2
  <2> QED  BY <1>1, <1>4, <2>1, <2>2 DEF ToSet
<1>7. ASSUME NEW j \in 1 .. n - 1, NEW m \in 1 .. n - 1, r[j] = r[m] PROVE j = m
  <2> DEFINE at(x) == IF x < k THEN x ELSE x + 1
  <2>1. \A x \in 1 .. n - 1 : at(x) \in 1 .. n /\ r[x] = s[at(x)]
    BY <1>1, <1>4
  <2>2. at(j) = at(m)
    <3> HIDE DEF at
    <3> QED  BY <1>1, <1>7, <2>1
  <2> QED  BY <1>1, <2>2
<1> QED  BY <1>4, <1>5, <1>6, <1>7

(* What an added call adds.                                                *)
LEMMA AppendOne ==
  ASSUME NEW S, NEW s \in Seq(S), NEW x \in S, x \notin ToSet(s),
         \A j, m \in DOMAIN s : s[j] = s[m] => j = m
  PROVE  /\ Append(s, x) \in Seq(S) /\ ToSet(Append(s, x)) = ToSet(s) \cup {x}
         /\ \A j, m \in DOMAIN Append(s, x) : Append(s, x)[j] = Append(s, x)[m] => j = m
<1> DEFINE r == Append(s, x)
           n == Len(s)
<1>1. n \in Nat /\ DOMAIN s = 1 .. n
  BY LenProperties
<1>2. /\ r \in Seq(S) /\ Len(r) = n + 1 /\ DOMAIN r = 1 .. n + 1
      /\ (\A j \in 1 .. n : r[j] = s[j]) /\ r[n + 1] = x
  BY <1>1, AppendProperties, LenProperties
<1> HIDE DEF r
<1>3. ToSet(r) = ToSet(s) \cup {x}
  <2>1. \A j \in 1 .. n + 1 : j \in 1 .. n \/ j = n + 1
    BY <1>1
  <2>2. (\A j \in 1 .. n : j \in 1 .. n + 1) /\ n + 1 \in 1 .. n + 1
    BY <1>1
  <2> QED  BY <1>1, <1>2, <2>1, <2>2 DEF ToSet
<1>4. ASSUME NEW j \in 1 .. n + 1, NEW m \in 1 .. n + 1, r[j] = r[m] PROVE j = m
  <2>1. \A p \in 1 .. n + 1 : p # n + 1 => p \in 1 .. n /\ r[p] \in ToSet(s) /\ r[p] = s[p]
    BY <1>1, <1>2 DEF ToSet
  <2>2. CASE j = n + 1 \/ m = n + 1
    BY <1>2, <1>4, <2>1, <2>2
  <2>3. CASE j # n + 1 /\ m # n + 1
    BY <1>1, <1>4, <2>1, <2>3
  <2> QED  BY <2>2, <2>3
<1> QED  BY <1>2, <1>3, <1>4 DEF r

(* What the invariant says of the calls.                                   *)
LEMMA CallFacts ==
  ASSUME IInv
  PROVE  /\ Vault!TypeOK /\ Len(log) \in Nat /\ Len(log) <= MaxLog
         /\ 1 .. Len(log) \subseteq Logs
         /\ awaiting \in Seq(Logs) /\ InFlight \subseteq seen \ eventKeys
         /\ seen \subseteq 1 .. Len(log) /\ eventKeys \subseteq 1 .. Len(log)
         /\ \A k, m \in DOMAIN awaiting : awaiting[k] = awaiting[m] => k = m
         /\ Taken \subseteq 1 .. Len(log)
<1>1. Vault!TypeOK /\ Len(log) \in Nat /\ Len(log) <= MaxLog /\ MaxLog \in Nat
  BY LogTyped, GatewayAssumption DEF IInv, TypeOK
<1>2. 1 .. Len(log) \subseteq Logs
  BY <1>1 DEF Logs
<1>3. awaiting \in Seq(Logs)
  BY DEF IInv, TypeOK
<1> QED  BY <1>1, <1>2, <1>3 DEF IInv, CallInv, Taken

(* A new call waits, and one for a known log changes nothing.              *)
LEMMA HandleFacts ==
  ASSUME IInv, NEW i \in 1 .. Len(log), HandleLog(i), eventKeys' = eventKeys
  PROVE  /\ seen' \subseteq 1 .. Len(log) /\ awaiting' \in Seq(Logs)
         /\ InFlight' \subseteq seen' \ eventKeys
         /\ \A k, m \in DOMAIN awaiting' : awaiting'[k] = awaiting'[m] => k = m
         /\ Taken' = Taken
<1>1. seen' = seen \cup {i} /\ seen' \subseteq 1 .. Len(log)
  BY CallFacts DEF HandleLog
<1>2. CASE Known(i)
  <2>1. awaiting' = awaiting /\ InFlight' = InFlight
    BY <1>2 DEF HandleLog, InFlight
  <2>2. Taken' = Taken
    BY <1>1, <1>2, <2>1, CallFacts DEF Taken, Known
  <2> QED  BY <1>1, <2>1, <2>2, CallFacts
<1>3. CASE ~Known(i)
  <2>1. awaiting' = Append(awaiting, i) /\ i \notin seen /\ i \notin eventKeys
    BY <1>3 DEF HandleLog, Known
  <2>2. awaiting \in Seq(Logs) /\ i \in Logs /\ i \notin ToSet(awaiting)
    BY <2>1, CallFacts DEF InFlight
  <2>3. \A k, m \in DOMAIN awaiting : awaiting[k] = awaiting[m] => k = m
    BY CallFacts
  <2>4. /\ awaiting' \in Seq(Logs) /\ ToSet(awaiting') = ToSet(awaiting) \cup {i}
        /\ \A k, m \in DOMAIN awaiting' : awaiting'[k] = awaiting'[m] => k = m
    BY <2>1, <2>2, <2>3, AppendOne
  <2>5. InFlight' = InFlight \cup {i}
    BY <2>4 DEF InFlight
  <2>6. InFlight \subseteq seen \ eventKeys
    BY CallFacts
  <2>7. Taken' = Taken /\ InFlight' \subseteq seen' \ eventKeys
    BY <1>1, <2>1, <2>5, <2>6 DEF Taken
  <2> QED  BY <1>1, <2>4, <2>7
<1> QED  BY <1>2, <1>3

(* A call that can be answered waits, and it is not taken in.              *)
LEMMA AnswerableFacts ==
  ASSUME IInv, NEW i, Answerable(i)
  PROVE  /\ i \in InFlight /\ i \in 1 .. Len(log) /\ i \notin Taken
         /\ log[i] \in EventType /\ log[i].card \in Cards
         /\ stage # "down"
<1>1. i \in InFlight
  <2>1. CASE InOrder
    <3>1. awaiting # <<>> /\ i = Head(awaiting) /\ awaiting \in Seq(Logs)
      BY <2>1, CallFacts DEF Answerable
    <3>2. 1 \in DOMAIN awaiting /\ i = awaiting[1]
      BY <3>1, EmptySeq, LenProperties
    <3> QED  BY <3>2 DEF InFlight, ToSet
  <2>2. CASE ~InOrder
    BY <2>2 DEF Answerable, InFlight
  <2> QED  BY <2>1, <2>2
<1>2. i \in 1 .. Len(log) /\ i \notin Taken
  BY <1>1, CallFacts DEF Taken
<1>3. log[i] \in EventType
  BY <1>2, CallFacts, LogTyped
<1>4. stage # "down"
  <2>1. awaiting # <<>>
    BY <1>1 DEF InFlight, ToSet
  <2> QED  BY <2>1 DEF IInv, CallInv
<1> QED  BY <1>1, <1>2, <1>3, <1>4 DEF EventType

(* The call of log i is over: the log is taken in.                         *)
LEMMA ReturnFacts ==
  ASSUME IInv, NEW i, Answerable(i), Return(i), RecordEvent(i), seen' = seen
  PROVE  /\ awaiting' \in Seq(Logs)
         /\ InFlight' \subseteq seen \ eventKeys'
         /\ \A k, m \in DOMAIN awaiting' : awaiting'[k] = awaiting'[m] => k = m
         /\ Taken' = Taken \cup {i}
<1>1. PICK k \in DOMAIN awaiting : awaiting[k] = i /\ awaiting' = RemoveAt(awaiting, k)
  BY DEF Return
<1>2. /\ awaiting \in Seq(Logs)
      /\ \A j, m \in DOMAIN awaiting : awaiting[j] = awaiting[m] => j = m
  BY CallFacts
<1>3. /\ awaiting' \in Seq(Logs) /\ ToSet(awaiting') = ToSet(awaiting) \ {i}
      /\ \A j, m \in DOMAIN awaiting' : awaiting'[j] = awaiting'[m] => j = m
  BY <1>1, <1>2, RemoveOne
<1>4. InFlight' = InFlight \ {i}
  BY <1>3 DEF InFlight
<1>5. InFlight \subseteq seen \ eventKeys /\ i \in InFlight
  BY CallFacts, AnswerableFacts
<1>6. eventKeys \subseteq eventKeys' /\ eventKeys' \subseteq eventKeys \cup {i}
  BY DEF RecordEvent
<1>7. InFlight' \subseteq seen \ eventKeys' /\ Taken' = Taken \cup {i}
  BY <1>4, <1>5, <1>6 DEF Taken
<1> QED  BY <1>3, <1>7

(* A log recorded by a process that dies.                                  *)
LEMMA RecordFacts ==
  ASSUME IInv, NEW i, Answerable(i), RecordEvent(i), durable' = durable
  PROVE  /\ eventKeys' \subseteq 1 .. Len(log)
         /\ ~durable => eventKeys' = {}
         /\ durable => eventKeys' = eventKeys \cup {i}
<1>1. eventKeys \subseteq 1 .. Len(log) /\ i \in 1 .. Len(log)
  BY CallFacts, AnswerableFacts
<1>2. ~durable => eventKeys = {}
  BY DEF IInv, CallInv
<1> QED  BY <1>1, <1>2 DEF RecordEvent

-------------------------------------------------------------------------------
(* What a step does to the projection that survives.                       *)

(* The projection stays, but for expired streams that are flagged, or it   *)
(* starts from nothing.                                                    *)
Stays ==
  /\ UNCHANGED <<phase, avail, log, torn>> /\ Taken' = Taken
  /\ \A c \in Cards : Image'[c] \in {Image[c], Expired(Image[c])}
  /\ Surviving' => \/ Surviving /\ UNCHANGED <<applied, overtaken>>
                   \/ applied' = {} /\ \A c \in Cards : Image'[c] = NoStream

(* The process dies: a durable store keeps the projection, unless the      *)
(* snapshot is truncated, and forgets no log.                              *)
Dies ==
  /\ UNCHANGED <<phase, avail, log, applied, overtaken>> /\ torn \subseteq torn'
  /\ \/ \A c \in Cards : Image'[c] = NoStream
     \/ (\A c \in Cards : Image'[c] = Image[c]) /\ Taken \subseteq Taken'
  /\ Surviving' => /\ Surviving /\ Taken \subseteq Taken'
                   /\ \A c \in Cards : Image'[c] = Image[c]

(* A truncated snapshot cannot be read.                                    *)
LEMMA CorruptUnread ==
  ASSUME NEW c \in Cards, snapshot \in [Cards -> StreamType]
  PROVE  snapshot # Corrupt
<1>1. snapshot[c].status \in {"None", "Active", "PendingSettlement", "Terminated"}
  BY DEF StreamType
<1>2. Corrupt[c].status = "Unreadable"
  BY DEF Corrupt
<1> QED  BY <1>1, <1>2

(* The store that holds nothing is a store.                                *)
LEMMA NothingTyped ==
  NoStore \in [Cards -> StreamType] /\ \A c \in Cards : NoStore[c] = NoStream
BY DEF NoStore, NoStream, StreamType

(* The projection is typed.                                                *)
LEMMA ImageTyped ==
  ASSUME IInv
  PROVE  Image \in [Cards -> StreamType]
<1>1. /\ store \in [Cards -> StreamType]
      /\ snapshot = Corrupt \/ snapshot \in [Cards -> StreamType]
  BY DEF IInv, TypeOK
<1> QED  BY <1>1, NothingTyped DEF Image

(* The transactions of the Vault.                                          *)
LEMMA VaultKeepsIInv ==
  ASSUME IInv, VaultStep
  PROVE  /\ IInv' /\ Image' = Image /\ Taken' = Taken /\ Surviving' = Surviving
         /\ UNCHANGED <<applied, overtaken, torn>>
<1>1. /\ UNCHANGED <<durable, lapsed, stage, crashes, head, seen, awaiting, todo,
                     blocked, store, queue, snapshot, eventKeys, applied,
                     overtaken, torn, corrupted>>
      /\ Vault!Next
  BY DEF VaultStep, volatile, diskVars, history
<1>2. PICK c \in Cards, k \in {1, 2} : Grown(c, k)
  BY <1>1, VaultGrows, CallFacts DEF Opens, Settles, Closes
<1>3. /\ Len(log) \in Nat /\ Len(log') \in Nat /\ Len(log) <= Len(log')
      /\ Len(log') <= MaxLog /\ Vault!TypeOK'
  BY <1>2, GrownLogs, CallFacts DEF Grown
<1>4. LogInv'
  BY <1>1, VaultKeepsLog DEF IInv, TypeOK
<1>5. TypeOK'
  BY <1>1, <1>3 DEF IInv, TypeOK
<1>6. InFlight' = InFlight /\ Taken' = Taken
  BY <1>1 DEF InFlight, Taken
<1>7. CallInv'
  <2>1. CallInv
    BY DEF IInv
  <2>2. 1 .. Len(log) \subseteq 1 .. Len(log')
    BY <1>3
  <2>3. \A m \in 1 .. Len(todo) : todo[m] <= Len(log')
    <3>1. \A m \in 1 .. Len(todo) : todo[m] \in Int
      BY GatewayAssumption, ElementOfSeq DEF IInv, TypeOK, Logs
    <3> QED  BY <1>3, <2>1, <3>1 DEF CallInv
  <2> QED  BY <1>1, <1>6, <2>1, <2>2, <2>3 DEF CallInv
<1>8. FileInv' /\ Image' = Image /\ Surviving' = Surviving
  BY <1>1 DEF IInv, FileInv, Image, Surviving
<1> QED  BY <1>1, <1>3, <1>4, <1>5, <1>6, <1>7, <1>8 DEF IInv

(* The start of a gateway that is down.                                    *)
LEMMA StartKeepsIInv ==
  ASSUME IInv, Start
  PROVE  IInv' /\ Stays
<1> DEFINE readable == durable /\ snapshot # Corrupt
           image == IF readable THEN snapshot ELSE NoStore
<1>1. /\ UNCHANGED <<phase, avail, log, durable, lapsed, crashes, seen, awaiting,
                     todo, blocked, snapshot, eventKeys, torn, corrupted>>
      /\ stage = "down" /\ store' = image /\ queue' = Scheduled(image)
      /\ head' = Len(log) /\ stage' \in {"listing", "started"}
      /\ applied' = IF readable THEN applied ELSE {}
      /\ overtaken' = IF durable THEN overtaken ELSE {}
  BY DEF Start, envVars, diskVars
<1>2. Image = image /\ image \in [Cards -> StreamType]
  BY <1>1, ImageTyped DEF Image
<1>3. Image' = Image /\ Taken' = Taken /\ InFlight' = InFlight
  BY <1>1, <1>2 DEF Image, Taken, InFlight
<1>4. /\ Len(log) \in 0 .. MaxLog /\ Scheduled(image) \subseteq Streams
      /\ applied' \subseteq Logs /\ overtaken' \subseteq Cards
  <2>1. applied \subseteq Logs /\ overtaken \subseteq Cards
    BY DEF IInv, TypeOK
  <2> QED  BY <1>1, <2>1, CallFacts, GatewayAssumption DEF Scheduled
<1> HIDE DEF image
<1>5. TypeOK'
  BY <1>1, <1>2, <1>4 DEF IInv, TypeOK, Vault!TypeOK
<1>6. CallInv'
  BY <1>1, <1>3 DEF IInv, CallInv
<1>7. FileInv'
  <2>1. durable => snapshot = store' \/ snapshot = Corrupt
    BY <1>1 DEF image
  <2> QED  BY <1>1, <2>1 DEF IInv, FileInv
<1>8. LogInv' /\ Len(log') <= MaxLog
  BY <1>1, QuietKeepsLog DEF IInv
<1>9. Stays
  <2>1. CASE readable
    BY <1>1, <1>3, <2>1 DEF Stays, Surviving
  <2>2. CASE ~readable
    <3>1. \A c \in Cards : Image'[c] = NoStream
      BY <1>2, <1>3, <2>2, NothingTyped DEF image
    <3> QED  BY <1>1, <1>3, <2>2, <3>1 DEF Stays
  <2> QED  BY <2>1, <2>2
<1> QED  BY <1>5, <1>6, <1>7, <1>8, <1>9 DEF IInv

(* A death, after whatever the call wrote.                                 *)
LEMMA DeathKeepsIInv ==
  ASSUME IInv, LoseMemory, stage # "down", UNCHANGED <<applied, overtaken>>,
         eventKeys \subseteq eventKeys', eventKeys' \subseteq 1 .. Len(log),
         ~durable => eventKeys' = {},
         torn \subseteq torn', torn' \subseteq Cards,
         \/ snapshot' = snapshot /\ corrupted' = corrupted
         \/ snapshot' = Corrupt /\ corrupted' = TRUE
  PROVE  IInv' /\ Dies
<1>1. /\ UNCHANGED <<phase, avail, log, durable, lapsed>>
      /\ stage' = "down" /\ head' = 0 /\ seen' = {} /\ awaiting' = <<>>
      /\ todo' = <<>> /\ blocked' = FALSE /\ store' = NoStore /\ queue' = {}
      /\ crashes' = crashes + 1 /\ crashes < MaxCrashes
  BY DEF LoseMemory, envVars
<1>2. TypeOK'
  <2>1. crashes' \in 0 .. MaxCrashes /\ 0 \in 0 .. MaxLog /\ eventKeys' \subseteq Logs
    BY <1>1, CallFacts, GatewayAssumption DEF IInv, TypeOK
  <2>2. snapshot' = Corrupt' \/ snapshot' \in [Cards -> StreamType]
    <3>1. snapshot = Corrupt \/ snapshot \in [Cards -> StreamType]
      BY DEF IInv, TypeOK
    <3> QED  BY <3>1 DEF Corrupt
  <2>3. /\ awaiting' \in Seq(Logs) /\ todo' \in Seq(Logs)
        /\ store' \in [Cards -> StreamType] /\ corrupted' \in BOOLEAN
    BY <1>1, EmptySeq, NothingTyped DEF IInv, TypeOK
  <2>4. Vault!TypeOK'
    BY <1>1 DEF IInv, TypeOK, Vault!TypeOK
  <2>5. durable' \in Stores /\ lapsed' \subseteq Streams /\ applied' \subseteq Logs
    BY <1>1 DEF IInv, TypeOK
  <2>6. /\ overtaken' \subseteq Cards /\ seen' \subseteq Logs /\ queue' \subseteq Streams
        /\ blocked' \in BOOLEAN
    BY <1>1 DEF IInv, TypeOK
  <2> QED  BY <1>1, <2>1, <2>2, <2>3, <2>4, <2>5, <2>6 DEF TypeOK
<1>3. InFlight' = {} /\ Taken' = eventKeys'
  BY <1>1 DEF InFlight, Taken, ToSet
<1>4. CallInv'
  <2>1. todo' = <<>> /\ Len(todo') = 0 /\ DOMAIN awaiting' = {}
    BY <1>1
  <2> QED  BY <1>1, <1>3, <2>1 DEF CallInv
<1>5. FileInv'
  BY <1>1 DEF IInv, FileInv
<1>6. LogInv' /\ Len(log') <= MaxLog
  BY <1>1, QuietKeepsLog DEF IInv
<1>7. durable => Taken \subseteq Taken'
  BY <1>3 DEF IInv, CallInv
<1>8. ASSUME durable, snapshot' = snapshot, snapshot # Corrupt PROVE Image' = Image
  BY <1>1, <1>8 DEF IInv, FileInv, Image
<1>9. ASSUME ~(durable /\ snapshot' = snapshot /\ snapshot # Corrupt)
      PROVE  \A c \in Cards : Image'[c] = NoStream
  <2>1. Image' = NoStore
    BY <1>1, <1>9 DEF Image
  <2> QED  BY <2>1, NothingTyped
<1>10. ASSUME Surviving', NEW c \in Cards PROVE Surviving /\ Image'[c] = Image[c]
  <2>1. durable /\ ~corrupted /\ snapshot' = snapshot /\ Surviving
    BY <1>1, <1>10 DEF Surviving
  <2>2. snapshot # Corrupt
    BY <2>1, CorruptUnread DEF IInv, FileInv
  <2> QED  BY <1>8, <2>1, <2>2
<1>11. Surviving' => Surviving /\ durable
  BY <1>1 DEF Surviving
<1>12. Dies
  BY <1>1, <1>7, <1>8, <1>9, <1>10, <1>11 DEF Dies
<1> QED  BY <1>2, <1>4, <1>5, <1>6, <1>12 DEF IInv

(* The steps that move calls only: nothing is taken in, and the store and  *)
(* the files stay.                                                         *)
LEMMA CallsKeepIInv ==
  ASSUME IInv, TypeOK', CallInv', Taken' = Taken,
         UNCHANGED <<phase, avail, log, durable, store, snapshot, corrupted,
                     applied, overtaken, torn>>,
         stage' = stage \/ (stage # "down" /\ stage' # "down")
  PROVE  IInv' /\ Stays
<1>1. Image' = Image /\ Surviving' = Surviving
  BY DEF Image, Surviving, NoStore, Corrupt
<1>2. FileInv'
  BY DEF IInv, FileInv, Corrupt, NoStore
<1>3. LogInv' /\ Len(log') <= MaxLog
  BY QuietKeepsLog DEF IInv
<1>4. Stays
  BY <1>1 DEF Stays
<1> QED  BY <1>2, <1>3, <1>4 DEF IInv

(* The clock and the loop of the backfill.                                 *)
LEMMA LoopKeepsIInv ==
  ASSUME IInv, \/ \E c \in Streams : LapseOf(c)
               \/ ListLogs \/ FinishBackfill \/ UNCHANGED vars
  PROVE  IInv' /\ Stays
<1>1. /\ UNCHANGED <<phase, avail, log, durable, crashes, head, seen, awaiting,
                     blocked, store, queue, snapshot, eventKeys, applied,
                     overtaken, torn, corrupted>>
      /\ stage' = stage \/ (stage # "down" /\ stage' \in {"replaying", "started"})
      /\ lapsed' \subseteq lapsed \cup Streams
      /\ todo' = todo \/ todo' = LogsToReplay
  BY DEF LapseOf, ListLogs, FinishBackfill, vars, envVars, volatile, diskVars, history
<1>2. blocked' => stage' = "replaying" /\ todo' # <<>>
  <2>1. blocked => stage = "replaying" /\ todo # <<>>
    BY DEF IInv, CallInv
  <2> QED
    BY <2>1 DEF LapseOf, ListLogs, FinishBackfill, vars, envVars, volatile,
                diskVars, history
<1>3. /\ LogsToReplay \in Seq(Logs) /\ Len(LogsToReplay) = Len(log)
      /\ \A k \in 1 .. Len(LogsToReplay) : LogsToReplay[k] = k
  <2>1. Len(log) \in Nat /\ 1 .. Len(log) \subseteq Logs
    BY CallFacts
  <2> QED  BY <2>1 DEF LogsToReplay
<1>4. todo' \in Seq(Logs) /\ \A k \in 1 .. Len(todo') : todo'[k] <= Len(log)
  <2>1. todo \in Seq(Logs) /\ \A k \in 1 .. Len(todo) : todo[k] <= Len(log)
    BY DEF IInv, TypeOK, CallInv
  <2>2. \A k \in 1 .. Len(LogsToReplay) : LogsToReplay[k] <= Len(log)
    BY <1>3, CallFacts
  <2> QED  BY <1>1, <1>3, <2>1, <2>2
<1>5. InFlight' = InFlight /\ Taken' = Taken
  BY <1>1 DEF InFlight, Taken
<1>6. TypeOK'
  <2>1. lapsed' \subseteq Streams
    BY <1>1 DEF IInv, TypeOK
  <2> QED  BY <1>1, <1>4, <2>1 DEF IInv, TypeOK, Vault!TypeOK, Corrupt
<1>7. CallInv'
  <2>1. stage' = "down" => stage = "down"
    BY <1>1
  <2> QED  BY <1>1, <1>2, <1>4, <1>5, <2>1 DEF IInv, CallInv
<1> QED  BY <1>1, <1>5, <1>6, <1>7, CallsKeepIInv

(* The first half of a call, by a provider or by the backfill.             *)
LEMMA HandleKeepsIInv ==
  ASSUME IInv, ReplayLog \/ \E i \in 1 .. Len(log) : Deliver(i)
  PROVE  IInv' /\ Stays
<1>1. todo \in Seq(Logs) /\ \A k \in 1 .. Len(todo) : todo[k] \in 1 .. Len(log)
  <2>1. todo \in Seq(Logs)
    BY DEF IInv, TypeOK
  <2>2. \A k \in 1 .. Len(todo) : todo[k] \in 1 .. MaxLog /\ todo[k] <= Len(log)
    BY <2>1, ElementOfSeq DEF IInv, CallInv, Logs
  <2> QED  BY <2>1, <2>2, CallFacts, GatewayAssumption
<1>2. /\ UNCHANGED <<phase, avail, log, durable, lapsed, stage, crashes, head, store,
                     queue, snapshot, eventKeys, applied, overtaken, torn, corrupted>>
      /\ stage # "down"
  BY DEF ReplayLog, Deliver, envVars, diskVars, history
<1>3. /\ \E i \in 1 .. Len(log) : HandleLog(i)
      /\ todo' \in Seq(Logs) /\ \A k \in 1 .. Len(todo') : todo'[k] <= Len(log)
      /\ blocked' \in BOOLEAN
      /\ blocked' => stage' = "replaying" /\ todo' # <<>>
  <2>1. /\ blocked \in BOOLEAN
        /\ blocked => stage = "replaying" /\ todo # <<>>
    BY DEF IInv, TypeOK, CallInv
  <2>2. \A k \in 1 .. Len(todo) : todo[k] <= Len(log)
    BY DEF IInv, CallInv
  <2>3. CASE ReplayLog
    <3>1. /\ todo # <<>> /\ HandleLog(Head(todo)) /\ stage = "replaying" /\ ~blocked
          /\ \/ todo' = Tail(todo) /\ blocked' = blocked
             \/ blocked' = TRUE /\ todo' = todo
      BY <2>3 DEF ReplayLog
    <3>2. Head(todo) \in 1 .. Len(log)
      <4>1. Head(todo) = todo[1] /\ 1 \in 1 .. Len(todo)
        BY <1>1, <3>1, EmptySeq, LenProperties
      <4> QED  BY <1>1, <4>1
    <3>3. /\ Tail(todo) \in Seq(Logs) /\ Len(Tail(todo)) = Len(todo) - 1
          /\ \A k \in 1 .. Len(Tail(todo)) : Tail(todo)[k] = todo[k + 1]
      BY <1>1, <3>1, HeadTailProperties
    <3>4. \A k \in 1 .. Len(Tail(todo)) : Tail(todo)[k] <= Len(log)
      <4>1. \A k \in 1 .. Len(todo) - 1 : k + 1 \in 1 .. Len(todo)
        BY <1>1, LenProperties
      <4> QED  BY <2>2, <3>3, <4>1
    <3>5. CASE todo' = Tail(todo) /\ blocked' = blocked
      BY <2>1, <3>1, <3>2, <3>3, <3>4, <3>5
    <3>6. CASE blocked' = TRUE /\ todo' = todo
      BY <1>1, <1>2, <2>2, <3>1, <3>2, <3>6
    <3> QED  BY <3>1, <3>5, <3>6
  <2>4. CASE \E i \in 1 .. Len(log) : Deliver(i)
    <3>1. /\ \E i \in 1 .. Len(log) : HandleLog(i)
          /\ todo' = todo /\ blocked' = blocked
      BY <2>4 DEF Deliver
    <3> QED  BY <1>1, <1>2, <2>1, <2>2, <3>1
  <2> QED  BY <2>3, <2>4
<1>4. PICK i \in 1 .. Len(log) : HandleLog(i)
  BY <1>3
<1>5. /\ seen' \subseteq 1 .. Len(log) /\ awaiting' \in Seq(Logs)
      /\ InFlight' \subseteq seen' \ eventKeys
      /\ \A k, m \in DOMAIN awaiting' : awaiting'[k] = awaiting'[m] => k = m
      /\ Taken' = Taken
  BY <1>2, <1>4, HandleFacts
<1>6. TypeOK'
  BY <1>2, <1>3, <1>5, CallFacts DEF IInv, TypeOK, Vault!TypeOK, Corrupt
<1>7. CallInv'
  BY <1>2, <1>3, <1>5 DEF IInv, CallInv
<1> QED  BY <1>2, <1>5, <1>6, <1>7, CallsKeepIInv

(* The deaths.                                                             *)
LEMMA DiesKeepsIInv ==
  ASSUME IInv, \/ Crash \/ DieInSweep
               \/ \E i \in 1 .. Len(log) : DieAfterRecord(i) \/ DieInSave(i)
  PROVE  IInv' /\ Dies
<1>0. /\ eventKeys \subseteq 1 .. Len(log) /\ (~durable => eventKeys = {})
      /\ torn \subseteq Cards /\ Corrupt' = Corrupt
  BY CallFacts DEF IInv, TypeOK, CallInv, Corrupt
<1>1. CASE Crash
  <2>1. LoseMemory /\ stage # "down" /\ UNCHANGED <<snapshot, eventKeys, applied,
                                                    overtaken, torn, corrupted>>
    BY <1>1 DEF Crash, diskVars, history
  <2> QED  BY <1>0, <2>1, DeathKeepsIInv
<1>2. CASE DieInSweep
  <2>1. /\ LoseMemory /\ stage # "down" /\ snapshot' = Corrupt /\ corrupted' = TRUE
        /\ UNCHANGED <<eventKeys, applied, overtaken, torn>>
    BY <1>2 DEF DieInSweep
  <2> QED  BY <1>0, <2>1, DeathKeepsIInv
<1>3. ASSUME NEW i \in 1 .. Len(log), DieAfterRecord(i) \/ DieInSave(i)
      PROVE  IInv' /\ Dies
  <2>1. /\ Answerable(i) /\ RecordEvent(i) /\ LoseMemory /\ durable
        /\ UNCHANGED <<applied, overtaken>>
        /\ torn' = torn \/ torn' = torn \cup {log[i].card}
        /\ \/ snapshot' = snapshot /\ corrupted' = corrupted
           \/ snapshot' = Corrupt /\ corrupted' = TRUE
    BY <1>3 DEF DieAfterRecord, DieInSave
  <2>2. durable' = durable
    BY <2>1 DEF LoseMemory, envVars
  <2>3. /\ eventKeys \subseteq eventKeys' /\ eventKeys' \subseteq 1 .. Len(log)
        /\ ~durable => eventKeys' = {}
    BY <2>1, <2>2, RecordFacts
  <2>4. stage # "down" /\ log[i].card \in Cards
    BY <2>1, AnswerableFacts
  <2>5. torn \subseteq torn' /\ torn' \subseteq Cards
    BY <1>0, <2>1, <2>4
  <2> QED  BY <2>1, <2>3, <2>4, <2>5, DeathKeepsIInv
<1> QED  BY <1>1, <1>2, <1>3

(* What a save leaves in the file.                                         *)
LEMMA SaveFacts ==
  ASSUME IInv, stage # "down", Save(store'), store' \in [Cards -> StreamType],
         UNCHANGED <<stage, durable, corrupted>>
  PROVE  /\ snapshot' = Corrupt' \/ snapshot' \in [Cards -> StreamType]
         /\ FileInv' /\ Image = store /\ Image' = store'
<1>0. Corrupt' = Corrupt /\ NoStore' = NoStore
  BY DEF Corrupt, NoStore
<1>1. snapshot = Corrupt \/ snapshot \in [Cards -> StreamType]
  BY DEF IInv, TypeOK
<1>2. /\ durable => snapshot = store \/ snapshot = Corrupt
      /\ ~corrupted => snapshot \in [Cards -> StreamType]
  BY DEF IInv, FileInv
<1>3. snapshot' = IF durable /\ store' # store THEN store' ELSE snapshot
  BY DEF Save
<1>4. FileInv'
  BY <1>0, <1>1, <1>2, <1>3 DEF FileInv
<1>5. Image = store /\ Image' = store'
  BY DEF Image
<1> QED  BY <1>0, <1>1, <1>3, <1>4, <1>5

(* What a sweep does to a stream.                                          *)
LEMMA ExpiredFacts ==
  ASSUME NEW s \in StreamType
  PROVE  /\ Expired(s) \in StreamType /\ Expired(s).available = s.available
         /\ Expired(s).status = "None" <=> s.status = "None"
         /\ Expired(s).status = "Terminated" <=> s.status = "Terminated"
         /\ Expired(s) = NoStream <=> s = NoStream
<1>1. /\ s.status \in {"None", "Active", "PendingSettlement", "Terminated"}
      /\ s.available \in Nat /\ s = [status |-> s.status, available |-> s.available]
  BY DEF StreamType
<1>2. CASE s.status = "Active"
  <2>1. Expired(s) = [status |-> "PendingSettlement", available |-> s.available]
    BY <1>1, <1>2 DEF Expired
  <2>2. s # NoStream
    BY <1>2 DEF NoStream
  <2>3. Expired(s) # NoStream
    <3>1. Expired(s).status = "PendingSettlement"
      BY <2>1
    <3>2. NoStream.status = "None"
      BY DEF NoStream
    <3> QED  BY <3>1, <3>2
  <2> QED  BY <1>1, <1>2, <2>1, <2>2, <2>3 DEF StreamType
<1>3. CASE s.status # "Active"
  <2>1. Expired(s) = s
    BY <1>3 DEF Expired
  <2> QED  BY <2>1
<1> QED  BY <1>2, <1>3

(* A sweep.                                                                *)
LEMMA SweepKeepsIInv ==
  ASSUME IInv, SweepExpired
  PROVE  IInv' /\ Stays
<1> DEFINE due == queue \cap lapsed
<1>1. /\ UNCHANGED <<phase, avail, log, durable, lapsed, stage, crashes, head, seen,
                     awaiting, todo, blocked, eventKeys, applied, overtaken, torn,
                     corrupted>>
      /\ stage # "down" /\ queue' = queue \ due /\ Save(store')
      /\ store' = [c \in Cards |-> IF c \in due THEN Expired(store[c]) ELSE store[c]]
  BY DEF SweepExpired, envVars, history
<1> HIDE DEF due
<1>2. store \in [Cards -> StreamType]
  BY DEF IInv, TypeOK
<1>3. store' \in [Cards -> StreamType]
  BY <1>1, <1>2, ExpiredFacts
<1>4. /\ snapshot' = Corrupt' \/ snapshot' \in [Cards -> StreamType]
      /\ FileInv' /\ Image = store /\ Image' = store'
  BY <1>1, <1>3, SaveFacts
<1>5. InFlight' = InFlight /\ Taken' = Taken
  BY <1>1 DEF InFlight, Taken
<1>6. TypeOK'
  <2>1. queue' \subseteq Streams
    BY <1>1 DEF IInv, TypeOK
  <2> QED  BY <1>1, <1>3, <1>4, <2>1 DEF IInv, TypeOK, Vault!TypeOK
<1>7. CallInv'
  BY <1>1, <1>5 DEF IInv, CallInv
<1>8. LogInv' /\ Len(log') <= MaxLog
  BY <1>1, QuietKeepsLog DEF IInv
<1>9. \A c \in Cards : Image'[c] \in {Image[c], Expired(Image[c])}
  BY <1>1, <1>2, <1>4
<1>10. Surviving' = Surviving
  BY <1>1 DEF Surviving
<1>11. Stays
  BY <1>1, <1>5, <1>9, <1>10 DEF Stays
<1> QED  BY <1>4, <1>6, <1>7, <1>8, <1>11 DEF IInv

-------------------------------------------------------------------------------
(* The second half of a call.                                              *)

(* What taking in the event e makes of the stream s.                       *)
After(s, e) ==
  IF e.kind = "PaycardProvisioned" THEN Provisioned(e)
  ELSE IF s = NoStream THEN s
  ELSE IF e.kind = "SettlementFlushed" THEN SettledStream(s, e)
  ELSE ReclaimedStream(s)

(* The stream that an event leaves, field by field.                        *)
LEMMA AfterFacts ==
  ASSUME NEW s \in StreamType, NEW e \in EventType
  PROVE  /\ After(s, e) \in StreamType
         /\ e.kind = "PaycardProvisioned" =>
              /\ After(s, e).status = "Active" /\ After(s, e).available = e.amount
              /\ After(s, e) # NoStream
         /\ e.kind # "PaycardProvisioned" /\ s = NoStream => After(s, e) = s
         /\ e.kind = "SettlementFlushed" /\ s # NoStream =>
              /\ After(s, e).available =
                   IF s.available > e.amount THEN s.available - e.amount ELSE 0
              /\ After(s, e).status =
                   IF s.available <= e.amount THEN "Terminated" ELSE s.status
         /\ e.kind = "ResidualDeltaReclaimed" /\ s # NoStream =>
              /\ After(s, e).available = 0 /\ After(s, e).status = "Terminated"
<1>1. /\ s.status \in {"None", "Active", "PendingSettlement", "Terminated"}
      /\ s.available \in Nat /\ s = [status |-> s.status, available |-> s.available]
      /\ e.amount \in Nat
      /\ e.kind \in {"PaycardProvisioned", "SettlementFlushed", "ResidualDeltaReclaimed"}
  BY DEF StreamType, EventType, Vault!Kinds
<1>2. CASE e.kind = "PaycardProvisioned"
  <2>1. After(s, e) = [status |-> "Active", available |-> e.amount]
    BY <1>2 DEF After, Provisioned
  <2>2. After(s, e).status = "Active" /\ NoStream.status = "None"
    BY <2>1 DEF NoStream
  <2>3. After(s, e) # NoStream
    BY <2>2
  <2> QED  BY <1>1, <1>2, <2>1, <2>3 DEF StreamType
<1>3. CASE e.kind # "PaycardProvisioned" /\ s = NoStream
  BY <1>3 DEF After
<1>4. CASE e.kind = "SettlementFlushed" /\ s # NoStream
  <2> DEFINE a == IF s.available > e.amount THEN s.available - e.amount ELSE 0
             t == IF s.available <= e.amount THEN "Terminated" ELSE s.status
             r == [s EXCEPT !.available = a]
  <2>1. After(s, e) = [s EXCEPT !.available = a, !.status = t]
    BY <1>4 DEF After, SettledStream
  <2>2. a \in Nat /\ t \in {"None", "Active", "PendingSettlement", "Terminated"}
    BY <1>1
  <2> HIDE DEF a, t
  <2>3. /\ r = [status |-> s.status, available |-> a]
        /\ After(s, e) = [r EXCEPT !.status = t]
    BY <1>1, <2>1
  <2> HIDE DEF r
  <2>4. After(s, e) = [status |-> t, available |-> a]
    BY <2>3
  <2>5. After(s, e) \in StreamType /\ After(s, e).available = a /\ After(s, e).status = t
    BY <2>2, <2>4 DEF StreamType
  <2> QED  BY <1>4, <2>5 DEF a, t
<1>5. CASE e.kind = "ResidualDeltaReclaimed" /\ s # NoStream
  <2> DEFINE r == [s EXCEPT !.available = 0]
  <2>1. /\ r = [status |-> s.status, available |-> 0]
        /\ After(s, e) = [r EXCEPT !.status = "Terminated"]
    BY <1>1, <1>5 DEF After, ReclaimedStream
  <2> HIDE DEF r
  <2>2. After(s, e) = [status |-> "Terminated", available |-> 0]
    BY <2>1
  <2> QED  BY <1>5, <2>2 DEF StreamType
<1> QED  BY <1>1, <1>2, <1>3, <1>4, <1>5

(* The switch of handleLog changes the stream of the event's card.         *)
LEMMA ApplyFacts ==
  ASSUME store \in [Cards -> StreamType], NEW e \in EventType
  PROVE  ApplyEvent(e) = [store EXCEPT ![e.card] = After(store[e.card], e)]
<1>1. /\ e.card \in Cards
      /\ e.kind \in {"PaycardProvisioned", "SettlementFlushed", "ResidualDeltaReclaimed"}
  BY DEF EventType, Vault!Kinds
<1>2. CASE e.kind = "PaycardProvisioned"
  BY <1>2 DEF ApplyEvent, After
<1>3. CASE e.kind # "PaycardProvisioned" /\ store[e.card] = NoStream
  <2>1. ApplyEvent(e) = store
    BY <1>3 DEF ApplyEvent
  <2> QED  BY <1>1, <1>3, <2>1 DEF After
<1>4. CASE e.kind = "SettlementFlushed" /\ store[e.card] # NoStream
  BY <1>4 DEF ApplyEvent, After
<1>5. CASE e.kind = "ResidualDeltaReclaimed" /\ store[e.card] # NoStream
  BY <1>5 DEF ApplyEvent, After
<1> QED  BY <1>1, <1>2, <1>3, <1>4, <1>5

(* The projection takes in log i.                                          *)
TakesIn(i) ==
  /\ UNCHANGED <<phase, avail, log, torn>> /\ Taken' = Taken \cup {i}
  /\ Image'[log[i].card] = After(Image[log[i].card], log[i])
  /\ \A c \in Cards : c # log[i].card => Image'[c] = Image[c]
  /\ Surviving' => Surviving
  /\ TakeIn(i)

LEMMA ResumeKeepsIInv ==
  ASSUME IInv, NEW i, Resume(i)
  PROVE  IInv' /\ TakesIn(i) /\ Answerable(i)
<1> DEFINE e == log[i]
<1>1. /\ Answerable(i) /\ Return(i) /\ RecordEvent(i) /\ TakeIn(i) /\ Save(store')
      /\ store' = ApplyEvent(e)
      /\ UNCHANGED <<phase, avail, log, durable, lapsed, stage, crashes, head, seen,
                     torn, corrupted>>
      /\ queue' \subseteq queue \cup Streams
      /\ \/ todo' = Tail(todo) /\ blocked /\ blocked' = FALSE
         \/ todo' = todo /\ blocked' = blocked
  BY DEF Resume, envVars
<1>2. /\ i \in 1 .. Len(log) /\ e \in EventType /\ e.card \in Cards /\ stage # "down"
  BY <1>1, AnswerableFacts
<1> HIDE DEF e
<1>3. store \in [Cards -> StreamType]
  BY DEF IInv, TypeOK
<1>4. store' = [store EXCEPT ![e.card] = After(store[e.card], e)]
  BY <1>1, <1>2, <1>3, ApplyFacts
<1>5. store' \in [Cards -> StreamType]
  BY <1>2, <1>3, <1>4, AfterFacts
<1>6. /\ snapshot' = Corrupt' \/ snapshot' \in [Cards -> StreamType]
      /\ FileInv' /\ Image = store /\ Image' = store'
  BY <1>1, <1>2, <1>5, SaveFacts
<1>7. /\ awaiting' \in Seq(Logs) /\ InFlight' \subseteq seen \ eventKeys'
      /\ \A k, m \in DOMAIN awaiting' : awaiting'[k] = awaiting'[m] => k = m
      /\ Taken' = Taken \cup {i}
  BY <1>1, ReturnFacts
<1>8. /\ eventKeys' \subseteq 1 .. Len(log)
      /\ ~durable => eventKeys' = {}
      /\ durable => eventKeys' = eventKeys \cup {i}
  BY <1>1, RecordFacts
<1>9. /\ todo' \in Seq(Logs) /\ blocked' \in BOOLEAN
      /\ \A k \in 1 .. Len(todo') : todo'[k] <= Len(log)
      /\ blocked' => stage' = "replaying" /\ todo' # <<>>
  <2>1. /\ todo \in Seq(Logs) /\ blocked \in BOOLEAN
        /\ \A k \in 1 .. Len(todo) : todo[k] <= Len(log)
        /\ blocked => stage = "replaying" /\ todo # <<>>
    BY DEF IInv, TypeOK, CallInv
  <2>2. CASE todo' = Tail(todo) /\ blocked /\ blocked' = FALSE
    <3>1. /\ Tail(todo) \in Seq(Logs) /\ Len(Tail(todo)) = Len(todo) - 1
          /\ \A k \in 1 .. Len(Tail(todo)) : Tail(todo)[k] = todo[k + 1]
      BY <2>1, <2>2, HeadTailProperties
    <3>2. \A k \in 1 .. Len(Tail(todo)) : Tail(todo)[k] <= Len(log)
      <4>1. \A k \in 1 .. Len(todo) - 1 : k + 1 \in 1 .. Len(todo)
        BY <2>1, LenProperties
      <4> QED  BY <2>1, <3>1, <4>1
    <3> QED  BY <2>2, <3>1, <3>2
  <2>3. CASE todo' = todo /\ blocked' = blocked
    BY <1>1, <2>1, <2>3
  <2> QED  BY <1>1, <2>2, <2>3
<1>10. TypeOK'
  <2>1. queue' \subseteq Streams
    BY <1>1 DEF IInv, TypeOK
  <2>2. eventKeys' \subseteq Logs
    BY <1>8, CallFacts
  <2>3. applied' \subseteq Logs /\ overtaken' \subseteq Cards
    <3>1. applied' = applied \cup {i}
      BY <1>1 DEF TakeIn
    <3>2. overtaken' \subseteq overtaken \cup {log[i].card}
      BY <1>1 DEF TakeIn
    <3>3. applied \subseteq Logs /\ overtaken \subseteq Cards
      BY DEF IInv, TypeOK
    <3> QED  BY <1>2, <3>1, <3>2, <3>3, CallFacts DEF e
  <2> QED  BY <1>1, <1>5, <1>6, <1>7, <1>9, <2>1, <2>2, <2>3
           DEF IInv, TypeOK, Vault!TypeOK
<1>11. CallInv'
  <2>1. CallInv
    BY DEF IInv
  <2>2. durable => Taken' \subseteq eventKeys'
    BY <1>7, <1>8, <2>1 DEF CallInv
  <2> QED  BY <1>1, <1>2, <1>7, <1>8, <1>9, <2>1, <2>2 DEF CallInv
<1>12. LogInv' /\ Len(log') <= MaxLog
  BY <1>1, QuietKeepsLog DEF IInv
<1>13. Surviving' => Surviving
  BY <1>1 DEF Surviving
<1>14. TakesIn(i)
  BY <1>1, <1>2, <1>3, <1>4, <1>6, <1>7, <1>13 DEF TakesIn, e
<1> QED  BY <1>1, <1>6, <1>10, <1>11, <1>12, <1>14 DEF IInv

-------------------------------------------------------------------------------
(* The invariant.                                                          *)

LEMMA InitIInv == Init => IInv
<1> SUFFICES ASSUME Init PROVE IInv
  OBVIOUS
<1>1. /\ phase = [c \in Cards |-> "none"] /\ avail = [c \in Cards |-> 0] /\ log = <<>>
      /\ durable \in Stores /\ lapsed = {} /\ stage = "down" /\ crashes = 0
      /\ head = 0 /\ seen = {} /\ awaiting = <<>> /\ todo = <<>> /\ blocked = FALSE
      /\ store = NoStore /\ queue = {} /\ snapshot = NoStore /\ eventKeys = {}
      /\ applied = {} /\ overtaken = {} /\ torn = {} /\ corrupted = FALSE
  BY DEF Init, Vault!Init
<1>2. Len(log) = 0 /\ Len(todo) = 0 /\ DOMAIN awaiting = {} /\ 0 <= MaxLog
  BY <1>1, GatewayAssumption
<1>3. TypeOK
  <2>1. Vault!TypeOK
    BY <1>1 DEF Vault!TypeOK
  <2>2. awaiting \in Seq(Logs) /\ todo \in Seq(Logs)
    BY <1>1, EmptySeq
  <2>3. store \in [Cards -> StreamType] /\ snapshot \in [Cards -> StreamType]
    BY <1>1, NothingTyped
  <2>4. crashes \in 0 .. MaxCrashes /\ head \in 0 .. MaxLog
    BY <1>1, GatewayAssumption
  <2> QED  BY <1>1, <2>1, <2>2, <2>3, <2>4 DEF TypeOK
<1>4. LogInv
  <2>1. \A c \in Cards : OfCard(c) = {} /\ phase[c] = "none" /\ avail[c] = 0
    BY <1>1, <1>2 DEF OfCard
  <2> QED  BY <2>1 DEF LogInv, LogFacts, EndsAtVault
<1>5. InFlight = {} /\ Taken = {}
  BY <1>1, <1>2 DEF InFlight, Taken, ToSet
<1>6. CallInv
  BY <1>1, <1>2, <1>5 DEF CallInv
<1>7. FileInv
  BY <1>1, NothingTyped DEF FileInv
<1> QED  BY <1>2, <1>3, <1>4, <1>6, <1>7 DEF IInv

(* Every step keeps the invariant and is one of four.                      *)
LEMMA Steps ==
  ASSUME IInv, [Next]_vars
  PROVE  /\ IInv'
         /\ \/ /\ VaultStep /\ Image' = Image /\ Taken' = Taken
               /\ Surviving' = Surviving /\ UNCHANGED <<applied, overtaken, torn>>
            \/ Stays
            \/ Dies
            \/ \E i : TakesIn(i) /\ Answerable(i)
<1>1. CASE VaultStep
  BY <1>1, VaultKeepsIInv
<1>2. CASE (\E c \in Streams : LapseOf(c)) \/ ListLogs \/ FinishBackfill \/ UNCHANGED vars
  BY <1>2, LoopKeepsIInv
<1>3. CASE Start
  BY <1>3, StartKeepsIInv
<1>4. CASE ReplayLog \/ \E i \in 1 .. Len(log) : Deliver(i)
  BY <1>4, HandleKeepsIInv
<1>5. CASE SweepExpired
  BY <1>5, SweepKeepsIInv
<1>6. ASSUME NEW i \in 1 .. Len(log), Resume(i) PROVE IInv' /\ TakesIn(i) /\ Answerable(i)
  BY <1>6, ResumeKeepsIInv
<1>7. CASE \/ Crash \/ DieInSweep
           \/ \E i \in 1 .. Len(log) : DieAfterRecord(i) \/ DieInSave(i)
  BY <1>7, DiesKeepsIInv
<1> QED  BY <1>1, <1>2, <1>3, <1>4, <1>5, <1>6, <1>7 DEF Next, Gateway

(* The inductive invariant: the log continues event by event from balance  *)
(* to balance and an open card's provision is its balance and what was     *)
(* settled; a call waits once, for a log the process has noted and a       *)
(* durable store has not recorded; the snapshot is the store in memory.    *)
THEOREM GatewayInvariant == Spec => []IInv
<1>1. Init => IInv
  BY InitIInv
<1>2. IInv /\ [Next]_vars => IInv'
  BY Steps
<1> QED  BY <1>1, <1>2, PTL DEF Spec

(* Every variable of the gateway keeps its type (StreamGateway state).     *)
THEOREM GatewayTypeCorrect == Spec => []TypeOK
<1>1. IInv => TypeOK
  BY DEF IInv
<1> QED  BY <1>1, GatewayInvariant, PTL

-------------------------------------------------------------------------------
(* The projection against the Vault.                                       *)

(* What was settled and taken in is a part of what was settled.            *)
LEMMA SpentFacts ==
  ASSUME IInv, NEW c
  PROVE  /\ Total(Settlements(c) \cap Taken) \in Nat /\ Total(Settlements(c)) \in Nat
         /\ Total(Settlements(c) \cap Taken) <= Total(Settlements(c))
         /\ \A i \in Settlements(c) \ Taken :
              /\ Total((Settlements(c) \cap Taken) \cup {i})
                   = Total(Settlements(c) \cap Taken) + log[i].amount
              /\ Total((Settlements(c) \cap Taken) \cup {i}) <= Total(Settlements(c))
<1> DEFINE S == Settlements(c)
           T == Settlements(c) \cap Taken
<1>1. log \in Seq(EventType) /\ S \subseteq 1 .. Len(log) /\ T \subseteq S
  BY LogTyped, CallFacts, OfCardTyped
<1>2. \A i \in S \ Taken : T \cup {i} \subseteq S /\ i \in (1 .. Len(log)) \ T
  BY <1>1
<1> HIDE DEF S, T
<1>3. TotalIn(log, S) \in Nat /\ \A U \in SUBSET S : TotalIn(log, U) <= TotalIn(log, S)
  BY <1>1, Totals
<1>4. T \subseteq 1 .. Len(log)
  BY <1>1
<1>5. /\ TotalIn(log, T) \in Nat
      /\ \A i \in (1 .. Len(log)) \ T :
           TotalIn(log, T \cup {i}) = TotalIn(log, T) + log[i].amount
  BY <1>1, <1>4, Totals
<1>6. /\ TotalIn(log, T) \in Nat /\ TotalIn(log, S) \in Nat
      /\ TotalIn(log, T) <= TotalIn(log, S)
      /\ \A i \in S \ Taken :
           /\ TotalIn(log, T \cup {i}) = TotalIn(log, T) + log[i].amount
           /\ TotalIn(log, T \cup {i}) <= TotalIn(log, S)
  BY <1>1, <1>2, <1>3, <1>5
<1> QED  BY <1>6 DEF Total, S, T

(* The more logs were taken in, the more was spent.                        *)
LEMMA SpentGrows ==
  ASSUME IInv, NEW c, NEW T, Taken \subseteq T
  PROVE  Total(Settlements(c) \cap Taken) <= Total(Settlements(c) \cap T)
         /\ Total(Settlements(c) \cap T) \in Nat
<1> DEFINE A == Settlements(c) \cap Taken
           B == Settlements(c) \cap T
<1>1. log \in Seq(EventType) /\ B \subseteq 1 .. Len(log) /\ A \in SUBSET B
  BY LogTyped, CallFacts, OfCardTyped
<1> HIDE DEF A, B
<1>2. TotalIn(log, A) <= TotalIn(log, B) /\ TotalIn(log, B) \in Nat
  BY <1>1, Totals
<1> QED  BY <1>2 DEF Total, A, B

(* Nothing is shown of a card the projection does not have.                *)
LEMMA NothingShown ==
  ASSUME NEW c \in Cards, Image[c] = NoStream
  PROVE  Shown(c)
<1>1. Image[c].status = "None"
  BY DEF NoStream
<1> QED  BY <1>1 DEF Shown, Backed

(* A step that leaves the stream, flags it or forgets it shows no less.    *)
LEMMA StayKeepsShown ==
  ASSUME IInv, NEW c \in Cards, Shown(c), UNCHANGED <<phase, avail, log>>,
         Taken \subseteq Taken', Image'[c] \in {NoStream, Image[c], Expired(Image[c])}
  PROVE  Shown(c)'
<1> DEFINE s == Image[c]
           r == Image'[c]
<1>1. s \in StreamType
  BY ImageTyped
<1>2. NoStream.status = "None" /\ NoStream' = NoStream
  BY DEF NoStream
<1>3. CASE r = NoStream
  BY <1>2, <1>3 DEF Shown, Backed
<1>4. CASE r # NoStream
  <2>1. /\ s # NoStream /\ r.available = s.available
        /\ r.status = "None" <=> s.status = "None"
        /\ r.status = "Terminated" <=> s.status = "Terminated"
    BY <1>1, <1>4, ExpiredFacts
  <2>2. /\ s.status # "None" /\ phase[c] # "none"
        /\ s.status = "Terminated" => phase[c] = "closed"
    BY <2>1 DEF Shown
  <2>3. Backed(c)'
    <3> SUFFICES ASSUME phase[c] = "open", NEW p \in Provisions(c)'
                 PROVE  r.available + Total(Settlements(c) \cap Taken)' >= log[p].amount
      BY DEF Backed
    <3>1. Provisions(c)' = Provisions(c) /\ Settlements(c)' = Settlements(c)
      BY DEF Provisions, Settlements, OfCard
    <3>2. s.available + Total(Settlements(c) \cap Taken) >= log[p].amount
      BY <2>1, <3>1 DEF Shown, Backed
    <3>3. /\ Total(Settlements(c) \cap Taken)' = Total(Settlements(c) \cap Taken')
      BY <3>1 DEF Total
    <3>4. /\ Total(Settlements(c) \cap Taken) <= Total(Settlements(c) \cap Taken')
          /\ Total(Settlements(c) \cap Taken') \in Nat
          /\ Total(Settlements(c) \cap Taken) \in Nat
      BY SpentGrows, SpentFacts
    <3>5. log[p].amount \in Nat
      BY <3>1, OfCardTyped, LogTyped, CallFacts DEF EventType
    <3>6. s.available \in Nat
      BY <1>1 DEF StreamType
    <3> HIDE DEF s, r
    <3> QED  BY <2>1, <3>2, <3>3, <3>4, <3>5, <3>6
  <2> QED  BY <1>2, <1>4, <2>1, <2>2, <2>3 DEF Shown
<1> QED  BY <1>3, <1>4

(* What a transaction changes for a card that was provisioned.             *)
LEMMA VaultMovesCard ==
  ASSUME IInv, VaultStep, NEW c \in Cards, phase[c] # "none"
  PROVE  /\ phase'[c] # "none" /\ (phase[c] = "closed" => phase'[c] = "closed")
         /\ phase'[c] = "open" =>
              /\ phase[c] = "open" /\ Provisions(c)' = Provisions(c)
              /\ (Settlements(c)' \cap Taken) = (Settlements(c) \cap Taken)
         /\ Len(log') \in Nat /\ Len(log) <= Len(log')
         /\ \A i \in 1 .. Len(log) : log'[i] = log[i]
<1>1. Vault!TypeOK /\ Vault!Next /\ Taken \subseteq 1 .. Len(log)
  BY CallFacts DEF VaultStep
<1>2. PICK b \in Cards : Opens(b) \/ Settles(b) \/ Closes(b)
  BY <1>1, VaultGrows
<1>3. PICK k \in {1, 2} : Grown(b, k)
  BY <1>2 DEF Opens, Settles, Closes
<1>4. /\ Len(log) \in Nat /\ Len(log') \in Nat /\ Len(log') = Len(log) + k
      /\ \A i \in 1 .. Len(log) : i \in 1 .. Len(log') /\ log'[i] = log[i]
      /\ \A d : d # b => /\ OfCard(d)' = OfCard(d)
                         /\ Settlements(d)' = Settlements(d)
                         /\ Provisions(d)' = Provisions(d)
      /\ OfCard(b)' = OfCard(b) \cup (Len(log) + 1 .. Len(log'))
  BY <1>1, <1>3, GrownLogs
<1>5. CASE c # b
  <2>1. phase'[c] = phase[c]
    BY <1>3, <1>5 DEF Grown
  <2> QED  BY <1>1, <1>4, <1>5, <2>1, LogTyped
<1>6. CASE c = b
  <2>1. Settles(c) \/ Closes(c)
    BY <1>2, <1>6 DEF Opens
  <2>2. CASE Closes(c)
    BY <1>4, <2>2 DEF Closes
  <2>3. CASE Settles(c)
    <3>1. /\ Len(log') = Len(log) + 1 /\ phase[c] = "open"
          /\ phase'[c] \in {"open", "closed"}
          /\ log'[Len(log) + 1].kind = "SettlementFlushed"
      BY <2>3 DEF Settles, Grown, SettledFrom
    <3>2. OfCard(c)' = OfCard(c) \cup {Len(log) + 1}
      BY <1>4, <1>6, <3>1
    <3>3. \A i \in OfCard(c) : log'[i] = log[i]
      BY <1>4, OfCardTyped
    <3>4. /\ Provisions(c)' = Provisions(c)
          /\ Settlements(c)' = Settlements(c) \cup {Len(log) + 1}
      BY <3>1, <3>2, <3>3 DEF Provisions, Settlements
    <3>5. Len(log) + 1 \notin Taken
      BY <1>1, <1>4
    <3> QED  BY <1>4, <3>1, <3>4, <3>5
  <2> QED  BY <2>1, <2>2, <2>3
<1> QED  BY <1>5, <1>6

LEMMA VaultKeepsShown ==
  ASSUME IInv, ShownInv, VaultStep, Image' = Image, Taken' = Taken
  PROVE  ShownInv'
<1> SUFFICES ASSUME NEW c \in Cards PROVE Shown(c)'
  BY DEF ShownInv
<1>1. Shown(c) /\ NoStream' = NoStream /\ NoStream.status = "None"
  BY DEF ShownInv, NoStream
<1>2. CASE Image[c] = NoStream
  BY <1>1, <1>2 DEF Shown, Backed
<1>3. CASE Image[c] # NoStream
  <2>1. phase[c] # "none"
    BY <1>1, <1>3 DEF Shown
  <2>2. /\ phase'[c] # "none" /\ (phase[c] = "closed" => phase'[c] = "closed")
        /\ phase'[c] = "open" =>
             /\ phase[c] = "open" /\ Provisions(c)' = Provisions(c)
             /\ (Settlements(c)' \cap Taken) = (Settlements(c) \cap Taken)
        /\ Len(log') \in Nat /\ Len(log) <= Len(log')
        /\ \A i \in 1 .. Len(log) : log'[i] = log[i]
    BY <2>1, VaultMovesCard
  <2>3. Backed(c)'
    <3> SUFFICES ASSUME phase'[c] = "open", NEW p \in Provisions(c)'
                 PROVE  Image[c].available + Total(Settlements(c) \cap Taken)'
                          >= log'[p].amount
      BY DEF Backed
    <3>1. Image[c].available + Total(Settlements(c) \cap Taken) >= log[p].amount
      BY <1>1, <1>3, <2>2 DEF Shown, Backed
    <3>2. log'[p] = log[p]
      BY <2>2, OfCardTyped
    <3>3. TotalIn(log', Settlements(c) \cap Taken) = Total(Settlements(c) \cap Taken)
      <4>1. Settlements(c) \cap Taken \subseteq 1 .. Len(log)
        BY OfCardTyped
      <4> QED  BY <2>2, <4>1, TotalStays, CallFacts
    <3>4. Total(Settlements(c) \cap Taken)' = TotalIn(log', Settlements(c) \cap Taken)
      BY <2>2 DEF Total
    <3> QED  BY <3>1, <3>2, <3>3, <3>4
  <2> QED  BY <1>1, <1>3, <2>2, <2>3 DEF Shown
<1> QED  BY <1>2, <1>3

(* A log taken in is subtracted at most once, and only if it is of the     *)
(* stream shown.                                                           *)
LEMMA TakenKeepsShown ==
  ASSUME IInv, ShownInv, NEW i, TakesIn(i), Answerable(i)
  PROVE  ShownInv'
<1>0. PICK e, c : e = log[i] /\ c = e.card
  OBVIOUS
<1> USE <1>0
<1> DEFINE s == Image[c]
           spent == Total(Settlements(c) \cap Taken)
<1>1. /\ i \in 1 .. Len(log) /\ i \notin Taken /\ e \in EventType /\ c \in Cards
  BY AnswerableFacts
<1>2. /\ UNCHANGED <<phase, avail, log>> /\ Taken' = Taken \cup {i}
      /\ Image'[c] = After(s, e)
      /\ \A b \in Cards : b # c => Image'[b] = Image[b]
  BY DEF TakesIn
<1>3. ASSUME NEW b \in Cards, b # c PROVE Shown(b)'
  <2>1. Shown(b) /\ Taken \subseteq Taken' /\ Image'[b] = Image[b]
    BY <1>2, <1>3 DEF ShownInv
  <2> QED  BY <1>2, <2>1, StayKeepsShown
<1>4. /\ i \in OfCard(c) /\ phase[c] # "none" /\ LogFacts(c) /\ Shown(c)
      /\ phase[c] \in {"open", "closed"}
  <2>1. i \in OfCard(c) /\ LogFacts(c) /\ Shown(c)
    BY <1>1 DEF OfCard, IInv, LogInv, ShownInv
  <2>2. phase[c] \in {"none", "open", "closed"}
    BY <1>1, LogTyped, CallFacts
  <2> QED  BY <2>1, <2>2 DEF LogFacts
<1>5. NoStream' = NoStream /\ NoStream.status = "None"
  BY DEF NoStream
<1>6. /\ s \in StreamType /\ s.available \in Nat /\ e.amount \in Nat
      /\ e.kind \in {"PaycardProvisioned", "SettlementFlushed", "ResidualDeltaReclaimed"}
  BY <1>1, ImageTyped DEF StreamType, EventType, Vault!Kinds
<1>7. /\ Provisions(c)' = Provisions(c) /\ Settlements(c)' = Settlements(c)
      /\ Total(Settlements(c) \cap Taken)' = Total(Settlements(c) \cap (Taken \cup {i}))
  <2> QED  BY <1>2 DEF Provisions, Settlements, OfCard, Total
<1>8. spent \in Nat /\ Total(Settlements(c) \cap (Taken \cup {i})) \in Nat
  BY SpentFacts, SpentGrows
<1>9. ASSUME After(s, e) = NoStream PROVE Shown(c)'
  <2> HIDE DEF s
  <2> QED  BY <1>2, <1>5, <1>9 DEF Shown, Backed
<1>10. ASSUME e.kind = "PaycardProvisioned" PROVE Shown(c)'
  <2>1. /\ After(s, e).status = "Active" /\ After(s, e).available = e.amount
        /\ After(s, e) # NoStream
    BY <1>1, <1>6, <1>10, AfterFacts
  <2>2. ASSUME phase[c] = "open", NEW p \in Provisions(c)
        PROVE  After(s, e).available + Total(Settlements(c) \cap (Taken \cup {i}))
                 >= log[p].amount
    <3>1. p = i
      BY <1>4, <1>10, <2>2 DEF LogFacts, OpenFacts, Provisions
    <3>2. log[p].amount = e.amount
      BY <3>1
    <3> HIDE DEF s
    <3> QED  BY <1>6, <1>8, <2>1, <3>2
  <2> HIDE DEF s
  <2> QED  BY <1>2, <1>4, <1>5, <1>7, <2>1, <2>2 DEF Shown, Backed
<1>11. ASSUME e.kind = "ResidualDeltaReclaimed" /\ s # NoStream PROVE Shown(c)'
  <2>1. After(s, e).status = "Terminated"
    BY <1>1, <1>6, <1>11, AfterFacts
  <2>2. phase[c] = "closed"
    BY <1>4, <1>11 DEF LogFacts, OpenFacts
  <2> HIDE DEF s
  <2> QED  BY <1>2, <1>5, <2>1, <2>2 DEF Shown, Backed
<1>12. ASSUME e.kind = "SettlementFlushed" /\ s # NoStream PROVE Shown(c)'
  <2>1. /\ After(s, e).available =
             IF s.available > e.amount THEN s.available - e.amount ELSE 0
        /\ After(s, e).status = IF s.available <= e.amount THEN "Terminated" ELSE s.status
    BY <1>1, <1>6, <1>12, AfterFacts
  <2>2. /\ s.status # "None" /\ (s.status = "Terminated" => phase[c] = "closed")
    BY <1>4, <1>12 DEF Shown
  <2>3. /\ i \in Settlements(c) \ Taken
        /\ Settlements(c) \cap (Taken \cup {i}) = (Settlements(c) \cap Taken) \cup {i}
    BY <1>1, <1>4, <1>12 DEF Settlements
  <2>4. /\ Total(Settlements(c) \cap (Taken \cup {i})) = spent + e.amount
        /\ spent + e.amount <= Total(Settlements(c))
        /\ Total(Settlements(c)) \in Nat
    BY <2>3, SpentFacts
  <2>5. ASSUME phase[c] = "open"
        PROVE  s.available > e.amount /\
               \A p \in Provisions(c) :
                 After(s, e).available + Total(Settlements(c) \cap (Taken \cup {i}))
                   >= log[p].amount
    <3>1. /\ avail[c] > 0 /\ (\A p, q \in Provisions(c) : p = q)
          /\ \E p \in Provisions(c) : log[p].amount = avail[c] + Total(Settlements(c))
      BY <1>4, <2>5 DEF LogFacts, OpenFacts
    <3>2. PICK p \in Provisions(c) : log[p].amount = avail[c] + Total(Settlements(c))
      BY <3>1
    <3>3. s.available + spent >= log[p].amount
      BY <1>4, <1>12, <2>5 DEF Shown, Backed
    <3>4. avail[c] \in Nat
      BY <1>1, LogTyped, CallFacts
    <3>5. \A q \in Provisions(c) : q = p
      BY <3>1
    <3> HIDE DEF s, spent
    <3>6. s.available > e.amount
      BY <1>6, <1>8, <2>4, <3>1, <3>2, <3>3, <3>4
    <3>7. After(s, e).available = s.available - e.amount
      BY <2>1, <3>6
    <3>8. After(s, e).available + Total(Settlements(c) \cap (Taken \cup {i}))
            >= log[p].amount
      BY <1>6, <1>8, <2>4, <3>3, <3>7, <3>2, <3>4
    <3> QED  BY <3>5, <3>6, <3>8
  <2>6. After(s, e).status = "Terminated" => phase[c] = "closed"
    <3> HIDE DEF s
    <3> QED  BY <1>4, <1>6, <2>1, <2>2, <2>5
  <2>7. After(s, e).status # "None"
    BY <2>1, <2>2
  <2> HIDE DEF s
  <2> QED  BY <1>2, <1>4, <1>5, <1>7, <2>5, <2>6, <2>7 DEF Shown, Backed
<1>13. e.kind # "PaycardProvisioned" /\ s = NoStream => After(s, e) = NoStream
  BY <1>1, <1>6, AfterFacts
<1>14. Shown(c)'
  BY <1>6, <1>9, <1>10, <1>11, <1>12, <1>13
<1>15. ASSUME NEW b \in Cards PROVE Shown(b)'
  <2>1. CASE b = c
    BY <1>14, <2>1
  <2>2. CASE b # c
    BY <1>3, <2>2
  <2> QED  BY <2>1, <2>2
<1> QED  BY <1>15 DEF ShownInv

LEMMA StepShown ==
  ASSUME IInv, ShownInv, [Next]_vars
  PROVE  ShownInv'
<1>1. CASE VaultStep /\ Image' = Image /\ Taken' = Taken
  BY <1>1, VaultKeepsShown
<1>2. CASE Stays
  <2>1. ASSUME NEW c \in Cards PROVE Shown(c)'
    <3>1. Shown(c) /\ Taken \subseteq Taken' /\ Image'[c] \in {Image[c], Expired(Image[c])}
      BY <1>2 DEF Stays, ShownInv
    <3>2. UNCHANGED <<phase, avail, log>>
      BY <1>2 DEF Stays
    <3> QED  BY <3>1, <3>2, StayKeepsShown
  <2> QED  BY <2>1 DEF ShownInv
<1>3. CASE Dies
  <2>1. UNCHANGED <<phase, avail, log>>
    BY <1>3 DEF Dies
  <2>2. CASE (\A c \in Cards : Image'[c] = Image[c]) /\ Taken \subseteq Taken'
    <3>1. ASSUME NEW c \in Cards PROVE Shown(c)'
      <4>1. Shown(c) /\ Image'[c] = Image[c] /\ Taken \subseteq Taken'
        BY <2>2 DEF ShownInv
      <4> QED  BY <2>1, <4>1, StayKeepsShown
    <3> QED  BY <3>1 DEF ShownInv
  <2>3. CASE \A c \in Cards : Image'[c] = NoStream
    <3>1. ASSUME NEW c \in Cards PROVE Shown(c)'
      <4>1. Image'[c] = NoStream /\ NoStream.status = "None" /\ NoStream' = NoStream
        BY <2>3 DEF NoStream
      <4> QED  BY <4>1 DEF Shown, Backed
    <3> QED  BY <3>1 DEF ShownInv
  <2> QED  BY <1>3, <2>2, <2>3 DEF Dies
<1>4. ASSUME NEW i, TakesIn(i), Answerable(i) PROVE ShownInv'
  BY <1>4, TakenKeepsShown
<1> QED  BY <1>1, <1>2, <1>3, <1>4, Steps

LEMMA InitShown == Init => ShownInv
<1> SUFFICES ASSUME Init, NEW c \in Cards PROVE Shown(c)
  BY DEF ShownInv
<1>1. Image = NoStore
  BY DEF Init, Image
<1> QED  BY <1>1, NothingTyped, NothingShown

THEOREM ShownHolds == Spec => [](IInv /\ ShownInv)
<1>1. Init => IInv /\ ShownInv
  BY InitIInv, InitShown
<1>2. IInv /\ ShownInv /\ [Next]_vars => (IInv /\ ShownInv)'
  BY Steps, StepShown
<1> QED  BY <1>1, <1>2, PTL DEF Spec

(* The projection never shows a recipient less than the Vault holds, for   *)
(* every interleaving of duplicate, replayed and concurrent handleLog      *)
(* calls and every crash: each settlement is subtracted at most once after *)
(* its provision, and what the projection has and what was settled and     *)
(* taken in cover the pool (handleLog).                                    *)
THEOREM ProjectionNeverUnderstates == Spec => []NeverUnderstates
<1>1. IInv /\ ShownInv => NeverUnderstates
  <2> SUFFICES ASSUME IInv, ShownInv, NEW c \in Cards, Tracked(c)
               PROVE  store[c].available >= avail[c]
    BY DEF NeverUnderstates
  <2>1. stage # "down" /\ store[c] # NoStream /\ store[c] \in StreamType
    BY NothingTyped DEF IInv, FileInv, TypeOK, Tracked, NoStream
  <2>2. Image[c] = store[c] /\ Shown(c) /\ LogFacts(c)
    BY <2>1 DEF Image, ShownInv, IInv, LogInv
  <2>3. store[c].available \in Nat
    BY <2>1 DEF StreamType
  <2>4. CASE phase[c] = "open"
    <3>1. PICK p \in Provisions(c) : log[p].amount = avail[c] + Total(Settlements(c))
      BY <2>2, <2>4 DEF LogFacts, OpenFacts
    <3>2. store[c].available + Total(Settlements(c) \cap Taken) >= log[p].amount
      BY <2>1, <2>2, <2>4, <3>1 DEF Shown, Backed
    <3>3. /\ Total(Settlements(c) \cap Taken) \in Nat /\ Total(Settlements(c)) \in Nat
          /\ Total(Settlements(c) \cap Taken) <= Total(Settlements(c))
      BY SpentFacts
    <3>4. avail[c] \in Nat
      BY LogTyped, CallFacts
    <3> QED  BY <2>3, <3>1, <3>2, <3>3, <3>4
  <2>5. CASE phase[c] # "open"
    <3>1. avail[c] = 0
      BY <2>2, <2>5 DEF LogFacts
    <3> QED  BY <2>3, <3>1
  <2> QED  BY <2>4, <2>5
<1> QED  BY <1>1, ShownHolds, PTL

(* Only the Vault terminates a card: no interleaving of settlements, local *)
(* expiry and restarts shows an open card as Terminated (sweepExpired,     *)
(* onSettlementFlushed).                                                   *)
THEOREM NoFalseTermination == Spec => []NeverFalselyTerminated
<1>1. IInv /\ ShownInv => NeverFalselyTerminated
  <2> SUFFICES ASSUME IInv, ShownInv, NEW c \in Cards, store[c].status = "Terminated"
               PROVE  phase[c] = "closed"
    BY DEF NeverFalselyTerminated
  <2>1. stage # "down"
    BY NothingTyped DEF IInv, FileInv, NoStream
  <2> QED  BY <2>1 DEF Image, ShownInv, Shown
<1> QED  BY <1>1, ShownHolds, PTL

-------------------------------------------------------------------------------
(* The projection against the log.                                         *)

(* What is shown of a card stays exact while nothing of it is taken in.    *)
LEMMA StayKeepsLast ==
  ASSUME IInv, NEW c \in Cards, ShowsLast(c), UNCHANGED log,
         OfCard(c) \cap applied' = OfCard(c) \cap applied,
         applied \subseteq 1 .. Len(log), applied' \subseteq 1 .. Len(log),
         Image'[c] \in {Image[c], Expired(Image[c])}
  PROVE  ShowsLast(c)'
<1>1. /\ Image'[c] = NoStream <=> Image[c] = NoStream
      /\ Image'[c].available = Image[c].available
      /\ Image'[c].status = "Terminated" <=> Image[c].status = "Terminated"
      /\ NoStream' = NoStream
  <2>1. Image[c] \in StreamType
    BY ImageTyped
  <2> QED  BY <2>1, ExpiredFacts DEF NoStream
<1>2. OfCard(c)' = OfCard(c)
  BY DEF OfCard
<1>3. CASE Image[c] = NoStream /\ OfCard(c) \cap applied = {}
  BY <1>1, <1>2, <1>3 DEF ShowsLast
<1>4. ASSUME NEW i \in applied, LastOf(c, applied, i), Image[c] # NoStream,
             Image[c].available = log[i].left,
             Image[c].status = "Terminated" <=> log[i].left = 0
      PROVE  ShowsLast(c)'
  <2>1. \A j \in applied' : log[j].card = c => j \in applied
    BY DEF OfCard
  <2>2. i \in applied'
    BY <1>4 DEF OfCard, LastOf
  <2>3. LastOf(c, applied, i)'
    BY <1>4, <2>1, <2>2 DEF LastOf
  <2> QED  BY <1>1, <1>4, <2>2, <2>3 DEF ShowsLast
<1> QED  BY <1>3, <1>4 DEF ShowsLast

(* New logs are not taken in yet.                                          *)
LEMMA VaultKeepsExact ==
  ASSUME IInv, ExactInv, VaultStep, Image' = Image, Taken' = Taken,
         Surviving' = Surviving, UNCHANGED <<applied, overtaken, torn>>
  PROVE  ExactInv'
<1> SUFFICES ASSUME Surviving
             PROVE  /\ applied \subseteq Taken
                    /\ \A c \in Cards \ (overtaken \cup torn) : ShowsLast(c)'
  BY DEF ExactInv
<1>1. /\ applied \subseteq Taken /\ Taken \subseteq 1 .. Len(log)
      /\ \A c \in Cards \ (overtaken \cup torn) : ShowsLast(c)
  BY CallFacts DEF ExactInv
<1>2. PICK b \in Cards, k \in {1, 2} : Grown(b, k)
  BY VaultGrows, CallFacts DEF VaultStep, Opens, Settles, Closes
<1>3. \A i \in 1 .. Len(log) : i \in 1 .. Len(log') /\ log'[i] = log[i]
  BY <1>2, GrownLogs, CallFacts
<1>4. ASSUME NEW c \in Cards \ (overtaken \cup torn) PROVE ShowsLast(c)'
  <2>1. ShowsLast(c) /\ NoStream' = NoStream
    BY <1>1 DEF NoStream
  <2>2. (OfCard(c)' \cap applied) = (OfCard(c) \cap applied)
    BY <1>1, <1>3 DEF OfCard
  <2>3. \A i \in applied : log'[i] = log[i]
    BY <1>1, <1>3
  <2>4. \A i : LastOf(c, applied, i) => LastOf(c, applied, i)'
    BY <2>3 DEF LastOf
  <2> QED  BY <2>1, <2>2, <2>3, <2>4 DEF ShowsLast
<1> QED  BY <1>1, <1>4

(* The log that a call takes in is the next of its card, so its event      *)
(* leads from the balance shown to the balance it leaves.                  *)
LEMMA TakenKeepsExact ==
  ASSUME IInv, ExactInv, NEW i, TakesIn(i), Answerable(i)
  PROVE  ExactInv'
<1> SUFFICES ASSUME Surviving'
             PROVE  /\ applied' \subseteq Taken'
                    /\ \A c \in Cards \ (overtaken' \cup torn') : ShowsLast(c)'
  BY DEF ExactInv
<1>1. PICK e, c : e = log[i] /\ c = e.card
  OBVIOUS
<1>2. /\ i \in 1 .. Len(log) /\ i \notin Taken /\ e \in EventType /\ c \in Cards
      /\ Len(log) \in Nat /\ Taken \subseteq 1 .. Len(log)
  BY <1>1, AnswerableFacts, CallFacts
<1>3. /\ UNCHANGED <<phase, avail, log, torn>> /\ Taken' = Taken \cup {i}
      /\ Image'[c] = After(Image[c], e)
      /\ \A b \in Cards : b # c => Image'[b] = Image[b]
      /\ Surviving
  BY <1>1 DEF TakesIn
<1>4. /\ applied' = applied \cup {i} /\ overtaken \subseteq overtaken'
      /\ c \notin overtaken' => /\ EarlierOfCard(i) \subseteq applied
                                /\ LaterOfCard(i) \cap applied = {}
  BY <1>1 DEF TakesIn, TakeIn
<1>5. /\ applied \subseteq Taken
      /\ \A b \in Cards \ (overtaken \cup torn) : ShowsLast(b)
  BY <1>3 DEF ExactInv
<1>6. /\ applied' \subseteq Taken' /\ applied \subseteq 1 .. Len(log)
      /\ applied' \subseteq 1 .. Len(log) /\ i \notin applied
  BY <1>2, <1>3, <1>4, <1>5
<1>7. ASSUME NEW b \in Cards, b # c, b \notin overtaken', b \notin torn'
      PROVE  ShowsLast(b)'
  <2>1. ShowsLast(b) /\ Image'[b] = Image[b]
    BY <1>3, <1>4, <1>5, <1>7
  <2>2. OfCard(b) \cap applied' = OfCard(b) \cap applied
    BY <1>1, <1>4, <1>7 DEF OfCard
  <2> QED  BY <1>3, <1>6, <2>1, <2>2, StayKeepsLast
<1>8. ASSUME c \notin overtaken', c \notin torn' PROVE ShowsLast(c)'
  <2>1. /\ ShowsLast(c) /\ EarlierOfCard(i) \subseteq applied
        /\ LaterOfCard(i) \cap applied = {}
    BY <1>2, <1>3, <1>4, <1>5, <1>8
  <2>2. \A j \in applied : log[j].card = c => j < i
    <3> SUFFICES ASSUME NEW j \in applied, log[j].card = c PROVE j < i
      OBVIOUS
    <3>1. j \in 1 .. Len(log) /\ j # i /\ j \notin i + 1 .. Len(log)
      BY <1>1, <1>6, <2>1 DEF LaterOfCard
    <3> QED  BY <1>2, <3>1
  <2>3. LastOf(c, applied, i)' /\ i \in applied'
    <3>1. \A j \in applied' : log'[j].card = c => j <= i
      BY <1>2, <1>3, <1>4, <1>6, <2>2
    <3> QED  BY <1>1, <1>3, <1>4, <3>1 DEF LastOf
  <2>4. Follows(c, i) /\ e.left \in Nat /\ e.amount \in Nat
    <3>1. i \in OfCard(c) /\ LogFacts(c)
      BY <1>1, <1>2 DEF OfCard, IInv, LogInv
    <3> QED  BY <1>2, <3>1 DEF LogFacts, EventType
  <2>5. ASSUME NEW s \in StreamType, After(Image[c], e) = s,
               s.available = e.left, s.status = "Terminated" <=> e.left = 0
        PROVE  ShowsLast(c)'
    <3>1. s # NoStream
      <4>1. NoStream.status = "None" /\ NoStream.available = 0
        BY DEF NoStream
      <4> QED  BY <2>5, <4>1
    <3>2. NoStream' = NoStream
      BY DEF NoStream
    <3> QED  BY <1>1, <1>3, <2>3, <2>5, <3>1, <3>2 DEF ShowsLast
  <2>6. Image[c] \in StreamType /\ After(Image[c], e) \in StreamType
    BY <1>2, ImageTyped, AfterFacts
  <2>7. ASSUME e.kind = "PaycardProvisioned", e.left = e.amount, e.left > 0
        PROVE  ShowsLast(c)'
    <3>1. After(Image[c], e).status = "Active" /\ After(Image[c], e).available = e.amount
      BY <1>2, <2>6, <2>7, AfterFacts
    <3> QED  BY <2>4, <2>5, <2>6, <2>7, <3>1
  <2>8. ASSUME NEW j \in 1 .. i - 1, LastOf(c, 1 .. i - 1, j),
               \/ e.kind = "SettlementFlushed" /\ e.left = log[j].left - e.amount
               \/ e.kind = "ResidualDeltaReclaimed" /\ e.left = 0
        PROVE  ShowsLast(c)'
    <3>1. j \in applied /\ log[j].card = c
      BY <1>1, <2>1, <2>8 DEF LastOf, EarlierOfCard
    <3>2. /\ Image[c] # NoStream /\ Image[c].available = log[j].left
          /\ Image[c].status = "Terminated" <=> log[j].left = 0
      <4>1. OfCard(c) \cap applied # {}
        BY <1>6, <3>1 DEF OfCard
      <4>2. PICK m \in applied :
              /\ LastOf(c, applied, m) /\ Image[c] # NoStream
              /\ Image[c].available = log[m].left
              /\ Image[c].status = "Terminated" <=> log[m].left = 0
        BY <2>1, <4>1 DEF ShowsLast
      <4>3. m \in 1 .. i - 1 /\ log[m].card = c
        <5>1. log[m].card = c /\ m < i /\ m \in 1 .. Len(log)
          BY <1>6, <2>2, <4>2 DEF LastOf
        <5> QED  BY <1>2, <5>1
      <4>4. m <= j /\ j <= m
        BY <2>8, <3>1, <4>2, <4>3 DEF LastOf
      <4>5. m = j
        BY <1>2, <4>3, <4>4
      <4> QED  BY <4>2, <4>5
    <3>3. Image[c].available \in Nat
      BY <2>6 DEF StreamType
    <3>4. CASE e.kind = "ResidualDeltaReclaimed" /\ e.left = 0
      <4>1. After(Image[c], e).available = 0 /\ After(Image[c], e).status = "Terminated"
        BY <1>2, <2>6, <3>2, <3>4, AfterFacts
      <4> QED  BY <2>5, <2>6, <3>4, <4>1
    <3>5. CASE e.kind = "SettlementFlushed" /\ e.left = log[j].left - e.amount
      <4> DEFINE r == After(Image[c], e)
      <4>1. /\ r.available = IF Image[c].available > e.amount
                             THEN Image[c].available - e.amount ELSE 0
            /\ r.status = IF Image[c].available <= e.amount
                          THEN "Terminated" ELSE Image[c].status
        BY <1>2, <2>6, <3>2, <3>5, AfterFacts
      <4>2. e.left = Image[c].available - e.amount
        BY <3>2, <3>5
      <4> HIDE DEF r
      <4>3. r.available = e.left
        BY <2>4, <3>3, <4>1, <4>2
      <4>4. r.status = "Terminated" <=> e.left = 0
        <5>1. CASE Image[c].available <= e.amount
          BY <2>4, <3>3, <4>1, <4>2, <5>1
        <5>2. CASE ~(Image[c].available <= e.amount)
          <6>1. r.status = Image[c].status /\ e.left # 0 /\ Image[c].available # 0
            BY <2>4, <3>3, <4>1, <4>2, <5>2
          <6> QED  BY <3>2, <6>1
        <5> QED  BY <5>1, <5>2
      <4> QED  BY <2>5, <2>6, <4>3, <4>4 DEF r
    <3> QED  BY <2>8, <3>4, <3>5
  <2> QED  BY <1>1, <2>4, <2>7, <2>8 DEF Follows
<1>9. ASSUME NEW b \in Cards \ (overtaken' \cup torn') PROVE ShowsLast(b)'
  <2>1. CASE b = c
    BY <1>8, <1>9, <2>1
  <2>2. CASE b # c
    BY <1>7, <1>9, <2>2
  <2> QED  BY <2>1, <2>2
<1> QED  BY <1>6, <1>9

LEMMA StepExact ==
  ASSUME IInv, ExactInv, [Next]_vars
  PROVE  ExactInv'
<1>1. CASE /\ VaultStep /\ Image' = Image /\ Taken' = Taken
           /\ Surviving' = Surviving /\ UNCHANGED <<applied, overtaken, torn>>
  BY <1>1, VaultKeepsExact
<1>2. CASE Stays \/ Dies
  <2> SUFFICES ASSUME Surviving'
               PROVE  /\ applied' \subseteq Taken'
                      /\ \A c \in Cards \ (overtaken' \cup torn') : ShowsLast(c)'
    BY DEF ExactInv
  <2>1. UNCHANGED log /\ torn \subseteq torn'
    BY <1>2 DEF Stays, Dies
  <2>2. CASE /\ Surviving /\ UNCHANGED <<applied, overtaken>> /\ Taken \subseteq Taken'
             /\ \A c \in Cards : Image'[c] \in {Image[c], Expired(Image[c])}
    <3>1. /\ applied \subseteq Taken /\ applied \subseteq 1 .. Len(log)
          /\ \A c \in Cards \ (overtaken \cup torn) : ShowsLast(c)
      BY <2>2, CallFacts DEF ExactInv
    <3>2. ASSUME NEW c \in Cards \ (overtaken' \cup torn') PROVE ShowsLast(c)'
      <4>1. c \in Cards /\ ShowsLast(c) /\ applied' = applied
        BY <2>1, <2>2, <3>1
      <4>2. OfCard(c) \cap applied' = OfCard(c) \cap applied
        BY <4>1
      <4> QED  BY <2>1, <2>2, <3>1, <4>1, <4>2, StayKeepsLast
    <3> QED  BY <2>2, <3>1, <3>2
  <2>3. CASE applied' = {} /\ \A c \in Cards : Image'[c] = NoStream
    <3>1. NoStream' = NoStream
      BY DEF NoStream
    <3> QED  BY <2>3, <3>1 DEF ShowsLast
  <2>4. CASE Stays
    BY <2>2, <2>3, <2>4 DEF Stays
  <2>5. CASE Dies
    BY <2>2, <2>5 DEF Dies
  <2> QED  BY <1>2, <2>4, <2>5
<1>3. ASSUME NEW i, TakesIn(i), Answerable(i) PROVE ExactInv'
  BY <1>3, TakenKeepsExact
<1> QED  BY <1>1, <1>2, <1>3, Steps

LEMMA InitExact == Init => ExactInv
<1> SUFFICES ASSUME Init PROVE ExactInv
  OBVIOUS
<1>1. applied = {} /\ Image = NoStore
  BY DEF Init, Image
<1>2. \A c \in Cards : Image[c] = NoStream
  BY <1>1, NothingTyped
<1> QED  BY <1>1, <1>2 DEF ExactInv, ShowsLast

(* The projection of a card is what the last of its logs taken in left,    *)
(* unless one was taken in out of order or a crash fell between the write  *)
(* of the event and that of the snapshot: duplicates, overlapping          *)
(* backfills, restarts and expiry change nothing (handleLog).              *)
THEOREM ProjectionExact == Spec => []ExactUnlessOvertaken
<1>1. Init => IInv /\ ExactInv
  BY InitIInv, InitExact
<1>2. IInv /\ ExactInv /\ [Next]_vars => (IInv /\ ExactInv)'
  BY Steps, StepExact
<1>3. IInv /\ ExactInv => ExactUnlessOvertaken
  <2> SUFFICES ASSUME IInv, ExactInv, stage # "down", ~corrupted,
                      NEW c \in Cards \ (overtaken \cup torn)
               PROVE  Matches(c)
    BY DEF ExactUnlessOvertaken
  <2>1. /\ Image = store /\ applied \subseteq 1 .. Len(log) /\ ShowsLast(c)
    BY CallFacts DEF Surviving, ExactInv, Image
  <2>2. CASE store[c] = NoStream /\ OfCard(c) \cap applied = {}
    <3>1. ~ \E i \in applied : log[i].card = c
      BY <2>1, <2>2 DEF OfCard
    <3>2. ~Tracked(c)
      BY <2>2 DEF Tracked, NoStream
    <3> QED  BY <3>1, <3>2 DEF Matches
  <2>3. ASSUME NEW i \in applied, LastOf(c, applied, i),
               store[c].available = log[i].left,
               store[c].status = "Terminated" <=> log[i].left = 0
        PROVE  Matches(c)
    <3> DEFINE S == {j \in applied : log[j].card = c}
    <3>1. /\ i \in S /\ (\A j \in S : j \in Int /\ j <= i) /\ i \in Int
      BY <2>1, <2>3 DEF LastOf
    <3> HIDE DEF S
    <3>2. Max(S) = i
      <4>1. \A j \in S : i >= j
        BY <3>1
      <4>2. \A j \in S : (\A m \in S : j >= m) => j = i
        <5> SUFFICES ASSUME NEW j \in S, \A m \in S : j >= m PROVE j = i
          OBVIOUS
        <5>1. j >= i /\ i >= j /\ j \in Int
          BY <3>1
        <5> QED  BY <3>1, <5>1
      <4> QED  BY <3>1, <4>1, <4>2 DEF Max
    <3>3. LastApplied(c) = i
      BY <3>2 DEF LastApplied, S
    <3> QED  BY <2>3, <3>3 DEF Matches, LastOf
  <2> QED  BY <2>1, <2>2, <2>3 DEF ShowsLast
<1> QED  BY <1>1, <1>2, <1>3, PTL DEF Spec

===============================================================================
