--------------------------- MODULE StandaloneProofs ---------------------------
(***************************************************************************)
(* Which chain a call of eq-cli runs and what it converts, for all         *)
(* presets, texts and command lines, any number of bands and any number of *)
(* calls.  First come lists, presets and texts; then the invariants, which *)
(* say what of the chain may exist at each stage of PipeWireRouter::start  *)
(* and what the importer has made of the lines read.                       *)
(***************************************************************************)
EXTENDS Standalone, FiniteSetTheorems, TLAPS

-------------------------------------------------------------------------------
(* Lists *)

\* How many of the indices in I come up to i.
Upto(I, i) == {j \in I : j <= i}

\* A set of indices is counted off by Nth, from 1 to its cardinality.
LEMMA Counting ==
  ASSUME NEW I \in SUBSET Nat, IsFiniteSet(I)
  PROVE  /\ Cardinality(I) \in Nat
         /\ \A i \in I : Cardinality(Upto(I, i)) \in 1..Cardinality(I)
         /\ \A n \in 1..Cardinality(I) : Nth(I, n) \in I
         /\ \A i \in I : \E n \in 1..Cardinality(I) : Nth(I, n) = i
         /\ \A m, n \in 1..Cardinality(I) : Nth(I, m) = Nth(I, n) => m = n
<1> DEFINE place == [i \in I |-> Cardinality(Upto(I, i))]
           N == Cardinality(I)
<1>1. N \in Nat
  BY FS_CardinalityType
<1>2. ASSUME NEW i \in I PROVE Cardinality(Upto(I, i)) \in 1..N /\ IsFiniteSet(Upto(I, i))
  <2>1. Upto(I, i) \in SUBSET I /\ Upto(I, i) # {}
    BY DEF Upto
  <2>2. IsFiniteSet(Upto(I, i)) /\ Cardinality(Upto(I, i)) <= N
    BY <2>1, FS_Subset
  <2>3. Cardinality(Upto(I, i)) \in Nat
    BY <2>2, FS_CardinalityType
  <2>4. Cardinality(Upto(I, i)) # 0
    BY <2>1, <2>2, FS_EmptySet
  <2> QED BY <1>1, <2>2, <2>3, <2>4
<1>3. ASSUME NEW i \in I, NEW j \in I, i < j
      PROVE  Cardinality(Upto(I, i)) < Cardinality(Upto(I, j))
  <2>1. Upto(I, i) \in SUBSET Upto(I, j) /\ Upto(I, i) # Upto(I, j)
    <3>1. i \in Nat /\ j \in Nat /\ j <= j /\ ~(j <= i)
      BY <1>3
    <3>2. \A k \in I : k <= i => k <= j
      BY <1>3, <3>1
    <3>3. j \in Upto(I, j) /\ j \notin Upto(I, i)
      BY <3>1 DEF Upto
    <3> QED BY <3>2, <3>3 DEF Upto
  <2>2. Cardinality(Upto(I, i)) <= Cardinality(Upto(I, j))
        /\ Cardinality(Upto(I, i)) # Cardinality(Upto(I, j))
    BY <2>1, <1>2, FS_Subset
  <2> QED BY <2>2, <1>2, <1>1
<1>4. ASSUME NEW i \in I, NEW j \in I, Cardinality(Upto(I, i)) = Cardinality(Upto(I, j))
      PROVE  i = j
  <2>1. i \in Nat /\ j \in Nat
    OBVIOUS
  <2>2. ~(i < j) /\ ~(j < i)
    BY <1>1, <1>2, <1>3, <1>4
  <2> QED BY <2>1, <2>2
<1>5. place \in Injection(I, 1..N)
  <2>1. place \in [I -> 1..N]
    BY <1>2
  <2>2. \A i, j \in I : place[i] = place[j] => i = j
    BY <1>4
  <2> QED BY <2>1, <2>2 DEF Injection, IsInjective
<1>6. place \in Surjection(I, 1..N)
  <2>1. IsFiniteSet(1..N) /\ Cardinality(1..N) = N
    BY <1>1, FS_Interval
  <2> QED BY <1>5, <2>1, FS_Injection
<1>7. ASSUME NEW n \in 1..N PROVE \E i \in I : Cardinality(Upto(I, i)) = n
  <2>1. PICK i \in I : place[i] = n
    BY <1>6 DEF Surjection
  <2> QED BY <2>1
<1>8. ASSUME NEW n \in 1..N PROVE Nth(I, n) \in I /\ Cardinality(Upto(I, Nth(I, n))) = n
  BY <1>7 DEF Nth, Upto
<1>9. ASSUME NEW i \in I PROVE \E n \in 1..N : Nth(I, n) = i
  BY <1>2, <1>4, <1>8
<1>10. ASSUME NEW m \in 1..N, NEW n \in 1..N, Nth(I, m) = Nth(I, n) PROVE m = n
  BY <1>8, <1>10
<1> QED BY <1>1, <1>2, <1>8, <1>9, <1>10


\* A sequence of elements of any set is a list.
LEMMA ListOf ==
  ASSUME NEW T, NEW s \in Seq(T)
  PROVE  IsList(s)
<1>1. \A i \in 1..Len(s) : s[i] \in Range(s)
  BY DEF Range
<1>2. s \in [1..Len(s) -> Range(s)] /\ Len(s) \in Nat
  BY <1>1
<1> QED BY <1>2 DEF IsList

LEMMA InRange ==
  ASSUME NEW T, NEW s \in Seq(T), NEW k \in DOMAIN s
  PROVE  s[k] \in Range(s) /\ s[k] \in T
BY DEF Range

\* The indices at which a sequence has an element of S, and what Keep makes of them.
LEMMA KeepIs ==
  ASSUME NEW s, IsList(s), NEW S
  PROVE  /\ IsList(Keep(s, S))
         /\ Range(Keep(s, S)) = Range(s) \cap S
         /\ IsInjective(s) => IsInjective(Keep(s, S))
<1> USE DEF IsList
<1> DEFINE T == Range(s)
           I == {i \in DOMAIN s : s[i] \in S}
<1>1. I \in SUBSET Nat /\ IsFiniteSet(I)
  <2>1. DOMAIN s = 1..Len(s) /\ Len(s) \in Nat
    OBVIOUS
  <2>2. IsFiniteSet(DOMAIN s)
    BY <2>1, FS_Interval
  <2> QED BY <2>1, <2>2, FS_Subset
<1> DEFINE N == Cardinality(I)
<1>2. N \in Nat /\ (\A n \in 1..N : Nth(I, n) \in I)
      /\ (\A i \in I : \E n \in 1..N : Nth(I, n) = i)
      /\ \A m, n \in 1..N : Nth(I, m) = Nth(I, n) => m = n
  BY <1>1, Counting
<1>3. Keep(s, S) = [n \in 1..N |-> s[Nth(I, n)]]
  BY DEF Keep
<1> HIDE DEF N
<1>4. ASSUME NEW n \in 1..N PROVE s[Nth(I, n)] \in Range(s) \cap S /\ s[Nth(I, n)] \in T
  <2>1. Nth(I, n) \in DOMAIN s /\ s[Nth(I, n)] \in S
    BY <1>2
  <2> QED BY <2>1, InRange
<1>5. IsList(Keep(s, S))
  <2>1. N \in Nat
    BY <1>2
  <2>2. Keep(s, S) \in Seq(T)
    BY <1>3, <1>4, <2>1
  <2> QED BY <2>2, ListOf
<1>6. Range(Keep(s, S)) = {s[Nth(I, n)] : n \in 1..N}
  BY <1>3 DEF Range
<1>7. \A x \in Range(s) \cap S : \E n \in 1..N : s[Nth(I, n)] = x
  <2> SUFFICES ASSUME NEW i \in DOMAIN s, s[i] \in S PROVE \E n \in 1..N : s[Nth(I, n)] = s[i]
    BY DEF Range
  <2>1. i \in I
    OBVIOUS
  <2> QED BY <2>1, <1>2
<1>8. ASSUME IsInjective(s) PROVE IsInjective(Keep(s, S))
  <2>1. \A n \in 1..N : Nth(I, n) \in DOMAIN s
    BY <1>2
  <2> QED BY <1>2, <1>3, <1>8, <2>1 DEF IsInjective
<1> QED BY <1>4, <1>5, <1>6, <1>7, <1>8

\* A list all of whose elements are in S is kept as it is.
LEMMA KeepAll ==
  ASSUME NEW s, IsList(s), NEW S, Range(s) \subseteq S
  PROVE  Keep(s, S) = s
<1> USE DEF IsList
<1>1. Len(s) \in Nat /\ DOMAIN s = 1..Len(s)
  OBVIOUS
<1>2. {i \in DOMAIN s : s[i] \in S} = 1..Len(s)
  BY <1>1 DEF Range
<1>3. Cardinality(1..Len(s)) = Len(s)
  BY <1>1, FS_Interval
<1>4. ASSUME NEW n \in 1..Len(s) PROVE Nth(1..Len(s), n) = n
  <2>1. ASSUME NEW i \in 1..Len(s) PROVE Cardinality({j \in 1..Len(s) : j <= i}) = i
    <3>1. {j \in 1..Len(s) : j <= i} = 1..i
      BY <1>1
    <3>2. 1 \in Int /\ i \in Int /\ ~(1 > i) /\ i - 1 + 1 = i
      BY <1>1
    <3> QED BY <3>1, <3>2, FS_Interval
  <2> QED BY <2>1 DEF Nth
<1>5. Keep(s, S) = [n \in 1..Len(s) |-> s[n]]
  BY <1>2, <1>3, <1>4 DEF Keep
<1> QED BY <1>5, <1>1

\* What std::erase leaves.
LEMMA WithoutIs ==
  ASSUME NEW s, IsList(s), NEW kind
  PROVE  /\ IsList(Without(s, kind))
         /\ Range(Without(s, kind)) = Range(s) \ {kind}
         /\ IsInjective(s) => IsInjective(Without(s, kind))
         /\ kind \notin Range(s) => Without(s, kind) = s
BY KeepIs, KeepAll DEF Without

\* A set of places that is not empty has a first one.
LEMMA HasFirst ==
  ASSUME NEW n \in Nat, NEW I \in SUBSET (1..n), I # {}
  PROVE  Nth(I, 1) \in I
<1>1. IsFiniteSet(1..n) /\ I \in SUBSET Nat
  BY FS_Interval
<1>2. IsFiniteSet(I)
  BY <1>1, FS_Subset
<1>3. Cardinality(I) \in Nat /\ Cardinality(I) # 0
  BY <1>2, FS_CardinalityType, FS_EmptySet
<1>4. 1 \in 1..Cardinality(I)
  BY <1>3
<1> QED BY <1>1, <1>2, <1>4, Counting

\* Of the complaints, all of which say something, the first is returned if there is one.
LEMMA FirstErrorIs ==
  ASSUME NEW c, NEW n \in Nat, DOMAIN c = 1..n, \A i \in 1..n : c[i][2] # NoError
  PROVE  FirstError(c) = NoError <=> \A i \in 1..n : ~c[i][1]
<1> DEFINE raised == {i \in DOMAIN c : c[i][1]}
<1>1. CASE raised = {}
  BY <1>1, Zenon DEF FirstError
<1>2. CASE raised # {}
  <2>1. raised \in SUBSET (1..n)
    BY Zenon
  <2>2. Nth(raised, 1) \in raised
    BY <1>2, <2>1, HasFirst, Zenon
  <2>3. FirstError(c) = c[Nth(raised, 1)][2]
    BY <1>2, Zenon DEF FirstError
  <2> QED BY <2>2, <2>3, Zenon
<1> QED BY <1>1, <1>2

-------------------------------------------------------------------------------
(* Presets *)

\* What is known of a document whose parse finds nothing wrong.
LEMMA Accepted ==
  ASSUME NEW doc
  PROVE  FirstError(complaints(doc)) = NoError =>
           /\ doc.whole /\ ~Duplicated(doc.order) /\ "equalizer" \in Range(doc.order)
           /\ "limiter" \in Range(doc.order) => "limiter" \in doc.payloads
<1>1. DOMAIN complaints(doc) = 1..7 /\ \A i \in 1..7 : complaints(doc)[i][2] # NoError
  <2>1. DOMAIN complaints(doc) = 1..7
    BY DEF complaints
  <2>2. /\ complaints(doc)[1][2] # NoError /\ complaints(doc)[2][2] # NoError
        /\ complaints(doc)[3][2] # NoError /\ complaints(doc)[4][2] # NoError
        /\ complaints(doc)[5][2] # NoError /\ complaints(doc)[6][2] # NoError
        /\ complaints(doc)[7][2] # NoError
    BY Zenon DEF complaints, NoError
  <2>3. \A i \in 1..7 : i \in {1, 2, 3, 4, 5, 6, 7}
    OBVIOUS
  <2> QED BY <2>1, <2>2, <2>3, Zenon
<1>2. FirstError(complaints(doc)) = NoError => \A i \in 1..7 : ~complaints(doc)[i][1]
  BY <1>1, FirstErrorIs
<1>3. /\ complaints(doc)[1][1] <=> ~doc.whole
      /\ complaints(doc)[3][1] <=> Duplicated(doc.order)
      /\ complaints(doc)[4][1] <=> ~Listed(doc.order, "equalizer")
      /\ complaints(doc)[7][1] <=> (Listed(doc.order, "limiter") /\ "limiter" \notin doc.payloads)
  BY DEF complaints
<1>4. 1 \in 1..7 /\ 3 \in 1..7 /\ 4 \in 1..7 /\ 7 \in 1..7
  OBVIOUS
<1> QED BY <1>2, <1>3, <1>4, Zenon DEF Listed

\* A preset that is accepted lists the equalizer and nothing twice, and has a limiter or a
\* convolver if and only if it lists one.
LEMMA Parsed ==
  ASSUME NEW doc, IsList(doc.order), ~IsRejected(parse_easy_effects_preset(doc))
  PROVE  LET p == parse_easy_effects_preset(doc) IN
         /\ {"order", "limiter", "convolver"} \subseteq DOMAIN p
         /\ IsList(p.order) /\ Range(p.order) \subseteq Kinds
         /\ IsInjective(p.order) /\ "equalizer" \in Range(p.order)
         /\ p.limiter <=> "limiter" \in Range(p.order)
         /\ p.convolver <=> "convolver" \in Range(p.order)
<1> DEFINE p == parse_easy_effects_preset(doc)
           order == IF "convolver" \in doc.payloads THEN supported(doc.order)
                    ELSE Without(supported(doc.order), "convolver")
<1>1. FirstError(complaints(doc)) = NoError
  BY DEF parse_easy_effects_preset, IsRejected, Rejected
<1>2. /\ {"order", "limiter", "convolver"} \subseteq DOMAIN p /\ p.order = order
      /\ p.limiter <=> (Listed(order, "limiter") /\ "limiter" \in doc.payloads)
      /\ p.convolver <=> Listed(order, "convolver")
  BY <1>1 DEF parse_easy_effects_preset
<1>3. /\ IsList(supported(doc.order))
      /\ Range(supported(doc.order)) = Range(doc.order) \cap Kinds
  BY KeepIs DEF supported
<1>4. /\ IsList(order)
      /\ Range(order) = (Range(doc.order) \cap Kinds) \ (IF "convolver" \in doc.payloads THEN {}
                                                        ELSE {"convolver"})
  BY <1>3, WithoutIs
<1>5. IsInjective(order)
  <2>1. IsInjective(supported(doc.order))
    BY <1>1, Accepted DEF Duplicated, IsInjective
  <2> QED BY <1>3, <2>1, WithoutIs
<1> HIDE DEF p, order
<1>6. Range(order) \subseteq Kinds /\ "equalizer" \in Range(order)
      /\ ("limiter" \in Range(order) => "limiter" \in doc.payloads)
  BY <1>1, <1>4, Accepted DEF Kinds
<1> QED BY <1>2, <1>4, <1>5, <1>6 DEF Listed, p

\* A document that was cut is not accepted.
LEMMA CutIsRejected ==
  ASSUME NEW doc, ~doc.whole
  PROVE  IsRejected(parse_easy_effects_preset(doc))
<1>1. FirstError(complaints(doc)) # NoError
  BY Accepted
<1> QED BY <1>1 DEF parse_easy_effects_preset, IsRejected, Rejected

-------------------------------------------------------------------------------
(* Texts *)

\* The filters that are on are counted line by line.
LEMMA OnLinesStep ==
  ASSUME NEW t, NEW n \in Nat
  PROVE  /\ IsFiniteSet(OnLines(t, n)) /\ Cardinality(OnLines(t, n)) \in Nat
         /\ Cardinality(OnLines(t, 0)) = 0
         /\ Cardinality(OnLines(t, n + 1)) = IF t[n + 1].kind = "on"
                                             THEN Cardinality(OnLines(t, n)) + 1
                                             ELSE Cardinality(OnLines(t, n))
<1>1. OnLines(t, n) \in SUBSET (1..n) /\ IsFiniteSet(1..n)
  BY FS_Interval DEF OnLines
<1>2. IsFiniteSet(OnLines(t, n)) /\ Cardinality(OnLines(t, n)) \in Nat
  BY <1>1, FS_Subset, FS_CardinalityType
<1>3. OnLines(t, 0) = {}
  BY DEF OnLines
<1>4. CASE t[n + 1].kind = "on"
  <2>1. OnLines(t, n + 1) = OnLines(t, n) \cup {n + 1} /\ n + 1 \notin OnLines(t, n)
    BY <1>4 DEF OnLines
  <2> QED BY <1>2, <1>3, <1>4, <2>1, FS_AddElement, FS_EmptySet
<1>5. CASE t[n + 1].kind # "on"
  <2>1. OnLines(t, n + 1) = OnLines(t, n)
    BY <1>5 DEF OnLines
  <2> QED BY <1>2, <1>3, <1>5, <2>1, FS_EmptySet
<1> QED BY <1>4, <1>5

\* The place of a filter that is on is one of the places counted so far.
LEMMA OnLinesPlace ==
  ASSUME NEW t, NEW n \in Nat, NEW j \in 1..n, t[j].kind = "on"
  PROVE  Cardinality(OnLines(t, j)) \in 1..Cardinality(OnLines(t, n))
<1>1. OnLines(t, j) \in SUBSET OnLines(t, n) /\ OnLines(t, j) # {}
  BY DEF OnLines
<1>2. IsFiniteSet(OnLines(t, n)) /\ Cardinality(OnLines(t, n)) \in Nat
  BY OnLinesStep
<1>3. IsFiniteSet(OnLines(t, j)) /\ Cardinality(OnLines(t, j)) <= Cardinality(OnLines(t, n))
  BY <1>1, <1>2, FS_Subset
<1>4. Cardinality(OnLines(t, j)) \in Nat /\ Cardinality(OnLines(t, j)) # 0
  BY <1>1, <1>3, FS_CardinalityType, FS_EmptySet
<1> QED BY <1>2, <1>3, <1>4

-------------------------------------------------------------------------------
(* What exists at each stage *)

\* Up to the connection of the equalizer nothing has been created.
Before == {"shell", "list", "convert", "import", "load", "resolve", "core", "sink", "virtual",
           "equalizer"}

Built == pc \in Before => filters = {}

\* The stages follow each other as PipeWireRouter::start calls them.
LEMMA StagesFollow ==
  /\ After("core") = "sink" /\ After("sink") = "virtual" /\ After("virtual") = "equalizer"
  /\ After("equalizer") = "convolver" /\ After("convolver") = "limiter"
  /\ After("limiter") = "ports" /\ After("ports") = "chain" /\ After("chain") = "links"
  /\ After("links") = "active"
  /\ Range(Stages) = {"core", "sink", "virtual", "equalizer", "convolver", "limiter", "ports",
                      "chain", "links"}
<1>1. /\ DOMAIN Stages = 1..9
      /\ Stages[1] = "core" /\ Stages[2] = "sink" /\ Stages[3] = "virtual"
      /\ Stages[4] = "equalizer" /\ Stages[5] = "convolver" /\ Stages[6] = "limiter"
      /\ Stages[7] = "ports" /\ Stages[8] = "chain" /\ Stages[9] = "links"
  BY DEF Stages
<1>2. \A i, j \in DOMAIN Stages : Stages[i] = Stages[j] => i = j
  BY <1>1
<1>3. ASSUME NEW i \in 1..8 PROVE After(Stages[i]) = Stages[i + 1]
  <2>1. (CHOOSE j \in DOMAIN Stages : Stages[j] = Stages[i]) = i
    BY <1>1, <1>2
  <2>2. Stages[i] # "links"
    BY <1>1
  <2> QED BY <2>1, <2>2 DEF After
<1>4. After("links") = "active"
  BY DEF After
<1>5. Range(Stages) = {Stages[i] : i \in 1..9}
  BY <1>1 DEF Range
<1> QED BY <1>1, <1>3, <1>4, <1>5

LEMMA InitBuilt == Init => Built
BY DEF Init, Built, Before

LEMMA StartBuilt == Built /\ start => Built'
<1> SUFFICES ASSUME Built, start PROVE Built'
  OBVIOUS
<1> USE StagesFollow DEF Built, Before, Pass
<1>1. CASE EqConnect \/ LimiterConnect \/ Ports
  BY <1>1 DEF EqConnect, LimiterConnect, Ports
<1>2. CASE connect_chain
  BY <1>2 DEF connect_chain
<1>3. ASSUME NEW stage \in Range(Stages), Wait(stage) \/ StageFails(stage) PROVE Built'
  BY <1>3 DEF Wait, StageFails
<1>4. ASSUME NEW connected \in BOOLEAN, ConvolverConnect(connected) PROVE Built'
  BY <1>4 DEF ConvolverConnect
<1> QED BY <1>1, <1>2, <1>3, <1>4 DEF start

LEMMA NextBuilt == Built /\ [Next]_vars => Built'
<1> SUFFICES ASSUME Built, [Next]_vars PROVE Built'
  OBVIOUS
<1> USE DEF Built, Before, routerVars
<1>1. ASSUME NEW line \in CommandLines, NEW env \in {"", "preset"}, Call(line, env) PROVE Built'
  <2>1. pc' \in {"failure", "success", "list", "convert", "load"}
    BY <1>1 DEF Call, Mode
  <2>2. filters' = {}
    BY <1>1 DEF Call
  <2> QED BY <2>1, <2>2
<1>2. CASE ListSinks
  BY <1>2 DEF ListSinks, Fails
<1>3. CASE OpenText \/ ImportLine \/ Convert
  <2>1. /\ pc \in {"convert", "import"} /\ pc' \in {"import", "success", "failure"}
        /\ UNCHANGED filters
    BY <1>3 DEF OpenText, ImportLine, Convert, Fails
  <2> QED BY <2>1
<1>4. CASE Load
  <2>1. /\ pc = "load" /\ pc' \in {"success", "failure", "resolve"}
        /\ UNCHANGED filters
    BY <1>4 DEF Load, Fails
  <2> QED BY <2>1
<1>5. CASE ResolveKernel
  BY <1>5 DEF ResolveKernel
<1>6. CASE start
  BY <1>6, StartBuilt
<1>7. CASE ReadSignal \/ Stop \/ PollFails
  BY <1>7 DEF ReadSignal, Stop, PollFails
<1>8. CASE Signal
  BY <1>8 DEF Signal
<1>9. CASE UNCHANGED vars
  BY <1>9 DEF vars
<1> QED BY <1>1, <1>2, <1>3, <1>4, <1>5, <1>6, <1>7, <1>8, <1>9 DEF Next, Main

-------------------------------------------------------------------------------
(* The invariants *)

Starting == {"core", "sink", "virtual", "equalizer", "convolver"}
Linking == {"ports", "chain", "links", "active"}

\* The text is a list of lines, and every document on disk has a list for its order.
OnDisk == /\ text \in Seq(Line)
          /\ \A f \in DOMAIN disk : IsList(disk[f].order)

\* What the preset has become at each stage, and what of it exists: the order loses the convolver
\* when the preset is resolved or when the convolver does not connect, never otherwise, and once
\* the limiter is connected the filters are those of the order.
Chain ==
  /\ pc \in {"resolve", "limiter"} \cup Starting \cup Linking =>
       /\ {"order", "limiter", "convolver"} \subseteq DOMAIN preset
       /\ IsList(asked) /\ Range(asked) \subseteq Kinds /\ "equalizer" \in Range(asked)
       /\ IsInjective(asked)
       /\ preset.limiter <=> "limiter" \in Range(asked)
  /\ pc \in {"resolve"} \cup Starting => (preset.convolver => "convolver" \in Range(asked))
  /\ pc = "resolve" => preset.order = asked
  /\ pc \in Starting =>
       preset.order = IF preset.convolver THEN asked ELSE Without(asked, "convolver")
  /\ pc \in {"limiter"} \cup Linking =>
       /\ "convolver" \in filters => "convolver" \in Range(asked)
       /\ preset.order = IF "convolver" \in filters THEN asked ELSE Without(asked, "convolver")
  /\ pc = "convolver" => filters = {"equalizer"}
  /\ pc = "limiter" => filters \in {{"equalizer"}, {"equalizer", "convolver"}}
  /\ pc \in Linking =>
       /\ "equalizer" \in filters /\ filters \subseteq Kinds
       /\ "limiter" \in filters <=> "limiter" \in Range(asked)
  /\ pc \in {"chain", "links", "active"} => volume_at = Last(preset.order)
  /\ pc \in {"links", "active"} => links = preset.order

\* The lines that are filters in order, and their bands.
Sound(t) == {j \in DOMAIN t : t[j].kind = "on" /\ filter_line_error(t[j]) = NoError}
Bands(t) == {LineBand(t[j]) : j \in Sound(t)}

\* What the loop of parse_autoeq_preset has made of the lines of t it has read.
ReadRight(i, t) ==
  /\ DOMAIN i = {"read", "error", "saw_preamp", "gain", "bands"}
  /\ i.read \in 0..Len(t)
  /\ i.error = NoError =>
       /\ i.bands \in Seq(Bands(t)) /\ Len(i.bands) = Cardinality(OnLines(t, i.read))
       /\ ~i.saw_preamp => i.gain = ZeroGain
       /\ i.saw_preamp => \E j \in 1..i.read : t[j].kind = "preamp"
       /\ \A j \in 1..i.read :
            /\ t[j].kind # "junk"
            /\ t[j].kind = "preamp" => i.saw_preamp /\ i.gain = t[j].gain
            /\ t[j].kind = "on" => /\ filter_line_error(t[j]) = NoError
                                   /\ i.bands[Cardinality(OnLines(t, j))] = LineBand(t[j])

Imported == /\ pc = "convert" => import = NoImport
            /\ pc = "import" => ReadRight(import, text)

\* What a conversion has written is not accepted, or plays as the text says.
Faithful(doc, t) == \/ IsRejected(parse_easy_effects_preset(doc))
                    \/ Plays(parse_easy_effects_preset(doc), t)

ConvertedRight ==
  /\ converted \subseteq DOMAIN disk
  /\ \A f \in converted : Faithful(disk[f], text)
  /\ ConvertedPlaysAsMeant

\* Once the limiter is connected, the filters that exist are those the order lists, so that
\* nothing of the order is left out of the chain and its last filter is the preset's.
LEMMA FiltersOfTheOrder ==
  ASSUME Chain, pc \in Linking
  PROVE  /\ IsList(preset.order) /\ Range(preset.order) = filters
         /\ IsInjective(preset.order)
         /\ Keep(preset.order, filters) = preset.order
<1>1. /\ IsList(asked) /\ Range(asked) \subseteq Kinds /\ "equalizer" \in Range(asked)
      /\ IsInjective(asked)
      /\ "convolver" \in filters => "convolver" \in Range(asked)
      /\ preset.order = IF "convolver" \in filters THEN asked ELSE Without(asked, "convolver")
      /\ "equalizer" \in filters /\ filters \subseteq Kinds
      /\ "limiter" \in filters <=> "limiter" \in Range(asked)
  BY DEF Chain
<1>2. /\ IsList(Without(asked, "convolver"))
      /\ Range(Without(asked, "convolver")) = Range(asked) \ {"convolver"}
      /\ IsInjective(Without(asked, "convolver"))
  BY <1>1, WithoutIs
<1>3. CASE "convolver" \in filters
  <2>1. \A kind \in Kinds : kind \in Range(asked) <=> kind \in filters
    BY <1>1, <1>3 DEF Kinds
  <2>2. Range(asked) = filters
    BY <1>1, <2>1
  <2> QED BY <1>1, <1>3, <2>2, KeepAll
<1>4. CASE "convolver" \notin filters
  <2>1. Range(asked) \ {"convolver"} = filters
    BY <1>1, <1>4 DEF Kinds
  <2> QED BY <1>1, <1>2, <1>4, <2>1, KeepAll
<1> QED BY <1>3, <1>4

LEMMA InitChain == Init => Chain
BY DEF Init, Chain, Starting, Linking

LEMMA StartChain == Built /\ Chain /\ start => Chain'
<1> SUFFICES ASSUME Built, Chain, start PROVE Chain'
  OBVIOUS
<1> USE StagesFollow DEF Starting, Linking, Pass
<1>1. CASE EqConnect
  <2>1. filters = {}
    BY <1>1 DEF EqConnect, Built, Before
  <2> QED BY <1>1, <2>1 DEF EqConnect, Chain
<1>2. CASE LimiterConnect
  BY <1>2 DEF LimiterConnect, Chain, Kinds
<1>3. CASE Ports
  <2>1. pc \in Linking /\ Keep(preset.order, filters) = preset.order
    BY <1>3, FiltersOfTheOrder DEF Ports
  <2> QED BY <1>3, <2>1 DEF Ports, volume_source, Chain
<1>4. CASE connect_chain
  <2>1. pc \in Linking /\ Keep(preset.order, filters) = preset.order
    BY <1>4, FiltersOfTheOrder DEF connect_chain
  <2> QED BY <1>4, <2>1 DEF connect_chain, Fails, Chain
<1>5. ASSUME NEW stage \in Range(Stages), Wait(stage) PROVE Chain'
  BY <1>5 DEF Wait, Chain
<1>6. ASSUME NEW stage \in Range(Stages), StageFails(stage) PROVE Chain'
  BY <1>6 DEF StageFails, Fails, Chain
<1>7. ASSUME NEW connected \in BOOLEAN, ConvolverConnect(connected) PROVE Chain'
  <2>1. IsList(asked) /\ pc = "convolver" /\ pc' = "limiter" /\ asked' = asked
    BY <1>7 DEF ConvolverConnect, Chain
  <2>2. Without(Without(asked, "convolver"), "convolver") = Without(asked, "convolver")
    BY <2>1, WithoutIs
  <2>3. CASE preset.convolver /\ kernel = "irs" /\ connected
    BY <1>7, <2>1, <2>3 DEF ConvolverConnect, Chain
  <2>4. CASE ~(preset.convolver /\ kernel = "irs" /\ connected)
    BY <1>7, <2>1, <2>2, <2>4 DEF ConvolverConnect, Chain
  <2> QED BY <2>3, <2>4
<1> QED BY <1>1, <1>2, <1>3, <1>4, <1>5, <1>6, <1>7 DEF start

LEMMA NextChain == Built /\ OnDisk /\ Chain /\ [Next]_vars => Chain'
<1> SUFFICES ASSUME Built, OnDisk, Chain, [Next]_vars PROVE Chain'
  OBVIOUS
<1> USE DEF Starting, Linking, routerVars
<1>1. ASSUME NEW line \in CommandLines, NEW env \in {"", "preset"}, Call(line, env) PROVE Chain'
  <2>1. pc' \in {"failure", "success", "list", "convert", "load"}
    BY <1>1 DEF Call, Mode
  <2> QED BY <2>1 DEF Chain
<1>2. CASE ListSinks \/ OpenText \/ ImportLine \/ Convert
  <2>1. pc' \in {"failure", "success", "import"}
    BY <1>2 DEF ListSinks, OpenText, ImportLine, Convert, Fails
  <2> QED BY <2>1 DEF Chain
<1>3. CASE Load
  <2> DEFINE p == parse_easy_effects_preset(disk[args.preset])
  <2>1. CASE args.preset \notin DOMAIN disk \/ IsRejected(p) \/ args.dry
    <3>1. pc' \in {"failure", "success"}
      BY <1>3, <2>1 DEF Load, Fails
    <3> QED BY <3>1 DEF Chain
  <2>2. CASE args.preset \in DOMAIN disk /\ ~IsRejected(p) /\ ~args.dry
    <3>1. pc' = "resolve" /\ preset' = p /\ asked' = p.order
      BY <1>3, <2>2 DEF Load
    <3>2. IsList(disk[args.preset].order)
      BY <2>2 DEF OnDisk
    <3>3. /\ {"order", "limiter", "convolver"} \subseteq DOMAIN p
          /\ IsList(p.order) /\ Range(p.order) \subseteq Kinds
          /\ IsInjective(p.order) /\ "equalizer" \in Range(p.order)
          /\ p.limiter <=> "limiter" \in Range(p.order)
          /\ p.convolver <=> "convolver" \in Range(p.order)
      BY <2>2, <3>2, Parsed
    <3> HIDE DEF p
    <3> QED BY <3>1, <3>3 DEF Chain
  <2> QED BY <2>1, <2>2
<1>4. CASE ResolveKernel
  <2>1. /\ pc = "resolve" /\ pc' = "core" /\ asked' = asked
        /\ IsList(asked) /\ preset.order = asked
    BY <1>4 DEF ResolveKernel, Chain
  <2>2. CASE UNCHANGED preset
    <3>1. preset.convolver \/ preset' = [preset EXCEPT !.order = Without(@, "convolver"),
                                                       !.convolver = FALSE]
      BY <1>4 DEF ResolveKernel
    <3> QED BY <2>1, <2>2, <3>1 DEF Chain
  <2>3. CASE preset' = [preset EXCEPT !.order = Without(@, "convolver"), !.convolver = FALSE]
    BY <2>1, <2>3 DEF Chain
  <2> QED BY <1>4, <2>2, <2>3 DEF ResolveKernel
<1>5. CASE start
  BY <1>5, StartChain
<1>6. CASE ReadSignal \/ Stop \/ PollFails
  BY <1>6 DEF ReadSignal, Stop, PollFails, Chain
<1>7. CASE Signal
  BY <1>7 DEF Signal, Chain
<1>8. CASE UNCHANGED vars
  BY <1>8 DEF vars, Chain
<1> QED BY <1>1, <1>2, <1>3, <1>4, <1>5, <1>6, <1>7, <1>8 DEF Next, Main

\* Nothing is wrong with what an import has read before it begins.
LEMMA NothingRead ==
  ASSUME NEW t \in Seq(Line)
  PROVE  ReadRight(NoImport, t)
<1>1. Cardinality(OnLines(t, 0)) = 0 /\ Len(t) \in Nat
  BY OnLinesStep
<1> QED BY <1>1 DEF ReadRight, NoImport

\* A round of the loop reads the next line as it is meant.
LEMMA LineRead ==
  ASSUME NEW t \in Seq(Line), NEW i, ReadRight(i, t), i.error = NoError, i.read < Len(t)
  PROVE  ReadRight([parse_line(i, t[i.read + 1]) EXCEPT !.read = @ + 1], t)
<1> DEFINE n == i.read + 1
           line == t[n]
           next == [parse_line(i, line) EXCEPT !.read = @ + 1]
           Fields == {"read", "error", "saw_preamp", "gain", "bands"}
<1> SUFFICES ReadRight(next, t)
  OBVIOUS
<1>1. i.read \in Nat /\ n \in 1..Len(t) /\ n \in DOMAIN t /\ Len(t) \in Nat
  BY DEF ReadRight
<1>2. line.kind \in {"comment", "off", "junk", "preamp", "on"}
  <2>1. line \in Line
    BY <1>1
  <2> QED BY <2>1 DEF Line
<1>3. Cardinality(OnLines(t, n)) = IF line.kind = "on" THEN Cardinality(OnLines(t, i.read)) + 1
                                   ELSE Cardinality(OnLines(t, i.read))
  BY <1>1, OnLinesStep
<1>4. DOMAIN i = Fields
  BY DEF ReadRight
<1>5. \A j \in 1..n : j = n \/ j \in 1..i.read
  BY <1>1
<1>6. n = i.read + 1 /\ line = t[n]
  OBVIOUS
<1> HIDE DEF n, line
\* An error ends the import, whatever else is in the locals.
<1>7. ASSUME NEW e, e # NoError, parse_line(i, line) = [i EXCEPT !.error = e]
      PROVE  ReadRight(next, t)
  <2>1. DOMAIN next = Fields /\ next.read = n /\ next.error = e
    BY <1>4, <1>6, <1>7
  <2> HIDE DEF next
  <2> QED BY <1>1, <1>7, <2>1 DEF ReadRight
<1>8. CASE line.kind \in {"comment", "off"}
  <2>1. parse_line(i, line) = i
    BY <1>8, Zenon DEF parse_line
  <2>2. /\ DOMAIN next = Fields /\ next.read = n /\ next.error = i.error
        /\ next.saw_preamp = i.saw_preamp /\ next.gain = i.gain /\ next.bands = i.bands
    BY <1>4, <1>6, <2>1
  <2> HIDE DEF next
  <2> QED BY <1>1, <1>3, <1>5, <1>6, <1>8, <2>2 DEF ReadRight
<1>9. CASE line.kind = "junk"
  <2>1. parse_line(i, line) = [i EXCEPT !.error = "unexpected AutoEQ text line"]
    BY <1>9, Zenon DEF parse_line
  <2>2. "unexpected AutoEQ text line" # NoError
    BY Zenon DEF NoError
  <2> QED BY <1>7, <2>1, <2>2, Zenon
<1>10. CASE line.kind = "preamp" /\ (i.saw_preamp \/ i.bands # <<>>)
  <2>1. parse_line(i, line) = [i EXCEPT !.error = "multiple AutoEQ preset blocks detected"]
    BY <1>10, Zenon DEF parse_line
  <2>2. "multiple AutoEQ preset blocks detected" # NoError
    BY Zenon DEF NoError
  <2> QED BY <1>7, <2>1, <2>2, Zenon
<1>11. CASE line.kind = "preamp" /\ ~i.saw_preamp /\ i.bands = <<>>
  <2>1. parse_line(i, line) = [i EXCEPT !.saw_preamp = TRUE, !.gain = line.gain]
    BY <1>11, Zenon DEF parse_line
  <2>2. /\ DOMAIN next = Fields /\ next.read = n /\ next.error = i.error
        /\ next.saw_preamp /\ next.gain = line.gain /\ next.bands = i.bands
    BY <1>4, <1>6, <2>1
  <2>3. \A j \in 1..i.read : t[j].kind # "preamp"
    BY <1>11 DEF ReadRight
  <2> HIDE DEF next
  <2> QED BY <1>1, <1>3, <1>5, <1>6, <1>11, <2>2, <2>3 DEF ReadRight
<1>12. CASE line.kind = "on" /\ filter_line_error(line) # NoError
  <2>1. parse_line(i, line) = [i EXCEPT !.error = filter_line_error(line)]
    BY <1>12, Zenon DEF parse_line
  <2> QED BY <1>7, <1>12, <2>1, Zenon
<1>13. CASE line.kind = "on" /\ filter_line_error(line) = NoError
  <2>1. parse_line(i, line) = [i EXCEPT !.bands = Append(@, LineBand(line))]
    BY <1>13, Zenon DEF parse_line
  <2>2. /\ DOMAIN next = Fields /\ next.read = n /\ next.error = i.error
        /\ next.saw_preamp = i.saw_preamp /\ next.gain = i.gain
        /\ next.bands = Append(i.bands, LineBand(line))
    BY <1>4, <1>6, <2>1
  <2> HIDE DEF next
  <2>3. LineBand(line) \in Bands(t)
    BY <1>1, <1>6, <1>13 DEF Bands, Sound
  <2>4. i.bands \in Seq(Bands(t)) /\ Len(i.bands) = Cardinality(OnLines(t, i.read))
    BY DEF ReadRight
  <2>5. /\ next.bands \in Seq(Bands(t)) /\ Len(next.bands) = Cardinality(OnLines(t, n))
        /\ next.bands[Cardinality(OnLines(t, n))] = LineBand(line)
        /\ \A k \in 1..Len(i.bands) : next.bands[k] = i.bands[k]
    BY <1>3, <1>13, <2>2, <2>3, <2>4
  <2>6. ASSUME NEW j \in 1..i.read, t[j].kind = "on"
        PROVE  next.bands[Cardinality(OnLines(t, j))] = LineBand(t[j])
    <3>1. Cardinality(OnLines(t, j)) \in 1..Len(i.bands)
      BY <1>1, <2>4, <2>6, OnLinesPlace
    <3>2. i.bands[Cardinality(OnLines(t, j))] = LineBand(t[j])
      BY <2>6 DEF ReadRight
    <3> QED BY <2>5, <3>1, <3>2
  <2>7. ASSUME NEW j \in 1..n
        PROVE  /\ t[j].kind # "junk"
               /\ t[j].kind = "preamp" => next.saw_preamp /\ next.gain = t[j].gain
               /\ t[j].kind = "on" => /\ filter_line_error(t[j]) = NoError
                                      /\ next.bands[Cardinality(OnLines(t, j))] = LineBand(t[j])
    <3>1. CASE j = n
      BY <1>6, <1>13, <2>5, <3>1
    <3>2. CASE j \in 1..i.read
      BY <2>2, <2>6, <3>2 DEF ReadRight
    <3> QED BY <1>5, <3>1, <3>2
  <2>8. /\ ~next.saw_preamp => next.gain = ZeroGain
        /\ next.saw_preamp => \E j \in 1..next.read : t[j].kind = "preamp"
    BY <1>1, <1>6, <2>2 DEF ReadRight
  <2>9. n \in 0..Len(t)
    BY <1>1
  <2> QED BY <2>2, <2>5, <2>7, <2>8, <2>9, Zenon DEF ReadRight
<1> QED BY <1>2, <1>8, <1>9, <1>10, <1>11, <1>12, <1>13, Zenon

\* What the preset of an import has, which the text need not tell.
InUse(p) ==
  /\ p.order = <<"equalizer">> /\ p.num \in 1..kMaxBands /\ p.right = p.left /\ p.split = FALSE
  /\ p.left = [k \in 1..kMaxBands |-> p.left[k]]
  /\ \A k \in 1..kMaxBands : k > p.num => p.left[k] = Off

\* An import that has read the whole text and found a filter is a preset that plays as the text
\* says, also when it has more bands than there is room for.
LEMMA ImportPlays ==
  ASSUME NEW t \in Seq(Line), NEW i, ReadRight(i, t), i.error = NoError, i.read = Len(t),
         i.bands # <<>>
  PROVE  Plays(parse_autoeq_preset(i), t) /\ InUse(parse_autoeq_preset(i))
<1> DEFINE p == parse_autoeq_preset(i)
           num == clamp(Len(i.bands))
           left == [k \in 1..kMaxBands |-> IF k <= num THEN i.bands[k] ELSE Off]
<1>1. /\ p.order = <<"equalizer">> /\ p.num = num /\ p.split = FALSE /\ p.gain = i.gain
      /\ p.left = left /\ p.right = left
  BY Zenon DEF parse_autoeq_preset
<1>2. /\ i.bands \in Seq(Bands(t)) /\ Len(i.bands) = Cardinality(OnLines(t, Len(t)))
      /\ Len(t) \in Nat /\ DOMAIN t = 1..Len(t)
  BY DEF ReadRight
<1>3. Len(i.bands) \in Nat \ {0} /\ kMaxBands \in Nat \ {0}
  BY <1>2, StandaloneAssumption
<1>4. num = IF Len(i.bands) > kMaxBands THEN kMaxBands ELSE Len(i.bands)
  BY <1>3 DEF clamp
<1>5. num \in 1..kMaxBands /\ num <= Len(i.bands)
  BY <1>3, <1>4
<1> HIDE DEF p, num
<1>6. ASSUME NEW j \in DOMAIN t
      PROVE  /\ t[j].kind # "junk"
             /\ t[j].kind = "preamp" => i.saw_preamp /\ i.gain = t[j].gain
             /\ t[j].kind = "on" => /\ filter_line_error(t[j]) = NoError
                                    /\ i.bands[Cardinality(OnLines(t, j))] = LineBand(t[j])
  BY <1>2 DEF ReadRight
<1>7. ASSUME NEW j \in DOMAIN t, t[j].kind = "on", Cardinality(OnLines(t, j)) <= kMaxBands
      PROVE  left[Cardinality(OnLines(t, j))] = LineBand(t[j])
  <2>1. Cardinality(OnLines(t, j)) \in 1..Len(i.bands)
    BY <1>2, <1>7, OnLinesPlace
  <2>2. Cardinality(OnLines(t, j)) \in 1..kMaxBands /\ Cardinality(OnLines(t, j)) <= num
    BY <1>3, <1>4, <1>7, <2>1
  <2> QED BY <1>6, <1>7, <2>2
<1>8. (\A j \in DOMAIN t : t[j].kind # "preamp") => i.gain = ZeroGain
  BY <1>2 DEF ReadRight
<1>9. \A k \in 1..kMaxBands : k > Len(i.bands) => left[k] = Off
  BY <1>3, <1>4
<1>10. \A k \in 1..kMaxBands : k > num => left[k] = Off
  BY <1>3, <1>5
<1>11. left = [k \in 1..kMaxBands |-> left[k]]
  OBVIOUS
<1> HIDE DEF left
<1>12. Plays(p, t)
  BY <1>1, <1>2, <1>6, <1>7, <1>8, <1>9, Zenon DEF Plays
<1>13. InUse(p)
  BY <1>1, <1>5, <1>10, <1>11, Zenon DEF InUse
<1> QED BY <1>12, <1>13 DEF p

\* A preset is played by its order, its gain and its bands.
LEMMA PlaysSame ==
  ASSUME NEW t, NEW p, NEW q, Plays(p, t), q.order = p.order, q.gain = p.gain,
         q.left = p.left, q.right = p.right
  PROVE  Plays(q, t)
BY Zenon DEF Plays

\* The preset that is parsed from what was rendered is the preset that was rendered, although
\* only the bands in use are written.
LEMMA RoundTrip ==
  ASSUME NEW t, NEW p, Plays(p, t), InUse(p),
         NEW doc, doc = render_easy_effects_preset_json(p)
  PROVE  Faithful(doc, t)
<1> DEFINE q == parse_easy_effects_preset(doc)
           given == [k \in 1..p.num |-> p.left[k]]
<1> SUFFICES ASSUME ~IsRejected(q) PROVE Plays(q, t)
  BY DEF Faithful
<1>1. FirstError(complaints(doc)) = NoError
  BY Zenon DEF parse_easy_effects_preset, IsRejected, Rejected
<1>2. /\ doc.order = <<"equalizer">> /\ doc.payloads = {"equalizer"} /\ doc.gain = p.gain
      /\ doc.split = FALSE /\ doc.num = p.num /\ doc.left = given
  BY DEF render_easy_effects_preset_json, InUse
<1>3. /\ supported(doc.order) = <<"equalizer">>
      /\ Without(<<"equalizer">>, "convolver") = <<"equalizer">>
  <2>1. IsList(<<"equalizer">>) /\ Range(<<"equalizer">>) = {"equalizer"}
    <3>1. IsList(<<"equalizer">>)
      <4>1. <<"equalizer">> \in Seq({"equalizer"})
        OBVIOUS
      <4> QED BY <4>1, ListOf
    <3>2. DOMAIN <<"equalizer">> = {1} /\ <<"equalizer">>[1] = "equalizer"
      OBVIOUS
    <3> QED BY <3>1, <3>2, Zenon DEF Range
  <2>2. Keep(<<"equalizer">>, Kinds) = <<"equalizer">>
    BY <2>1, KeepAll DEF Kinds
  <2>3. Without(<<"equalizer">>, "convolver") = <<"equalizer">>
    BY <2>1, WithoutIs
  <2> QED BY <1>2, <2>2, <2>3 DEF supported
<1>4. clamp(doc.num) = p.num
  BY <1>2, StandaloneAssumption DEF InUse, clamp
<1>5. parse_bands(given, p.num) = p.left
  <2>1. DOMAIN given = 1..p.num /\ p.num \in 1..kMaxBands /\ kMaxBands \in Nat
    BY StandaloneAssumption DEF InUse
  <2>2. ASSUME NEW k \in 1..kMaxBands
        PROVE  (IF k \in DOMAIN given THEN given[k]
                ELSE initialize_equalizer_defaults(p.num)[k]) = p.left[k]
    <3>1. CASE k <= p.num
      BY <2>1, <3>1
    <3>2. CASE k > p.num
      BY <2>1, <3>2 DEF InUse, initialize_equalizer_defaults
    <3> QED BY <2>1, <3>1, <3>2
  <2>3. parse_bands(given, p.num) = [k \in 1..kMaxBands |-> p.left[k]]
    BY <2>2 DEF parse_bands
  <2> QED BY <2>3 DEF InUse
<1>6. /\ q.order = <<"equalizer">> /\ q.gain = p.gain /\ q.left = p.left /\ q.right = p.left
  BY <1>1, <1>2, <1>3, <1>4, <1>5 DEF parse_easy_effects_preset
<1> QED BY <1>6, PlaysSame DEF InUse

\* The files that Convert leaves: those it found, and what it has rendered, in whole or in part.
LEMMA ConvertWrites ==
  ASSUME OnDisk, Imported, Convert
  PROVE  \/ UNCHANGED <<disk, converted>>
         \/ \E name, doc : /\ disk' = Write(name, doc) /\ converted' = converted \cup {name}
                           /\ IsList(doc.order) /\ Faithful(doc, text)
<1> DEFINE p == parse_autoeq_preset(import)
           doc == render_easy_effects_preset_json(p)
           cut == [doc EXCEPT !.whole = FALSE]
<1>1. CASE UNCHANGED <<disk, converted>>
  BY <1>1
<1>2. CASE ~IsRejected(p) /\ (Written(doc) \/ Written(cut))
  <2>1. ReadRight(import, text) /\ ImportOver /\ text \in Seq(Line)
    BY DEF Convert, Imported, OnDisk
  <2>2. import.error = NoError /\ import.bands # <<>>
    BY <1>2, Zenon DEF parse_autoeq_preset, IsRejected, Rejected, NoError
  <2>3. Plays(p, text) /\ InUse(p)
    BY <2>1, <2>2, ImportPlays DEF ImportOver
  <2> HIDE DEF p
  <2>4. Faithful(doc, text)
    BY <2>3, RoundTrip
  <2>5. doc.order = <<"equalizer">> /\ ~cut.whole /\ cut.order = doc.order
    BY <2>3 DEF render_easy_effects_preset_json, InUse
  <2> HIDE DEF doc, cut
  <2>6. Faithful(cut, text)
    BY <2>5, CutIsRejected DEF Faithful
  <2>7. IsList(doc.order) /\ IsList(cut.order)
    <3>1. <<"equalizer">> \in Seq({"equalizer"})
      OBVIOUS
    <3> QED BY <2>5, <3>1, ListOf
  <2> QED BY <1>2, <2>4, <2>6, <2>7, Zenon DEF Written
<1> QED BY <1>1, <1>2, Zenon DEF Convert

\* Only a conversion changes the files.
LEMMA FilesKept ==
  ASSUME [Next]_vars
  PROVE  text' = text /\ (Convert \/ UNCHANGED <<disk, converted>>)
<1>1. ASSUME NEW line \in CommandLines, NEW env \in {"", "preset"}, Call(line, env)
      PROVE  UNCHANGED <<text, disk, converted>>
  BY <1>1, Zenon DEF Call, diskVars
<1>2. CASE ListSinks \/ OpenText \/ ImportLine \/ Load \/ ResolveKernel
  BY <1>2, Zenon DEF ListSinks, OpenText, ImportLine, Load, ResolveKernel, diskVars
<1>3. CASE Convert
  BY <1>3, Zenon DEF Convert
<1>4. CASE start
  <2>1. CASE EqConnect \/ LimiterConnect \/ Ports \/ connect_chain
    BY <2>1 DEF EqConnect, LimiterConnect, Ports, connect_chain, Pass, diskVars
  <2>2. ASSUME NEW stage \in Range(Stages), Wait(stage) \/ StageFails(stage)
        PROVE  UNCHANGED <<text, disk, converted>>
    BY <2>2 DEF Wait, StageFails, Pass, diskVars
  <2>3. ASSUME NEW connected \in BOOLEAN, ConvolverConnect(connected)
        PROVE  UNCHANGED <<text, disk, converted>>
    BY <2>3 DEF ConvolverConnect, Pass, diskVars
  <2> QED BY <1>4, <2>1, <2>2, <2>3 DEF start
<1>5. CASE ReadSignal \/ Stop \/ PollFails \/ Signal
  BY <1>5 DEF ReadSignal, Stop, PollFails, Signal, diskVars
<1>6. CASE UNCHANGED vars
  BY <1>6 DEF vars
<1> QED BY <1>1, <1>2, <1>3, <1>4, <1>5, <1>6, Zenon DEF Next, Main

\* A preset is loaded from the disk, and before a conversion its locals are new.
LEMMA Entered ==
  ASSUME [Next]_vars
  PROVE  /\ pc' = "resolve" => Load \/ UNCHANGED <<pc, args, preset>>
         /\ pc' = "convert" => import' = NoImport \/ UNCHANGED <<pc, import>>
         /\ pc' = "import" => OpenText \/ ImportLine \/ UNCHANGED <<pc, import>>
<1>1. ASSUME NEW line \in CommandLines, NEW env \in {"", "preset"}, Call(line, env)
      PROVE  pc' \in {"failure", "success", "list", "convert", "load"} /\ import' = NoImport
  BY <1>1 DEF Call, Mode
<1>2. CASE ListSinks \/ Convert
  <2>1. pc' \in {"failure", "success"}
    BY <1>2 DEF ListSinks, Convert, Fails
  <2> QED BY <2>1
<1>3. CASE OpenText \/ ImportLine
  <2>1. \/ pc' \in {"failure", "import"} /\ UNCHANGED import
        \/ ImportLine /\ pc' = "import"
    BY <1>3 DEF OpenText, ImportLine, Fails
  <2> QED BY <1>3, <2>1
<1>4. CASE Load
  <2>1. pc' \in {"failure", "success", "resolve"}
    BY <1>4 DEF Load, Fails
  <2> QED BY <1>4, <2>1
<1>5. CASE ResolveKernel \/ ReadSignal \/ Stop \/ PollFails
  BY <1>5 DEF ResolveKernel, ReadSignal, Stop, PollFails
<1>6. CASE Signal
  BY <1>6, StagesFollow DEF Signal, routerVars
<1>7. CASE start
  <2> USE StagesFollow DEF Pass, Fails
  <2>1. CASE EqConnect \/ LimiterConnect \/ Ports \/ connect_chain
    BY <2>1 DEF EqConnect, LimiterConnect, Ports, connect_chain
  <2>2. ASSUME NEW stage \in Range(Stages), Wait(stage) \/ StageFails(stage)
        PROVE  pc' \in Range(Stages) \cup {"active", "stop"}
    BY <2>2 DEF Wait, StageFails
  <2>3. ASSUME NEW connected \in BOOLEAN, ConvolverConnect(connected)
        PROVE  pc' \in Range(Stages)
    BY <2>3 DEF ConvolverConnect
  <2> QED BY <1>7, <2>1, <2>2, <2>3 DEF start
<1>8. CASE UNCHANGED vars
  BY <1>8 DEF vars
<1> QED BY <1>1, <1>2, <1>3, <1>4, <1>5, <1>6, <1>7, <1>8 DEF Next, Main

LEMMA InitFiles == Init => OnDisk /\ Imported /\ ConvertedRight
<1> SUFFICES ASSUME Init PROVE OnDisk /\ Imported /\ ConvertedRight
  OBVIOUS
<1>1. PICK home \in Homes : text = home.text /\ disk = home.disk
  BY DEF Init
<1>2. OnDisk
  BY <1>1, StandaloneAssumption DEF OnDisk
<1>3. pc = "shell" /\ converted = {}
  BY DEF Init
<1> QED BY <1>2, <1>3 DEF Imported, ConvertedRight, ConvertedPlaysAsMeant

LEMMA NextOnDisk == OnDisk /\ Imported /\ [Next]_vars => OnDisk'
<1> SUFFICES ASSUME OnDisk, Imported, [Next]_vars PROVE OnDisk'
  OBVIOUS
<1>1. text' = text
  BY FilesKept
<1>2. CASE UNCHANGED <<disk, converted>>
  BY <1>1, <1>2 DEF OnDisk
<1>3. CASE ~UNCHANGED <<disk, converted>>
  <2>1. PICK name, doc : disk' = Write(name, doc) /\ IsList(doc.order)
    BY <1>3, FilesKept, ConvertWrites
  <2> QED BY <1>1, <2>1 DEF OnDisk, Write
<1> QED BY <1>2, <1>3

LEMMA NextImported == OnDisk /\ Imported /\ [Next]_vars => Imported'
<1> SUFFICES ASSUME OnDisk, Imported, [Next]_vars PROVE Imported'
  OBVIOUS
<1>1. text' = text /\ text \in Seq(Line)
  BY FilesKept DEF OnDisk
<1>2. pc' = "convert" => import' = NoImport
  BY Entered DEF Imported
<1>3. ASSUME pc' = "import" PROVE ReadRight(import', text)
  <2>1. CASE OpenText
    <3>1. import' = NoImport
      BY <2>1 DEF OpenText, Imported
    <3> QED BY <1>1, <3>1, NothingRead
  <2>2. CASE ImportLine
    <3>1. /\ pc = "import" /\ import.error = NoError /\ import.read # Len(text)
          /\ import' = [parse_line(import, text[import.read + 1]) EXCEPT !.read = @ + 1]
      BY <2>2, Zenon DEF ImportLine, ImportOver
    <3>2. ReadRight(import, text)
      BY <3>1 DEF Imported
    <3>3. import.read < Len(text)
      BY <1>1, <3>1, <3>2 DEF ReadRight
    <3> QED BY <1>1, <3>1, <3>2, <3>3, LineRead
  <2>3. CASE UNCHANGED <<pc, import>>
    BY <1>3, <2>3 DEF Imported
  <2> QED BY <1>3, <2>1, <2>2, <2>3, Entered
<1> QED BY <1>1, <1>2, <1>3 DEF Imported

LEMMA NextConverted ==
  OnDisk /\ Imported /\ ConvertedRight /\ [Next]_vars => ConvertedRight'
<1> SUFFICES ASSUME OnDisk, Imported, ConvertedRight, [Next]_vars PROVE ConvertedRight'
  OBVIOUS
<1>1. text' = text
  BY FilesKept
<1>2. converted' \subseteq DOMAIN disk' /\ \A f \in converted' : Faithful(disk'[f], text)
  <2>1. CASE UNCHANGED <<disk, converted>>
    BY <2>1 DEF ConvertedRight
  <2>2. CASE ~UNCHANGED <<disk, converted>>
    <3>1. PICK name, doc : /\ disk' = Write(name, doc) /\ converted' = converted \cup {name}
                           /\ Faithful(doc, text)
      BY <2>2, FilesKept, ConvertWrites
    <3> QED BY <3>1 DEF ConvertedRight, Write
  <2> QED BY <2>1, <2>2
<1>3. ASSUME pc' = "resolve", args'.preset \in converted' PROVE Plays(preset', text)
  <2>1. CASE Load
    <3>1. /\ args' = args /\ UNCHANGED <<disk, converted>>
          /\ ~IsRejected(parse_easy_effects_preset(disk[args.preset]))
          /\ preset' = parse_easy_effects_preset(disk[args.preset])
      BY <1>3, <2>1 DEF Load, Fails, diskVars
    <3> QED BY <1>3, <3>1 DEF ConvertedRight, Faithful
  <2>2. CASE ~Load
    <3>1. UNCHANGED <<pc, args, preset>>
      BY <1>3, <2>2, Entered
    <3>2. args.preset \in converted
      <4>1. CASE Convert
        BY <1>3, <3>1, <4>1 DEF Convert
      <4>2. CASE UNCHANGED <<disk, converted>>
        BY <1>3, <3>1, <4>2
      <4> QED BY <4>1, <4>2, FilesKept
    <3> QED BY <1>3, <3>1, <3>2 DEF ConvertedRight, ConvertedPlaysAsMeant
  <2> QED BY <2>1, <2>2
<1> QED BY <1>1, <1>2, <1>3 DEF ConvertedRight, ConvertedPlaysAsMeant

-------------------------------------------------------------------------------
(* The theorems *)

LEMMA Invariance == Spec => [](Built /\ OnDisk /\ Chain /\ Imported /\ ConvertedRight)
<1>1. Init => Built /\ OnDisk /\ Chain /\ Imported /\ ConvertedRight
  BY InitBuilt, InitChain, InitFiles
<1>2. Built /\ OnDisk /\ Chain /\ Imported /\ ConvertedRight /\ [Next]_vars =>
        Built' /\ OnDisk' /\ Chain' /\ Imported' /\ ConvertedRight'
  BY NextBuilt, NextOnDisk, NextChain, NextImported, NextConverted
<1> QED BY <1>1, <1>2, PTL DEF Spec

\* Whatever the preset, the kernel found and the stages that succeed, the chain of an active
\* session is the preset's: connect_chain never finds a listed filter missing, the filters that
\* exist are linked once each, in the order of the preset that was parsed, without a convolver that
\* is not available, and the volume is at the last of them.
THEOREM ChainFollowsThePreset == Spec => []ChainIsThePreset
<1>1. ASSUME Chain PROVE ChainIsThePreset
  <2>1. ASSUME pc = "chain", Listed(preset.order, "limiter") PROVE "limiter" \in filters
    <3>1. Range(preset.order) = filters
      BY <1>1, <2>1, FiltersOfTheOrder DEF Linking
    <3> QED BY <2>1, <3>1 DEF Listed
  <2>2. ASSUME pc = "active"
        PROVE  /\ Range(links) = filters /\ IsInjective(links) /\ "equalizer" \in filters
               /\ links = (IF "convolver" \in filters THEN asked ELSE Without(asked, "convolver"))
               /\ volume_at = Last(links)
    <3>1. Range(preset.order) = filters /\ IsInjective(preset.order)
      BY <1>1, <2>2, FiltersOfTheOrder DEF Linking
    <3> QED BY <1>1, <2>2, <3>1 DEF Chain, Linking
  <2> QED BY <2>1, <2>2 DEF ChainIsThePreset
<1> QED BY <1>1, Invariance, PTL

\* Every text that --convert-autoeq imports and writes, however often and under whichever name, is
\* run by a later --preset as the text says, or not at all: parse_autoeq_preset misreads no line,
\* what render_easy_effects_preset_json leaves out is what the parser fills in, and a file that
\* was cut by a failed write is not accepted.
THEOREM ConversionIsFaithful == Spec => []ConvertedPlaysAsMeant
<1>1. ConvertedRight => ConvertedPlaysAsMeant
  BY DEF ConvertedRight
<1> QED BY <1>1, Invariance, PTL
===============================================================================
