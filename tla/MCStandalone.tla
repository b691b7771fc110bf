----------------------------- MODULE MCStandalone -----------------------------
(* Documents, texts and command lines for Standalone.                                        *)
EXTENDS Standalone

PresetDoc(order, payloads, num, left) ==
  [whole |-> TRUE, valid |-> TRUE, order |-> order, payloads |-> payloads, gain |-> "0 dB",
   split |-> FALSE, num |-> num, left |-> left, right |-> <<>>]

Bell(i) == [type |-> "Bell", from |-> <<i>>]

MCPresets ==
  {PresetDoc(order, payloads, 1, <<Bell(1)>>) :
     order \in UNION {[1..n -> Kinds \cup {"other"}] : n \in 0..3},
     payloads \in {{"equalizer"}, {"equalizer", "limiter"}, {"equalizer", "convolver"}, Kinds}}
  \cup {[PresetDoc(<<"equalizer">>, {"equalizer"}, num, left)
            EXCEPT !.split = split, !.valid = valid] :
          num \in {0, 2, kMaxBands + 1}, left \in {<<>>, <<Bell(1), Bell(2)>>},
          split \in BOOLEAN, valid \in BOOLEAN}

On(code, has, id) == [kind |-> "on", code |-> code, has |-> has, id |-> id]
Full(id) == On("PK", {"Fc", "Gain", "Q"}, id)
Plain(kind) == [kind |-> kind]
Preamp(gain) == [kind |-> "preamp", gain |-> gain]

\* Every code with every combination of values, alone; and what may surround a filter.
MCTexts ==
  {<<On(code, has, 1)>> : code \in DOMAIN Types \cup {"XX"}, has \in SUBSET {"Fc", "Gain", "Q"}}
  \cup {<<a, Full(1), b, Full(2), c>> :
          a, b \in {Plain("comment"), Preamp("0 dB"), Preamp("-6 dB"), Plain("off")},
          c \in {Plain("comment"), Plain("junk"), Full(3), On("LS", {"Fc"}, 3), Preamp("0 dB")}}
  \cup {<<>>, <<Plain("off"), Preamp("0 dB")>>}

\* Any preset, or any text.
MCHomes == {[text |-> <<Full(1)>>, disk |-> [f \in {"preset"} |-> doc]] : doc \in MCPresets}
           \cup {[text |-> t, disk |-> <<>>] : t \in MCTexts}

\* What Keep computes is what SelectSeq does, whose definition is recursive.
ASSUME \A order \in UNION {[1..n -> Kinds \cup {"other"}] : n \in 0..4}, S \in SUBSET Kinds :
         Keep(order, S) = SelectSeq(order, LAMBDA k : k \in S)

Option(name, value) == [name |-> name, value |-> value]
MCCommandLines ==
  {<<Option("convert", "text"), Option("output", "converted")>>,
   <<Option("convert", "text")>>, <<Option("convert", "url")>>,
   <<Option("convert", "text"), Option("dry", "")>>,
   <<Option("preset", "preset"), Option("sink", "s")>>, <<Option("preset", "converted")>>,
   <<Option("preset", "preset"), Option("dry", "")>>, <<Option("preset", "url")>>,
   <<Option("preset", "preset"), Option("convert", "text")>>,
   <<Option("output", "converted"), Option("list", "")>>,
   <<Option("list", "")>>, <<Option("dry", ""), Option("help", ""), Option("bad", "")>>,
   <<Option("version", "")>>, <<Option("bad", "")>>, <<Option("no value", "")>>, <<>>}
===============================================================================
