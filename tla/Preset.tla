-------------------------------- MODULE Preset --------------------------------
(***************************************************************************)
(* What a preset file means (ee_eq_preset_parser.cpp): the parser of Easy  *)
(* Effects presets, the importer of AutoEQ texts and the writer of the     *)
(* converted preset.  A JSON document is a record of what the parser asks  *)
(* of it, a text is a sequence of lines, and a band is its filter type and *)
(* where its numbers come from.                                            *)
(***************************************************************************)
EXTENDS Integers, Sequences, SequencesExt, FiniteSets

CONSTANT kMaxBands  \* 32 in the code

Kinds == {"equalizer", "limiter", "convolver"}

NoError == ""
ZeroGain == "0 dB"

\* ParsedPreset, or the error that is returned instead.
Rejected(why) == [error |-> why]
IsRejected(p) == p.error # NoError

-------------------------------------------------------------------------------
(* Lists *)

IsList(s) == s \in Seq(Range(s))

\* The n-th of a set of indices, and the elements of s that are in S, in the order of s.
Nth(I, n) == CHOOSE i \in I : Cardinality({j \in I : j <= i}) = n
Keep(s, S) == LET I == {i \in DOMAIN s : s[i] \in S} IN
              [n \in 1..Cardinality(I) |-> s[Nth(I, n)]]

\* std::erase.
Without(order, kind) == Keep(order, Range(order) \ {kind})

-------------------------------------------------------------------------------
(* Bands *)

Off == [type |-> "Off", from |-> <<>>]

\* initialize_equalizer_defaults: the frequency and Q of a default band depend on its place
\* and on the number of bands.
initialize_equalizer_defaults(num) ==
  [i \in 1..kMaxBands |-> IF i <= num THEN [type |-> "Bell", from |-> <<i, num>>] ELSE Off]

clamp(num) == IF num < 1 THEN 1 ELSE IF num > kMaxBands THEN kMaxBands ELSE num

\* parse_band for each band: bands a document has replace the defaults, also beyond num.
parse_bands(given, num) ==
  [i \in 1..kMaxBands |-> IF i \in DOMAIN given THEN given[i]
                          ELSE initialize_equalizer_defaults(num)[i]]

-------------------------------------------------------------------------------
(* Easy Effects presets *)

\* The first of the complaints, given in the order in which the parser comes to them.
FirstError(complaints) ==
  LET raised == {i \in DOMAIN complaints : complaints[i][1]} IN
  IF raised = {} THEN NoError ELSE complaints[Nth(raised, 1)][2]

Listed(order, kind) == kind \in Range(order)

\* push_plugin_kind rejects a kind that is there already; other plugins are skipped.
supported(order) == Keep(order, Kinds)
Duplicated(order) == \E i, j \in DOMAIN supported(order) :
                        i # j /\ supported(order)[i] = supported(order)[j]

\* A document without output or plugins_order has an empty order; valid is about labels,
\* types of fields, and the two channels being there.
complaints(doc) ==
  << <<~doc.whole, "invalid preset JSON">>,
     <<doc.order = <<>>, "empty output.plugins_order">>,
     <<Duplicated(doc.order), "duplicate plugin kind">>,
     <<~Listed(doc.order, "equalizer"), "equalizer is required">>,
     <<"equalizer" \notin doc.payloads, "missing output.equalizer payload">>,
     <<~doc.valid, "invalid preset structure">>,
     <<Listed(doc.order, "limiter") /\ "limiter" \notin doc.payloads,
       "missing output.limiter payload">> >>

\* A convolver that is listed without its payload is left out with a warning.
parse_easy_effects_preset(doc) ==
  LET error == FirstError(complaints(doc))
      num == clamp(doc.num)
      left == parse_bands(doc.left, num)
      order == IF "convolver" \in doc.payloads THEN supported(doc.order)
               ELSE Without(supported(doc.order), "convolver")
  IN IF error # NoError THEN Rejected(error)
     ELSE [error |-> NoError, order |-> order, num |-> num, gain |-> doc.gain, split |-> doc.split,
           left |-> left, right |-> IF doc.split THEN parse_bands(doc.right, num) ELSE left,
           limiter |-> Listed(order, "limiter") /\ "limiter" \in doc.payloads,
           convolver |-> Listed(order, "convolver")]

-------------------------------------------------------------------------------
(* AutoEQ texts.  A line is a comment (or empty), a preamp, junk, or a filter that is on or   *)
(* off, with its code and the values that follow.                                             *)

Line == [kind : {"comment", "junk", "off"}]
        \cup [kind : {"preamp"}, gain : STRING]
        \cup [kind : {"on"}, code : STRING, has : SUBSET {"Fc", "Gain", "Q"}, id : Nat]

Types == [PK |-> "Bell", PEQ |-> "Bell", MODAL |-> "Bell", LSC |-> "Lo-shelf",
          HSC |-> "Hi-shelf", LS |-> "Lo-shelf", HS |-> "Hi-shelf", LP |-> "Lo-pass",
          LPQ |-> "Lo-pass", HP |-> "Hi-pass", HPQ |-> "Hi-pass", NO |-> "Notch",
          BP |-> "Bandpass", AP |-> "Allpass"]
NeedsGain == {"PK", "PEQ", "MODAL", "LSC", "HSC", "LS", "HS"}
NeedsQ == {"PK", "PEQ", "MODAL", "LSC", "HSC", "LPQ", "HPQ", "NO", "BP"}

\* parse_autoeq_filter_line: the band of a filter that is on, or what is wrong with it.
filter_line_error(line) ==
  FirstError(<< <<"Fc" \notin line.has, "missing or invalid Fc value">>,
                <<line.code \notin DOMAIN Types, "unsupported AutoEQ filter type">>,
                <<line.code \in NeedsGain /\ "Gain" \notin line.has,
                  "unexpected AutoEQ text line">>,
                <<line.code \in NeedsQ /\ "Q" \notin line.has, "unexpected AutoEQ text line">> >>)

\* The band of a line that has no error.
LineBand(line) == [type |-> Types[line.code], from |-> <<line.id>>]

\* The locals of parse_autoeq_preset: how many lines it has read, the error, the gain and the
\* bands imported.
NoImport == [read |-> 0, error |-> NoError, saw_preamp |-> FALSE, gain |-> ZeroGain, bands |-> <<>>]

\* What a round of the loop does with a line.
parse_line(import, line) ==
  CASE line.kind \in {"comment", "off"} -> import
    [] line.kind = "junk" -> [import EXCEPT !.error = "unexpected AutoEQ text line"]
    [] line.kind = "preamp" ->
         IF import.saw_preamp \/ import.bands # <<>>
         THEN [import EXCEPT !.error = "multiple AutoEQ preset blocks detected"]
         ELSE [import EXCEPT !.saw_preamp = TRUE, !.gain = line.gain]
    [] line.kind = "on" ->
         IF filter_line_error(line) # NoError THEN [import EXCEPT !.error = filter_line_error(line)]
         ELSE [import EXCEPT !.bands = Append(@, LineBand(line))]

\* What follows the loop.  More than kMaxBands bands are cut without a warning.
parse_autoeq_preset(import) ==
  LET num == clamp(Len(import.bands))
      bands == [i \in 1..kMaxBands |-> IF i <= num THEN import.bands[i] ELSE Off]
  IN IF import.error # NoError THEN Rejected(import.error)
     ELSE IF import.bands = <<>> THEN Rejected("no supported AutoEQ filter lines were found")
     ELSE [error |-> NoError, order |-> <<"equalizer">>, num |-> num, split |-> FALSE,
           gain |-> import.gain, left |-> bands, right |-> bands, limiter |-> FALSE,
           convolver |-> FALSE]

\* Mutant: the last band is not written.
render_easy_effects_preset_json_Short(p) ==
  [whole |-> TRUE, valid |-> TRUE, order |-> p.order, payloads |-> {"equalizer"},
   gain |-> p.gain, split |-> p.split, num |-> p.num,
   left |-> [i \in 1..(p.num - 1) |-> p.left[i]], right |-> [i \in 1..(p.num - 1) |-> p.right[i]]]

\* Only the equalizer is written, and of its bands those that are in use.
render_easy_effects_preset_json(p) ==
  [whole |-> TRUE, valid |-> TRUE, order |-> p.order, payloads |-> {"equalizer"},
   gain |-> p.gain, split |-> p.split, num |-> p.num,
   left |-> [i \in 1..p.num |-> p.left[i]], right |-> [i \in 1..p.num |-> p.right[i]]]
===============================================================================
