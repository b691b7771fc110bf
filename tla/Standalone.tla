------------------------------ MODULE Standalone ------------------------------
(***************************************************************************)
(* eq-cli without the daemon (main.cpp, cli_args.cpp, kernel_resolver.cpp, *)
(* PipeWireRouter::start): the user calls it several times, to convert an  *)
(* AutoEQ text, to look, or to run a preset until a signal comes.  The     *)
(* start of the router goes through its stages, each of which may fail;    *)
(* what the filters and links do then is the other modules'.               *)
(***************************************************************************)
EXTENDS Preset

CONSTANTS
  Homes,         \* what the user may have on disk: a text and presets by name
  CommandLines,  \* sequences of options, each with its value
  MaxCalls       \* bound on calls

\* A text is a sequence of lines, and the order of a document a list of names.
ASSUME StandaloneAssumption ==
  /\ kMaxBands \in Nat \ {0} /\ MaxCalls \in Nat
  /\ \A home \in Homes :
       /\ home.text \in Seq(Line)
       /\ \A f \in DOMAIN home.disk : IsList(home.disk[f].order)

VARIABLES
  pc,        \* the process: shell (there is none), or where in main, or how it ended
  args,      \* CliArgs
  text,      \* the AutoEQ text on disk
  disk,      \* the presets on disk by name
  converted, \* history: the names that a conversion has written
  import,    \* the locals of parse_autoeq_preset
  preset,    \* preset_ of the router: what was parsed, changed by start
  asked,     \* history: the order that was parsed
  filters,   \* the filter nodes that exist
  volume_at, \* the filter that has volume_ for its source
  links,     \* the filters linked from the virtual sink to the selected sink, in order
  kernel,    \* what the resolver finds for the convolver's kernel: irs, or nothing
  masked,    \* the call has inherited a mask that blocks SIGINT and SIGTERM
  signal,    \* SIGINT or SIGTERM is pending
  failed,    \* why the call failed
  calls

vars == <<pc, args, text, disk, converted, import, preset, asked, filters, volume_at, links,
          kernel, masked, signal, failed, calls>>

diskVars == <<text, disk, converted>>
routerVars == <<preset, asked, filters, volume_at, links, kernel>>

Nowhere == "nowhere"
Stages == <<"core", "sink", "virtual", "equalizer", "convolver", "limiter", "ports", "chain",
            "links">>
Ends == {"success", "failure", "terminated", "killed"}
NoPreset == Rejected("none")

-------------------------------------------------------------------------------
(* The command line *)

NoArgs == [error |-> "", over |-> FALSE, help |-> FALSE, version |-> FALSE, preset |-> "",
           convert |-> "", output |-> "", sink |-> "", dry |-> FALSE, list |-> FALSE]

\* One round of the loop; help, version and errors end it.  An option that lacks its value is
\* the last one.
take_option(a, o) ==
  IF a.over THEN a
  ELSE CASE o.name \in {"help", "version"} -> [a EXCEPT ![o.name] = TRUE, !.over = TRUE]
         [] o.name \in {"dry", "list"} -> [a EXCEPT ![o.name] = TRUE]
         [] o.name \in {"preset", "convert", "output", "sink"} -> [a EXCEPT ![o.name] = o.value]
         [] o.name = "no value" -> [NoArgs EXCEPT !.error = "missing value", !.over = TRUE]
         [] OTHER -> [NoArgs EXCEPT !.error = "unknown option", !.over = TRUE]

\* The options that exclude each other, in the order of the tests.
conflict(a) ==
  FirstError(<< <<a.preset # "" /\ a.convert # "", "--preset and --convert-autoeq">>,
                <<a.output # "" /\ a.convert = "", "--output requires --convert-autoeq">>,
                <<a.convert # "" /\ a.list, "--convert-autoeq with --list-sinks">>,
                <<a.convert # "" /\ a.sink # "", "--convert-autoeq with --sink">>,
                <<a.convert # "" /\ a.dry, "--convert-autoeq with --dry-run">>,
                <<a.convert = "url", "--convert-autoeq must be a local file path">> >>)

preset_error(a) ==
  FirstError(<< <<a.preset = "" /\ ~a.list, "no preset specified">>,
                <<a.preset = "url", "--preset must be a local file path">> >>)

\* env is the value of the default preset's environment variable.
parse_cli_args(line, env) ==
  LET a == FoldLeft(take_option, NoArgs, line)
      b == IF a.convert = "" /\ a.preset = "" /\ ~a.list THEN [a EXCEPT !.preset = env] ELSE a
      error == IF conflict(a) # "" \/ a.convert # "" THEN conflict(a)
               ELSE preset_error(b)
  IN IF a.over THEN a ELSE IF error # "" THEN [NoArgs EXCEPT !.error = error] ELSE b

-------------------------------------------------------------------------------
Init ==
  /\ pc = "shell" /\ args = NoArgs
  /\ \E home \in Homes : text = home.text /\ disk = home.disk
  /\ converted = {} /\ import = NoImport
  /\ preset = NoPreset /\ asked = <<>> /\ filters = {} /\ volume_at = Nowhere /\ links = <<>>
  /\ kernel = Nowhere /\ masked = FALSE /\ signal = FALSE /\ failed = "" /\ calls = 0

\* What main does first with its arguments.
Mode(a) == IF a.error # "" THEN "failure"
           ELSE IF a.help \/ a.version THEN "success"
           ELSE IF a.list THEN "list" ELSE IF a.convert # "" THEN "convert" ELSE "load"

Call(line, env) ==
  /\ pc \in {"shell"} \cup Ends /\ calls < MaxCalls
  /\ calls' = calls + 1
  /\ args' = parse_cli_args(line, env)
  /\ pc' = Mode(args') /\ failed' = args'.error
  /\ import' = NoImport /\ preset' = NoPreset /\ asked' = <<>>
  /\ filters' = {} /\ volume_at' = Nowhere /\ links' = <<>>
  /\ kernel' = Nowhere /\ masked' \in BOOLEAN /\ signal' = FALSE
  /\ UNCHANGED diskVars

Fails(why) == pc' = "failure" /\ failed' = why

\* list_sinks succeeds, with or without sinks, or fails.
ListSinks ==
  /\ pc = "list"
  /\ \/ pc' = "success" /\ UNCHANGED failed
     \/ Fails("router")
  /\ UNCHANGED <<args, import, diskVars, routerVars, masked, signal, calls>>

Write(name, doc) == [f \in DOMAIN disk \cup {name} |-> IF f = name THEN doc ELSE disk[f]]

\* load_preset_source.
OpenText ==
  /\ pc = "convert"
  /\ \/ pc' = "import" /\ UNCHANGED failed
     \/ Fails("failed to open preset file")
  /\ UNCHANGED <<args, import, diskVars, routerVars, masked, signal, calls>>

ImportOver == import.error # NoError \/ import.read = Len(text)

\* A round of the loop of parse_autoeq_preset.
ImportLine ==
  /\ pc = "import" /\ ~ImportOver
  /\ import' = [parse_line(import, text[import.read + 1]) EXCEPT !.read = @ + 1]
  /\ UNCHANGED <<pc, args, diskVars, routerVars, masked, signal, failed, calls>>

Written(doc) == disk' = Write(args.output, doc) /\ converted' = converted \cup {args.output}

\* The preset is rendered and written.  A write that fails leaves a part, or lacks the newline
\* only, and is not noticed when it fails as the stream's buffer is flushed at the end.
Convert ==
  /\ pc = "import" /\ ImportOver
  /\ LET p == parse_autoeq_preset(import) IN
     \/ IsRejected(p) /\ Fails(p.error) /\ UNCHANGED <<disk, converted>>
     \/ /\ ~IsRejected(p) /\ args.output = ""
        /\ pc' = "success" /\ UNCHANGED <<disk, converted, failed>>
     \/ /\ ~IsRejected(p) /\ args.output # ""
        /\ LET doc == render_easy_effects_preset_json(p) IN
           \/ Fails("failed to open output file") /\ UNCHANGED <<disk, converted>>
           \/ /\ \/ pc' = "success" /\ UNCHANGED failed
                 \/ Fails("failed to write output file")
              /\ Written(doc) \/ Written([doc EXCEPT !.whole = FALSE])
  /\ UNCHANGED <<args, import, text, routerVars, masked, signal, calls>>

-------------------------------------------------------------------------------
(* The start of a preset *)

\* load_preset_source and parse_easy_effects_preset; a dry run ends here.
Load ==
  /\ pc = "load"
  /\ IF args.preset \notin DOMAIN disk
     THEN Fails("failed to open preset file") /\ UNCHANGED <<preset, asked>>
     ELSE LET p == parse_easy_effects_preset(disk[args.preset]) IN
          IF IsRejected(p) THEN Fails(p.error) /\ UNCHANGED <<preset, asked>>
          ELSE /\ preset' = p /\ asked' = p.order /\ UNCHANGED failed
               /\ pc' = IF args.dry THEN "success" ELSE "resolve"
  /\ UNCHANGED <<args, import, diskVars, filters, volume_at, links, kernel, masked, signal, calls>>

\* resolve_convolver_kernel, by name: an .irs file of exactly that name; else a .sofa file, which
\* is not supported; else the first file whose name is similar, if it is an .irs file.
resolve_convolver_kernel(named, exact, similar) ==
  IF named /\ (exact = "irs" \/ (exact = Nowhere /\ similar = "irs")) THEN "irs" ELSE Nowhere

\* The head of PipeWireRouter::start: the convolver may be disabled by the environment, and
\* its kernel may not be found.
ResolveKernel ==
  /\ pc = "resolve"
  /\ \E disabled, named \in BOOLEAN, exact, similar \in {"irs", "sofa", Nowhere} :
       IF preset.convolver /\ ~disabled
       THEN kernel' = resolve_convolver_kernel(named, exact, similar) /\ UNCHANGED preset
       ELSE /\ preset' = [preset EXCEPT !.order = Without(@, "convolver"), !.convolver = FALSE]
            /\ UNCHANGED kernel
  /\ pc' = "core"
  /\ UNCHANGED <<args, import, diskVars, asked, filters, volume_at, links, masked, signal, failed,
                 calls>>

After(stage) == IF stage = "links" THEN "active"
                ELSE Stages[(CHOOSE i \in DOMAIN Stages : Stages[i] = stage) + 1]

\* Any stage may fail and is answered with stop, except for the convolver's.
StageFails(stage) ==
  /\ pc = stage
  /\ (stage = "limiter" => preset.limiter) /\ stage # "convolver"
  /\ pc' = "stop" /\ failed' = stage
  /\ UNCHANGED <<args, import, diskVars, routerVars, masked, signal, calls>>

Pass(stage) ==
  /\ pc = stage /\ pc' = After(stage)
  /\ UNCHANGED <<args, import, diskVars, asked, kernel, masked, signal, failed, calls>>

\* setup_core, wait_for_startup_sink, create_virtual_sink and the wait for the links.
Wait(stage) ==
  /\ stage \in {"core", "sink", "virtual", "links"} /\ Pass(stage)
  /\ UNCHANGED <<preset, filters, volume_at, links>>

EqConnect ==
  /\ Pass("equalizer") /\ filters' = filters \cup {"equalizer"}
  /\ UNCHANGED <<preset, volume_at, links>>

\* A convolver that has no kernel or does not connect is taken out of the order.
ConvolverConnect(connected) ==
  /\ Pass("convolver")
  /\ IF preset.convolver /\ kernel = "irs" /\ connected
     THEN filters' = filters \cup {"convolver"} /\ UNCHANGED preset
     ELSE /\ preset' = [preset EXCEPT !.order = Without(@, "convolver")]
          /\ UNCHANGED filters
  /\ UNCHANGED <<volume_at, links>>

LimiterConnect ==
  /\ Pass("limiter")
  /\ filters' = IF preset.limiter THEN filters \cup {"limiter"} ELSE filters
  /\ UNCHANGED <<preset, volume_at, links>>

\* Mutant: the first filter of the order gets the volume.
volume_source_First == preset.order[1]

\* The last filter of the order that exists.
volume_source == Last(Keep(preset.order, filters))

Ports ==
  /\ Pass("ports") /\ volume_at' = volume_source
  /\ UNCHANGED <<preset, filters, links>>

\* connect_chain, where every link is made.  A limiter that is listed and does not exist would
\* be an error.
connect_chain ==
  /\ pc = "chain"
  /\ IF Listed(preset.order, "limiter") /\ "limiter" \notin filters
     THEN /\ pc' = "stop" /\ failed' = "limiter filter was not initialized"
          /\ UNCHANGED <<args, import, diskVars, routerVars, masked, signal, calls>>
     ELSE /\ links' = Keep(preset.order, filters)
          /\ Pass("chain") /\ UNCHANGED <<preset, filters, volume_at>>

start == \/ EqConnect \/ LimiterConnect \/ Ports \/ connect_chain
         \/ \E stage \in Range(Stages) : Wait(stage) \/ StageFails(stage)
         \/ \E connected \in BOOLEAN : ConvolverConnect(connected)

-------------------------------------------------------------------------------
(* wait_for_shutdown_signal.  The tasks it runs are SessionWorker's. *)

\* Until the wait begins the signals are blocked in no thread, and then only in the main thread:
\* PipeWire's, which setup_core has started, takes them, and the process is killed.  Only a mask
\* that the call has inherited blocks them in every thread.
Signal ==
  /\ pc \notin {"shell"} \cup Ends /\ ~signal
  /\ \/ masked /\ signal' = TRUE /\ UNCHANGED pc
     \/ ~masked /\ pc' = "killed" /\ UNCHANGED signal
  /\ UNCHANGED <<args, import, diskVars, routerVars, masked, failed, calls>>

\* poll or a read fails for good: an exception nobody catches.
PollFails ==
  /\ pc = "active" /\ pc' = "terminated"
  /\ UNCHANGED <<args, import, diskVars, routerVars, masked, signal, failed, calls>>

ReadSignal ==
  /\ pc = "active" /\ signal /\ pc' = "stop"
  /\ UNCHANGED <<args, import, diskVars, routerVars, masked, signal, failed, calls>>

\* stop, of a session or of a start that has failed.
Stop ==
  /\ pc = "stop" /\ pc' = IF failed = NoError THEN "success" ELSE "failure"
  /\ filters' = {} /\ links' = <<>> /\ volume_at' = Nowhere
  /\ UNCHANGED <<args, import, diskVars, preset, asked, kernel, masked, signal, failed, calls>>

-------------------------------------------------------------------------------
Main == \/ ListSinks \/ OpenText \/ ImportLine \/ Convert
        \/ Load \/ ResolveKernel \/ start \/ ReadSignal \/ Stop

Next == \/ \E line \in CommandLines, env \in {"", "preset"} : Call(line, env)
        \/ Main \/ Signal \/ PollFails

Spec == Init /\ [][Next]_vars

-------------------------------------------------------------------------------
(* Properties *)

\* The filters among the first n lines of a text that are on.
OnLines(t, n) == {k \in 1..n : t[k].kind = "on"}

\* What a preset must be to play as a text says.
Plays(p, t) ==
  /\ p.order = <<"equalizer">> /\ p.left = p.right
  /\ \A j \in DOMAIN t :
       LET place == Cardinality(OnLines(t, j)) IN
       /\ t[j].kind # "junk"
       /\ t[j].kind = "preamp" => p.gain = t[j].gain
       /\ t[j].kind = "on" =>
            /\ filter_line_error(t[j]) = NoError
            /\ place <= kMaxBands => p.left[place] = LineBand(t[j])
  /\ (\A j \in DOMAIN t : t[j].kind # "preamp") => p.gain = ZeroGain
  /\ \A i \in 1..kMaxBands : i > Cardinality(OnLines(t, Len(t))) => p.left[i] = Off

\* A converted preset that a later call runs is the text: its gain, its filters that are on, in
\* order, in both channels, the first kMaxBands of them, and nothing else.  A text that is not
\* understood throughout, or a write that failed, never becomes a preset that runs, not even in
\* part.
ConvertedPlaysAsMeant == pc = "resolve" /\ args.preset \in converted => Plays(preset, text)

\* A preset that was accepted never lacks a filter it lists when the chain is linked.  An active
\* session has the stages of the preset in the preset's order, without a convolver
\* that is not available; every filter it has is linked, and once only, and the volume is applied
\* once, by the last of them.
ChainIsThePreset ==
  /\ pc = "chain" /\ Listed(preset.order, "limiter") => "limiter" \in filters
  /\ pc = "active" =>
       /\ Range(links) = filters /\ IsInjective(links) /\ "equalizer" \in filters
       /\ links = (IF "convolver" \in filters THEN asked ELSE Without(asked, "convolver"))
       /\ volume_at = Last(links)
===============================================================================
