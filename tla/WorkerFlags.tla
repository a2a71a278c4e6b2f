---------------------------- MODULE WorkerFlags ----------------------------
(***************************************************************************)
(* The worker's start-up (cmd/vgi-x509-worker/main.go): filterKnownFlags   *)
(* walks the arguments and drops the ones the binary does not define, the  *)
(* flag package parses what is left, and the settings choose a transport.  *)
(* Filter and parser decide separately which argument is a flag and which  *)
(* is the value of the one before it.                                      *)
(*                                                                         *)
(* The caller composes the arguments from units, a unit being one flag     *)
(* with its value, if it has one, or a stray word.                         *)
(***************************************************************************)
EXTENDS Integers, Sequences, SequencesExt

CONSTANTS
    Words,      \* values and names, the flags' names among them
    NoWord,     \* the empty word
    NoInline,   \* no inline value
    Lines       \* the command lines to try: sequences of units

\* "--name=inline" is [dashes |-> 2, name, inline], the inline of "--name=" the
\* empty word and that of "--name" none; a word has no dashes.
Token == [dashes : 0..3, name : Words \cup {NoWord}, inline : Words \cup {NoWord, NoInline}]
Word(w) == [dashes |-> 0, name |-> w, inline |-> NoInline]

\* name is the flag the caller means to set, NoWord when it means none of the
\* worker's, and value what it means to set it to.
Unit == [tokens : Seq(Token) \ {<<>>}, name : Words \cup {NoWord}, value : Token]

ASSUME LinesAssumption == Lines \subseteq Seq(Unit)

VARIABLES
    line,     \* the units on the command line
    pc,       \* "filter", "parse", "apply", or how start-up ended
    i,        \* filter: the next argument
    out,      \* filter: the arguments kept
    p,        \* parser: the next argument of out
    settings  \* flag -> its value

vars == <<line, pc, i, out, p, settings>>

args == FlattenSeq([k \in DOMAIN line |-> line[k].tokens])

BoolFlags == {"http"}
Defined == BoolFlags \cup {"http-addr", "unix", "log-level", "log-format", "log-logger"}

\* Variant: one of the flags that take a value is left out of the list.
ValueFlagsShort == {"log-level", "log-format", "log-logger", "http-addr"}

\* The flags whose next argument the filter keeps with them.
ValueFlags == {"log-level", "log-format", "log-logger", "http-addr", "unix"}

Defaults == [f \in Defined |-> CASE f = "http" -> Word("false")
                                 [] f = "http-addr" -> Word("loopback")
                                 [] f = "log-level" -> Word("info")
                                 [] f = "log-format" -> Word("text")
                                 [] OTHER -> Word(NoWord)]

ASSUME WordsAssumption ==
    /\ NoWord \notin Words /\ NoInline \notin Words \cup {NoWord}
    /\ Defined \cup {"true", "false", "loopback", "info", "text"} \subseteq Words

Ends == {"http", "unix", "stdio", "exit2", "fatal"}

TypeOK ==
    /\ line \in Lines
    /\ pc \in {"filter", "parse", "apply"} \cup Ends
    /\ i \in 1..(Len(args) + 1)
    /\ out \in Seq(Token)
    /\ p \in 1..(Len(out) + 1)
    /\ settings \in [Defined -> Token]

Init == /\ line \in Lines
        /\ pc = "filter" /\ i = 1 /\ out = <<>> /\ p = 1
        /\ settings = Defaults

----------------------------------------------------------------------------
(* filterKnownFlags: one action per way through the loop.                  *)

a == args[i]

Filtering == pc = "filter" /\ i <= Len(args)

\* Variant: what follows a dropped argument is taken for its value.
DropWithValue ==
    /\ Filtering
    /\ a.dashes = 0 \/ a.name \notin Defined
    /\ i' = i + 2
    /\ UNCHANGED <<line, pc, out, p, settings>>

\* A word that is nobody's value, or a flag that is not defined: dropped.
Drop ==
    /\ Filtering
    /\ a.dashes = 0 \/ a.name \notin Defined
    /\ i' = i + 1
    /\ UNCHANGED <<line, pc, out, p, settings>>

\* Variant: an inline value does not count.
TakesNextInline(tok) == tok.name \in ValueFlags /\ i < Len(args)

\* The next argument, whatever it is, is the flag's value.
TakesNext(tok) == tok.name \in ValueFlags /\ tok.inline = NoInline /\ i < Len(args)

Keep ==
    /\ Filtering
    /\ a.dashes > 0 /\ a.name \in Defined
    /\ IF TakesNext(a)
       THEN out' = out \o <<a, args[i + 1]>> /\ i' = i + 2
       ELSE out' = Append(out, a) /\ i' = i + 1
    /\ UNCHANGED <<line, pc, p, settings>>

Filtered ==
    /\ pc = "filter"
    /\ i > Len(args)
    /\ pc' = "parse"
    /\ UNCHANGED <<line, i, out, p, settings>>

----------------------------------------------------------------------------
(* The flag package, which exits the process on an error.                  *)

t == out[p]

Parsing == pc = "parse" /\ p <= Len(out)

\* A word, or a bare "-" or "--", ends the flags; so does the end.
Stops(tok) ==
    tok.dashes = 0 \/ (tok.dashes < 3 /\ tok.name = NoWord /\ tok.inline = NoInline)

BadSyntax(tok) == tok.dashes > 2 \/ tok.name = NoWord
BadBool(tok) == tok.name \in BoolFlags /\ tok.inline \notin {NoInline, "true", "false"}
NeedsNext(tok) == tok.name \notin BoolFlags /\ tok.inline = NoInline

SetFlag ==
    /\ Parsing
    /\ ~Stops(t) /\ ~BadSyntax(t) /\ t.name \in Defined /\ ~BadBool(t)
    /\ IF NeedsNext(t)
       THEN /\ p < Len(out)
            /\ settings' = [settings EXCEPT ![t.name] = out[p + 1]]
            /\ p' = p + 2
       ELSE /\ settings' = [settings EXCEPT ![t.name] =
                              IF t.inline = NoInline THEN Word("true") ELSE Word(t.inline)]
            /\ p' = p + 1
    /\ UNCHANGED <<line, pc, i, out>>

ParseError ==
    /\ Parsing
    /\ ~Stops(t)
    /\ \/ BadSyntax(t) \/ t.name \notin Defined \/ BadBool(t)
       \/ NeedsNext(t) /\ p = Len(out)
    /\ pc' = "exit2"
    /\ UNCHANGED <<line, i, out, p, settings>>

ParseEnds ==
    /\ pc = "parse"
    /\ p <= Len(out) => Stops(t)
    /\ pc' = "apply"
    /\ UNCHANGED <<line, i, out, p, settings>>

----------------------------------------------------------------------------
(* The logging flags are applied and a transport is served.                *)

LoggingOK(s) == /\ s["log-level"] \in {Word("info"), Word("debug")}
                /\ s["log-format"] \in {Word("text"), Word("json")}

\* --http comes before --unix, and an empty socket path counts as none.
Transport(s) == IF s["http"] = Word("true") THEN "http"
                ELSE IF s["unix"] # Word(NoWord) THEN "unix" ELSE "stdio"

\* What may become of the process: a listener may fail, its standard input not.
Outcomes(s) == IF ~LoggingOK(s) THEN {"fatal"}
               ELSE IF Transport(s) = "stdio" THEN {"stdio"} ELSE {Transport(s), "fatal"}

Serve ==
    /\ pc = "apply"
    /\ pc' \in Outcomes(settings)
    /\ UNCHANGED <<line, i, out, p, settings>>

Started == pc \in Ends /\ UNCHANGED vars

Next == Drop \/ Keep \/ Filtered \/ SetFlag \/ ParseError \/ ParseEnds \/ Serve \/ Started

Spec == Init /\ [][Next]_vars

----------------------------------------------------------------------------
(* Properties.                                                             *)

\* The unit sets one of the worker's flags: its value is the argument after
\* the flag, or comes with it, or is left out of a boolean.
Sets(u) ==
    LET flag == u.tokens[1]
    IN  /\ u.name \in Defined /\ flag.name = u.name /\ flag.dashes \in {1, 2}
        /\ \/ /\ Len(u.tokens) = 2 /\ NeedsNext(flag)
              /\ u.value = u.tokens[2]
           \/ /\ Len(u.tokens) = 1 /\ ~NeedsNext(flag) /\ ~BadBool(flag)
              /\ u.value = Word(IF flag.inline = NoInline THEN "true" ELSE flag.inline)

\* It is none of the worker's business: neither is any argument in it.
Foreign(u) ==
    /\ u.name = NoWord
    /\ \A k \in DOMAIN u.tokens :
          u.tokens[k].dashes = 0 \/ u.tokens[k].name \notin Defined

WellFormed == \A k \in DOMAIN line : Sets(line[k]) \/ Foreign(line[k])

\* What the caller means: the last value of each flag, unknown ones ignored.
Intended ==
    [f \in Defined |->
        LET on == {k \in DOMAIN line : line[k].name = f}
        IN  IF on = {} THEN Defaults[f]
            ELSE line[CHOOSE k \in on : \A j \in on : j <= k].value]

\* The launcher may put flags of its own between the worker's, in any of the
\* forms a flag has, and stray words too: start-up never aborts on them
\* ("Unknown launcher flags are tolerated", main.go:19-22).
LauncherFlagsTolerated == WellFormed => pc # "exit2"

\* ... and they change nothing: each flag of the worker gets the last value
\* meant for it, even one that looks like a flag, and the transport served is
\* the one meant, or the process dies of its logging flags or its listener.
StartsAsIntended ==
    WellFormed /\ pc \in Ends =>
        /\ settings = Intended
        /\ pc \in Outcomes(Intended)

\* Filter and parser agree on where each flag and each value is, on ill-formed
\* command lines too: unless it reports an error, the parser gets to the end of
\* what the filter kept, stopped by no word or terminator.
ParserReadsAll == pc \in {"apply", "http", "unix", "stdio", "fatal"} => p = Len(out) + 1
=============================================================================
