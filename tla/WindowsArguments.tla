-------------------------- MODULE WindowsArguments --------------------------
(***************************************************************************)
(* What the Windows executor hands to CreateProcessW: the command line     *)
(* quoted from an argument list, and the environment block built from the  *)
(* machine's variables and the request's secrets (windows.rs, lib.rs).     *)
(***************************************************************************)
EXTENDS Naturals, Sequences, SequencesExt, FiniteSets

Backslash == "\\"
Quote == "\""
Space == " "

Backslashes(n) == [i \in 1 .. n |-> Backslash]

(* One character of the argument, with the backslashes before it held back  *)
(* until it is known whether a quote follows them.                          *)
QuoteCharacter(acc, c) ==
    CASE c = Backslash -> [acc EXCEPT !.held = @ + 1]
      [] c = Quote -> [out |-> acc.out \o Backslashes(2 * acc.held + 1) \o <<Quote>>, held |-> 0]
      [] OTHER -> [out |-> acc.out \o Backslashes(acc.held) \o <<c>>, held |-> 0]

quote_windows_argument(argument) ==
    IF argument # <<>> /\ ~Contains(argument, Space) /\ ~Contains(argument, Quote)
    THEN argument
    ELSE LET read == FoldLeft(QuoteCharacter, [out |-> <<Quote>>, held |-> 0], argument)
         IN read.out \o Backslashes(2 * read.held) \o <<Quote>>

windows_command_line(arguments) ==
    FoldLeft(LAMBDA line, argument :
                 IF line = <<"start">> THEN quote_windows_argument(argument)
                 ELSE line \o <<Space>> \o quote_windows_argument(argument),
             <<"start">>, arguments)

(* How a Windows program splits its command line: 2n backslashes and a      *)
(* quote are n backslashes and a delimiter, 2n + 1 are n and a quote, and   *)
(* all others stand for themselves.                                         *)
SplitCharacter(acc, c) ==
    LET flushed == acc.word \o Backslashes(acc.held) IN
    CASE c = Backslash -> [acc EXCEPT !.held = @ + 1, !.begun = TRUE]
      [] c = Quote ->
           [acc EXCEPT !.held = 0, !.begun = TRUE,
                !.word = acc.word \o Backslashes(acc.held \div 2)
                             \o (IF acc.held % 2 = 1 THEN <<Quote>> ELSE <<>>),
                !.quoted = IF acc.held % 2 = 1 THEN @ ELSE ~@]
      [] c = Space /\ ~acc.quoted ->
           [words |-> IF acc.begun THEN Append(acc.words, flushed) ELSE acc.words,
            word |-> <<>>, begun |-> FALSE, quoted |-> FALSE, held |-> 0]
      [] OTHER -> [acc EXCEPT !.word = Append(flushed, c), !.held = 0, !.begun = TRUE]

CommandLineToArgv(line) ==
    LET start == [words |-> <<>>, word |-> <<>>, begun |-> FALSE, quoted |-> FALSE, held |-> 0]
    IN FoldLeft(SplitCharacter, start, Append(line, Space)).words

-----------------------------------------------------------------------------
(* Names differ in case only where Upper says so. *)
Names == {"token", "TOKEN", "url", "Path", "1st"}

Upper == [token |-> "TOKEN", TOKEN |-> "TOKEN", url |-> "URL", Path |-> "PATH"]

Public == {"PATH", "TEMP"}

(* Every name starts like an identifier, is no public variable and differs  *)
(* from the others in more than case.                                       *)
validate_windows_secret_environment_names(names) ==
    /\ \A i \in DOMAIN names : names[i] # "1st" /\ Upper[names[i]] \notin Public
    /\ \A i, j \in DOMAIN names : i # j => Upper[names[i]] # Upper[names[j]]

(* The block's entries, sorted by name: public ones and secrets. *)
build_environment(secrets) ==
    {[name |-> p, value |-> "public"] : p \in Public}
        \cup {[name |-> Upper[secrets[i].name], value |-> secrets[i].value] : i \in DOMAIN secrets}
=============================================================================
