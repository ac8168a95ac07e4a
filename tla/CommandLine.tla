----------------------------- MODULE CommandLine -----------------------------
(***************************************************************************)
(* lunchbox::fork() (fork.cpp): a command line is split into words, a      *)
(* child process is created and executes it.  Characters are letters,      *)
(* spaces, ticks and backslashes.  A caller has a list of words in mind    *)
(* and writes each of them in one of two ways, by escaping the special     *)
(* characters or within ticks; what fork() makes of the line is compared   *)
(* with the words.                                                         *)
(***************************************************************************)
EXTENDS Naturals, Sequences, SequencesExt

CONSTANTS
    MaxWords,  \* bound: the number of words of a command
    MaxLength  \* bound: the length of a word

Space == "space"
Tick == "tick"
Backslash == "backslash"
Characters == {"letter", Space, Tick, Backslash}

MaxTries == 10

VARIABLES
    words,    \* what the caller means
    command,  \* what the caller writes
    parent,   \* fork() in the caller: calling, or its result
    child,    \* the child process
    argv,     \* what the child executes
    tries     \* nTries

commandVars == <<words, command, parent, child, argv, tries>>
-----------------------------------------------------------------------------
Words == UNION {[1..n -> Characters] : n \in 0..MaxLength}

Escaped(word, special) ==
    FlattenSeq([i \in DOMAIN word |->
        IF word[i] \in special THEN <<Backslash, word[i]>> ELSE <<word[i]>>])

Written(word, ticks) ==
    IF ticks THEN <<Tick>> \o Escaped(word, {Tick, Backslash}) \o <<Tick>>
             ELSE Escaped(word, {Space, Tick, Backslash})

Line(list, ticks) ==
    FlattenSeq([i \in DOMAIN list |->
        (IF i = 1 THEN <<>> ELSE <<Space>>) \o Written(list[i], ticks)])

CommandInit ==
    \E ticks \in BOOLEAN :
        /\ words \in UNION {[1..n -> Words] : n \in 1..MaxWords}
        /\ command = Line(words, ticks)
        /\ parent = "calling" /\ child = "none" /\ argv = <<>> /\ tries = MaxTries
-----------------------------------------------------------------------------
\* The state of the loop of _buildCommandLine(), and one round of it.
Tokenizer == [line |-> <<>>, buffer |-> <<>>, inTicks |-> FALSE, escape |-> FALSE]

MutantToken(s, c) ==
    IF s.escape THEN [s EXCEPT !.buffer = Append(@, c), !.escape = FALSE]
    ELSE IF c = Space THEN [s EXCEPT !.line = Append(@, s.buffer), !.buffer = <<>>]
    ELSE IF c = Tick THEN [s EXCEPT !.inTicks = ~@]
    ELSE IF c = Backslash THEN [s EXCEPT !.escape = TRUE]
    ELSE [s EXCEPT !.buffer = Append(@, c)]

Token(s, c) ==
    IF s.escape THEN [s EXCEPT !.buffer = Append(@, c), !.escape = FALSE]
    ELSE IF c = Space /\ ~s.inTicks
         THEN [s EXCEPT !.line = Append(@, s.buffer), !.buffer = <<>>]
    ELSE IF c = Tick THEN [s EXCEPT !.inTicks = ~@]
    ELSE IF c = Backslash THEN [s EXCEPT !.escape = TRUE]
    ELSE [s EXCEPT !.buffer = Append(@, c)]

\* The last word is pushed unless the buffer is empty; a backslash at the end
\* puts the terminating zero into it.
BuildCommandLine(string) ==
    LET s == FoldLeft(Token, Tokenizer, string)
    IN  IF s.buffer # <<>> \/ s.escape THEN Append(s.line, s.buffer) ELSE s.line

\* fork(): an empty command is refused, ::fork() may fail.
Fork ==
    /\ parent = "calling"
    /\ \/ parent' = "false" /\ UNCHANGED <<child, argv>>
       \/ /\ command # <<>>
          /\ parent' = "true" /\ child' = "exec" /\ argv' = BuildCommandLine(command)
    /\ UNCHANGED <<words, command, tries>>

Exec(next) ==
    /\ child = "exec" /\ tries > 0
    /\ child' = next
    /\ UNCHANGED <<words, command, parent, argv>>

\* execvp(): replaces the process, or fails; it is tried again while the file
\* is busy.
ExecSucceeds == argv # <<>> /\ Exec("running") /\ UNCHANGED tries
ExecBusy == argv # <<>> /\ Exec(IF tries > 1 THEN "exec" ELSE "exited") /\ tries' = tries - 1
ExecFails == Exec("exited") /\ tries' = tries - 1

CommandNext == Fork \/ ExecSucceeds \/ ExecBusy \/ ExecFails

CommandSpec == CommandInit /\ [][CommandNext]_commandVars
-----------------------------------------------------------------------------
(* The child runs the command the caller means, whichever way its words    *)
(* were written, or nothing: whatever characters the words contain, empty  *)
(* words and words of special characters included, execvp() gets just      *)
(* these words.  Only an empty last word is lost (fork.cpp:84).  The       *)
(* caller is told of a child exactly when there is one.                    *)
CommandIsExecuted ==
    /\ child # "none" <=> parent = "true"
    /\ child # "none" => argv = IF Last(words) = <<>> THEN Front(words) ELSE words
=============================================================================
