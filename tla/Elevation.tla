------------------------------ MODULE Elevation -----------------------------
(***************************************************************************)
(* One privileged request of an ordinary user: App.runElevated starts the  *)
(* same command under sudo, waits for it and makes an answer of what is    *)
(* left, an exit status and a text.  The terminal UI tries quietly first   *)
(* (sudo -n) and once more on the terminal if a password is needed; the    *)
(* command line has a terminal from the start.  sudo, the user at its      *)
(* prompt and the elevated mihomoctl are the environment; what the latter  *)
(* does is an operation of Mutation.                                       *)
(***************************************************************************)
EXTENDS Integers, Sequences

CONSTANT MaxTries  \* passwords sudo accepts before it gives up

ASSUME TriesAssumption == MaxTries \in Nat \ {0}

VARIABLES
  phase,   \* of the caller: "ask", "spawn", "wait", "judge", "answered"
  mode,    \* "quiet": sudo -n; "terminal"
  answer,  \* what the caller is told
  context, \* the caller's context is cancelled
  told,    \* sudo was interrupted because of that
  sudo,    \* its process
  tries,   \* wrong passwords
  child,   \* the elevated command
  lines,   \* what both wrote to stderr: by whom, with which telling words
  starts   \* ghost: how often the operation was begun

caller == <<phase, mode, answer>>
request == <<caller, context, told, sudo, tries, child, lines, starts>>

Words    == {"denied", "terminal", "password", "wrong", "other"}
Line     == [by : {"sudo", "child"}, word : Words]
Outcomes == {"ok", "warning", "failed", "died"}
Refused  == {"untrusted", "unavailable", "invalid"}
Answers  == Outcomes \cup Refused \cup
              {"none", "cancelled", "auth", "authFailed", "denied", "terminal", "unknown"}

RequestTypeOK ==
  /\ phase \in {"ask", "spawn", "wait", "judge", "answered"}
  /\ mode \in {"quiet", "terminal"} /\ answer \in Answers
  /\ context \in BOOLEAN /\ told \in BOOLEAN
  /\ sudo \in {"none", "asking", "prompting", "running", "exited", "killed"}
  /\ tries \in 0..MaxTries
  /\ child \in {"none", "running", "stopping"} \cup Outcomes
  /\ lines \in Seq(Line) /\ Len(lines) <= MaxTries + 1
  /\ starts \in Nat
  /\ (answer = "none") = (phase # "answered")

RequestInit ==
  /\ phase = "ask" /\ mode \in {"quiet", "terminal"} /\ answer = "none"
  /\ context = FALSE /\ told = FALSE
  /\ sudo = "none" /\ tries = 0 /\ child = "none" /\ lines = <<>>
  /\ starts = 0

-----------------------------------------------------------------------------
(* What is made of the end of sudo.  The whole text is searched, unless    *)
(* its last line is mihomoctl's own.                                       *)
Says(word) == \E i \in DOMAIN lines : lines[i].word = word

SudoFailure ==
  CASE Says("denied")   -> "denied"
    [] Says("terminal") -> "terminal"
    [] Says("password") -> IF mode = "quiet" THEN "auth" ELSE "authFailed"
    [] Says("wrong")    -> "authFailed"
    [] OTHER            -> "unknown"

ChildSpokeIgnored == FALSE                                        \* mutant
ChildSpoke == lines # <<>> /\ lines[Len(lines)].by = "child"

SudoSpoke == (lines # <<>> /\ lines[1].by = "sudo") \/ SudoFailure # "unknown"

(* exec.Cmd reports a process it interrupted as cancelled, even if that    *)
(* ended well.                                                             *)
Succeeded == child \in {"ok", "warning"} /\ sudo = "exited" /\ ~told

SuccessPlain == "ok"                                              \* mutant
Success == child

Answer ==
  IF Succeeded THEN Success
  ELSE IF context THEN "cancelled"
  ELSE IF ~ChildSpoke /\ SudoSpoke THEN SudoFailure ELSE "failed"

-----------------------------------------------------------------------------
(* runElevatedOutput.  The executable, sudo and the environment come first.*)
Preflight ==
  /\ phase = "ask"
  /\ \/ phase' = "spawn" /\ UNCHANGED answer
     \/ phase' = "answered" /\ answer' \in Refused
  /\ UNCHANGED <<mode, context, told, sudo, tries, child, lines, starts>>

(* A command whose context has ended is not started.                       *)
Spawn ==
  /\ phase = "spawn"
  /\ \/ ~context /\ phase' = "wait" /\ sudo' = "asking" /\ UNCHANGED answer
     \/ context /\ phase' = "judge" /\ UNCHANGED <<sudo, answer>>
     \/ /\ phase' = "answered" /\ UNCHANGED sudo
        /\ answer' = IF context THEN "cancelled" ELSE "unavailable"
  /\ UNCHANGED <<mode, context, told, tries, child, lines, starts>>

(* The context ends: an interrupt, which may not be allowed or arrive, and *)
(* after two seconds a kill, which leaves the child alone.                 *)
Interrupt ==
  /\ phase = "wait" /\ context /\ ~told /\ sudo \in {"asking", "prompting", "running"}
  /\ told' = TRUE
  /\ \/ UNCHANGED <<sudo, child>>
     \/ sudo = "running" /\ child = "running" /\ child' = "stopping"
        /\ UNCHANGED sudo
     \/ sudo # "running" /\ sudo' = "exited" /\ UNCHANGED child
  /\ UNCHANGED <<caller, context, tries, lines, starts>>

Killed == "killed"
KillSudo ==
  /\ phase = "wait" /\ told /\ sudo \in {"asking", "prompting", "running"}
  /\ sudo' = Killed /\ phase' = "judge"
  /\ UNCHANGED <<mode, answer, context, told, tries, child, lines, starts>>

Wait ==
  /\ phase = "wait" /\ sudo = "exited" /\ phase' = "judge"
  /\ UNCHANGED <<mode, answer, context, told, sudo, tries, child, lines, starts>>

JudgeEnd ==
  /\ phase = "judge" /\ phase' = "answered" /\ answer' = Answer
  /\ UNCHANGED <<mode, context, told, sudo, tries, child, lines, starts>>

-----------------------------------------------------------------------------
(* The terminal UI's reaction to a quiet attempt, unless it is quitting.   *)
Retry ==
  /\ phase = "answered" /\ answer = "auth" /\ mode = "quiet" /\ ~context
  /\ phase' = "ask" /\ mode' = "terminal" /\ answer' = "none"
  /\ sudo' = "none" /\ tries' = 0 /\ child' = "none" /\ lines' = <<>>
  /\ UNCHANGED <<context, told, starts>>

CancelRequest ==
  /\ ~context /\ context' = TRUE
  /\ UNCHANGED <<caller, told, sudo, tries, child, lines, starts>>

-----------------------------------------------------------------------------
(* sudo, with -n or with the user at its prompt.                           *)
Exits(word) ==
  /\ sudo' = "exited"
  /\ lines' = Append(lines, [by |-> "sudo", word |-> word])
  /\ UNCHANGED <<caller, context, told, child, starts>>

Refuses ==
  /\ sudo = "asking"
  /\ \E word \in {"denied", "terminal", "other"}
                   \cup (IF mode = "quiet" THEN {"password"} ELSE {}) : Exits(word)
  /\ UNCHANGED tries

Prompts ==
  /\ sudo = "asking" /\ mode = "terminal" /\ sudo' = "prompting"
  /\ UNCHANGED <<caller, context, told, tries, child, lines, starts>>

Mistypes ==
  /\ sudo = "prompting" /\ tries' = tries + 1
  /\ IF tries' = MaxTries THEN Exits("wrong")
     ELSE /\ lines' = Append(lines, [by |-> "sudo", word |-> "wrong"])
          /\ UNCHANGED <<caller, context, told, sudo, child, starts>>

LeavesPrompt == sudo = "prompting" /\ Exits("password") /\ UNCHANGED tries

Runs ==
  /\ sudo \in {"asking", "prompting"} /\ sudo' = "running"
  /\ child' = "running" /\ starts' = starts + 1
  /\ UNCHANGED <<caller, context, told, tries, lines>>

(* The elevated command ends, with one line of its own when it failed      *)
(* (cli.Execute), whatever words that has; sudo with it.                   *)
ChildEnds ==
  /\ child \in {"running", "stopping"} /\ child' \in Outcomes
  /\ sudo' = IF sudo = "running" THEN "exited" ELSE sudo
  /\ IF child' = "failed" /\ sudo = "running"
     THEN \E word \in Words :
            lines' = Append(lines, [by |-> "child", word |-> word])
     ELSE UNCHANGED lines
  /\ UNCHANGED <<caller, context, told, tries, starts>>

RequestNext == Preflight \/ Spawn \/ Interrupt \/ KillSudo \/ Wait \/ JudgeEnd \/ Retry \/ CancelRequest
          \/ Refuses \/ Prompts \/ Mistypes \/ LeavesPrompt \/ Runs \/ ChildEnds

RequestSpec == RequestInit /\ [][RequestNext]_request
-----------------------------------------------------------------------------
(* What was asked once is begun at most once: the attempt that is repeated *)
(* on the terminal never ran, whatever the elevated command wrote, "safe   *)
(* to retry" (privilege.go:79).                                            *)
PerformedOnce == starts <= 1

(* The answer is what happened: success and its warning are the command's, *)
(* a refusal means that nothing was begun, a failure that it was           *)
(* (privilege.go:282).                                                     *)
Honest ==
  phase = "answered" =>
    /\ answer \in {"ok", "warning"} => child = answer
    /\ answer \in {"auth", "denied", "terminal"} \cup Refused => starts = 0
    /\ answer = "failed" => starts = 1 /\ child \in {"failed", "died"}

(* After the answer nothing of the request is begun, though what was begun *)
(* may still be running (privilege.go:113).                                *)
NothingLater == [][phase = "answered" => starts' = starts]_request
=============================================================================
