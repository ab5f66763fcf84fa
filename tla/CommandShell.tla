---------------------------- MODULE CommandShell ----------------------------
(***************************************************************************)
(* How a command gets its answer: execute_command and wait_for_prompt of   *)
(* the SSH client (ssh/client.rs) and of the serial client (ssh/serial.rs) *)
(* against the command line of a switch.                                   *)
(*                                                                         *)
(* Nothing on the line says where an answer ends.  The clients read until  *)
(* something looks like the prompt and nothing follows it for a while.  A  *)
(* read ends anywhere, within a line too, and what has come by then is     *)
(* searched.  So a line is written in pieces, cut at every place where     *)
(* ending there makes a difference to what the clients look for:           *)
(*                                                                         *)
(*   prompt       the prompt                                               *)
(*   promptlike   what looks like one: a line, or the beginning of one     *)
(*                that is cut behind its ">" or "#"                        *)
(*   rest         how such a line, or a question, goes on                  *)
(*   pager, tail  "-- MORE --", and ", next page: Space, ..." behind it,   *)
(*                where the switch waits for a key                         *)
(*   pagerlike    a line with "-- MORE --" in it that is no pager          *)
(*   more         "--More--", a pager that no client looks for             *)
(*   key          "Press any key to continue"                              *)
(*   ask          "Username:", "Password:", as a question or in a text     *)
(*   line         anything else                                            *)
(***************************************************************************)
EXTENDS Naturals, Sequences, FiniteSets, SequencesExt

CONSTANTS
  Transports,   \* "ssh", "serial"
  Scripts,      \* sequences of [kind, tolerated]: what a vendor runs, and does it ignore a failure?
  AnswersTo,    \* kind of command -> the answers a switch may give, sequences of Kind
  MayTimeOut,   \* may an answer take longer than the timeout?
  MaxLogs       \* lines that the switch writes without being asked

Kind == {"line", "rest", "promptlike", "pager", "tail", "pagerlike", "more", "key", "ask", "prompt"}

Pagers == {"pager", "pagerlike"}

\* A pager is a marker and its tail.
TailsFollow(answer) ==
  \A i \in DOMAIN answer :
    /\ answer[i] = "pager" => i < Len(answer) /\ answer[i + 1] = "tail"
    /\ answer[i] = "tail" => i > 1 /\ answer[i - 1] = "pager"

\* An answer ends in a prompt or in a question.
ASSUME AnswerAssumption ==
  \A k \in DOMAIN AnswersTo : \A a \in AnswersTo[k] :
    /\ a \in Seq(Kind) /\ a # <<>> /\ Last(a) \in {"prompt", "ask"}
    /\ TailsFollow(a)

ASSUME ScriptAssumption ==
  Scripts \subseteq Seq([kind : DOMAIN AnswersTo, tolerated : BOOLEAN])

ASSUME LimitAssumption == MaxLogs \in Nat

VARIABLES
  transport,    \* which client
  dryRun,       \* its dry_run
  script,       \* the commands to run
  next,         \* the one whose turn it is
  pc,           \* "idle", "waiting", "failed", "done"
  output,       \* what wait_for_prompt has accumulated, pieces [of, kind]
  detected,     \* is prompt_detected_at set?
  results,      \* what every command so far returned
  input,        \* typed and not yet taken by the switch: commands and keys
  answering,    \* the rest of the answer that the switch is giving
  holding,      \* does it wait for a key?
  wire,         \* written by the switch and not read
  silent,       \* has it been quiet for longer than the confirmation delay?
  given,        \* the answers it has chosen (history)
  logs          \* how many unsolicited lines may still come

client == <<transport, dryRun, script, next, pc, output, detected, results>>
switch == <<input, answering, holding, wire, silent, given, logs>>
vars == <<client, switch>>

Key == 0      \* SPACE or ENTER, where a command is its number

\* Those of the pieces that are in the set, in their order.
Keep(s, lines) ==
  LET upto[n \in 0..Len(s)] ==
        IF n = 0 THEN <<>>
        ELSE IF s[n] \in lines THEN Append(upto[n - 1], s[n]) ELSE upto[n - 1]
  IN  upto[Len(s)]

\* The pieces of an answer to a command, and a line of the system log.
PiecesOf(command, answer) == [i \in DOMAIN answer |-> [of |-> command, kind |-> answer[i]]]

LogLine == [of |-> 0, kind |-> "line"]

(***************************************************************************)
(* What the clients look for.  A log line may follow the prompt, so the    *)
(* last three lines count; a question and a key prompt count only at the   *)
(* very end, a pager anywhere.                                             *)
(***************************************************************************)
LinesBehind(text, i) == Cardinality({j \in (i + 1)..Len(text) : text[j].kind # "rest"})

LooksFinished(text) ==
  \E i \in DOMAIN text :
    /\ text[i].kind \in {"prompt", "promptlike"}
    /\ i < Len(text) => text[i + 1].kind # "rest"
    /\ LinesBehind(text, i) < 3

Asks(text) == text # <<>> /\ Last(text).kind = "ask"

PressAnyKey(text) == text # <<>> /\ Last(text).kind = "key"

HasPager(text) == \E i \in DOMAIN text : text[i].kind \in Pagers

\* What there is of the line behind the marker is part of the match.
WithTail(text) ==
  [i \in DOMAIN text |->
     IF text[i].kind = "tail" /\ i > 1 /\ text[i - 1].kind = "pager"
     THEN [text[i] EXCEPT !.kind = "pager"] ELSE text[i]]

\* Mutant of strip_pager_prompt: the answered pager stays in the output.
strip_nothing(text) == text

strip_pager_prompt(text) == Keep(WithTail(text), [of : Nat, kind : Kind \ Pagers])

(***************************************************************************)
(* Dry run: only what cannot change the switch is sent.  The serial client *)
(* also lets "get" through, and everything while it authenticates.         *)
(***************************************************************************)
is_session_setting(kind) == kind \in {"page", "end"}

Shows == {"show", "showLong", "showUsers"}

is_readonly(kind) == kind \in Shows \/ (kind = "get" /\ transport = "serial")

auth_mode(kind) == kind \in {"enable", "secret"} /\ transport = "serial"

Skipped(kind) ==
  dryRun /\ ~ is_readonly(kind) /\ ~ is_session_setting(kind) /\ ~ auth_mode(kind)

(***************************************************************************)
(* The switch.  It is quiet when nothing more comes before somebody types  *)
(* something.                                                              *)
(***************************************************************************)
Quiet == silent \/ (input = <<>> /\ (answering = <<>> \/ holding))

Init ==
  /\ transport \in Transports /\ dryRun \in BOOLEAN /\ script \in Scripts
  /\ next = 1 /\ pc = "idle" /\ output = <<>> /\ detected = FALSE /\ results = <<>>
  /\ input = <<>> /\ answering = <<>> /\ holding = FALSE /\ wire = <<>> /\ silent = FALSE
  /\ given = <<>> /\ logs = MaxLogs

TakesCommand ==
  /\ ~ holding /\ answering = <<>> /\ input # <<>> /\ Head(input) # Key
  /\ \E a \in AnswersTo[script[Head(input)].kind] :
       /\ answering' = PiecesOf(Head(input), a)
       /\ given' = [given EXCEPT ![Head(input)] = a]
  /\ input' = Tail(input) /\ silent' = FALSE
  /\ UNCHANGED <<client, holding, wire, logs>>

\* At a pager anything that is typed is the key; at the prompt a key does nothing.
TakesKey ==
  /\ input # <<>>
  /\ holding \/ (answering = <<>> /\ Head(input) = Key)
  /\ input' = Tail(input) /\ holding' = FALSE /\ silent' = FALSE
  /\ UNCHANGED <<client, answering, wire, given, logs>>

Writes ==
  /\ answering # <<>> /\ ~ holding
  /\ wire' = Append(wire, Head(answering))
  /\ answering' = Tail(answering)
  /\ holding' = (Head(answering).kind \in {"tail", "more", "key"})
  /\ silent' = FALSE
  /\ UNCHANGED <<client, input, given, logs>>

\* A line of the system log behind the prompt.  (Behind a question, or three
\* in a row, they hide what the client waits for until it times out.)
Logs ==
  /\ logs > 0 /\ answering = <<>> /\ pc = "waiting"
  /\ given[next] # <<>> /\ Last(given[next]) = "prompt"
  /\ wire' = Append(wire, LogLine)
  /\ logs' = logs - 1
  /\ UNCHANGED <<client, input, answering, holding, silent, given>>

\* The switch pauses for longer than the confirmation delay; the delay is
\* chosen so that it does not do so right after a line that looks like a prompt.
Pauses ==
  /\ ~ silent /\ answering # <<>> /\ wire = <<>> /\ ~ LooksFinished(output)
  /\ silent' = TRUE
  /\ UNCHANGED <<client, input, answering, holding, wire, given, logs>>

(***************************************************************************)
(* execute_command: the serial client first drains what has come in; both  *)
(* send the command and start waiting.                                     *)
(***************************************************************************)
clear_buffer == IF transport = "serial" THEN <<>> ELSE wire

execute_command ==
  /\ pc = "idle" /\ next <= Len(script)
  /\ ~ Skipped(script[next].kind)
  /\ wire' = clear_buffer
  /\ input' = Append(input, next) /\ given' = Append(given, <<>>)
  /\ output' = <<>> /\ detected' = FALSE /\ pc' = "waiting"
  /\ UNCHANGED <<transport, dryRun, script, next, results, answering, holding, silent, logs>>

Skip ==
  /\ pc = "idle" /\ next <= Len(script)
  /\ Skipped(script[next].kind)
  /\ results' = Append(results, [status |-> "skipped", lines |-> <<>>])
  /\ given' = Append(given, <<>>) /\ next' = next + 1
  /\ UNCHANGED <<transport, dryRun, script, pc, output, detected, input, answering, holding, wire,
                 silent, logs>>

\* The SSH client takes the prompt away again, if it is the last line.
clean_command_output(text) ==
  IF transport = "ssh" /\ text # <<>> /\ Last(text).kind \in {"prompt", "promptlike"}
  THEN Front(text) ELSE text

\* execute_commands stops at the first failure, unless the vendor ignores it.
Returns(status, text) ==
  /\ results' = Append(results, [status |-> status, lines |-> clean_command_output(text)])
  /\ pc' = IF status = "failed" /\ ~ script[next].tolerated THEN "failed" ELSE "idle"
  /\ next' = next + 1
  /\ output' = <<>> /\ detected' = FALSE
  /\ UNCHANGED <<transport, dryRun, script>>

\* Types a key and goes on reading with what is left of the output.
AnswersKey(rest) ==
  /\ input' = Append(input, Key) /\ silent' = FALSE
  /\ output' = rest /\ detected' = FALSE
  /\ UNCHANGED <<transport, dryRun, script, next, pc, results, answering, holding, given, logs>>

(***************************************************************************)
(* wait_for_prompt: the arm that reads, one piece or several at a time.    *)
(* New data takes back a prompt that seemed to be there.                   *)
(***************************************************************************)
Receive ==
  \E n \in 1..Len(wire) :
    LET text == output \o SubSeq(wire, 1, n) IN
    /\ pc = "waiting"
    /\ wire' = SubSeq(wire, n + 1, Len(wire))
    /\ CASE PressAnyKey(text) -> AnswersKey(<<>>)
         [] HasPager(text) /\ ~ PressAnyKey(text) -> AnswersKey(strip_pager_prompt(text))
         [] Asks(text) /\ ~ HasPager(text) ->
              /\ Returns("ok", text)
              /\ UNCHANGED <<input, answering, holding, silent, given, logs>>
         [] OTHER ->
              /\ output' = text /\ detected' = LooksFinished(text)
              /\ UNCHANGED <<transport, dryRun, script, next, pc, results, input, answering,
                             holding, silent, given, logs>>

\* A detected prompt is confirmed when nothing follows it.
\* Mutant of Confirm: the answer is returned as soon as something looks like its end.
ConfirmAtOnce ==
  /\ pc = "waiting" /\ detected
  /\ Returns("ok", output)
  /\ UNCHANGED switch

Confirm ==
  /\ pc = "waiting" /\ detected
  /\ wire = <<>> /\ Quiet
  /\ Returns("ok", output)
  /\ UNCHANGED switch

\* The arm that runs when the line is idle; here only the serial client looks for a pager.
IdleSettle ==
  /\ pc = "waiting" /\ ~ detected /\ output # <<>>
  /\ wire = <<>> /\ Quiet
  /\ IF HasPager(output) /\ transport = "serial"
     THEN AnswersKey(strip_pager_prompt(output)) /\ UNCHANGED wire
     ELSE /\ LooksFinished(output) \/ Asks(output)
          /\ Returns("ok", output)
          /\ UNCHANGED switch

\* The timeout, or the line breaks.
TimeOut ==
  /\ MayTimeOut /\ pc = "waiting"
  /\ Returns("failed", <<>>)
  /\ UNCHANGED switch

Finish ==
  /\ pc = "idle" /\ next > Len(script)
  /\ pc' = "done"
  /\ UNCHANGED <<transport, dryRun, script, next, output, detected, results, switch>>

ssh_wait_for_prompt == transport = "ssh" /\ (Receive \/ Confirm \/ IdleSettle)
serial_wait_for_prompt == transport = "serial" /\ (Receive \/ Confirm \/ IdleSettle)

Client == execute_command \/ Skip \/ ssh_wait_for_prompt \/ serial_wait_for_prompt \/ Finish
Switch == TakesCommand \/ TakesKey \/ Writes
Stopped == pc \in {"failed", "done"} /\ UNCHANGED vars

Next == Client \/ Switch \/ Logs \/ Pauses \/ TimeOut \/ Stopped

\* The reader polls every 100 ms and the switch finishes what it is writing;
\* that an answer is ever too late is not assumed.
Fairness == WF_vars(Client) /\ WF_vars(Switch)

Spec == Init /\ [][Next]_vars /\ Fairness

(***************************************************************************)
(* Properties.                                                             *)
(***************************************************************************)
\* What is part of an answer; pagers, key prompts and the prompt itself are not.
Content(text) ==
  Keep(text, [of : Nat \ {0}, kind : Kind \ (Pagers \cup {"tail", "key", "prompt"})])

\* An answer that the clients can tell the end of: no pager that they do not
\* look for, "password:" nowhere but at its end, "Press any key" before any text.
Plain(answer) ==
  /\ \A i \in DOMAIN answer : answer[i] # "more"
  /\ \A i \in DOMAIN answer : answer[i] = "ask" => i = Len(answer)
  /\ \A i, j \in DOMAIN answer :
       i < j /\ answer[j] = "key" => answer[i] \in Pagers \cup {"tail", "key"}

IsPlain(command) == \A a \in AnswersTo[script[command].kind] : Plain(a)

\* A command that succeeds returns the answer to that very command, all of it,
\* wherever the switch cuts it into reads, pages it, pauses in it or writes log
\* lines behind it: the parsers read what they get as the state of the switch.
\* It is owed when this answer and those before it are plain and no command
\* before it failed: a vendor that ignores a timeout may find the late answer in
\* the next one, and a read that ends behind "password:" in the middle of a text
\* returns at once (serial.rs:883).
AnswerIsWhole ==
  \A i \in DOMAIN results :
    /\ results[i].status = "ok"
    /\ \A j \in 1..i : IsPlain(j)
    /\ \A j \in 1..(i - 1) : results[j].status # "failed"
    => /\ \A l \in Range(results[i].lines) : l.of \in {0, i}
       /\ Content(results[i].lines) = Content(PiecesOf(i, given[i]))

KnownPagersOnly(command) ==
  \A a \in AnswersTo[script[command].kind] : "more" \notin Range(a)

\* A command that is sent comes back without the help of the timeout, cut where
\* it may be: every pager that says "-- MORE --" is answered, and no stale one
\* hides the prompt behind it.  It is not owed once the switch may page with
\* "--More--", which no client answers (client.rs:449 tells of that hang).
CommandEnds ==
  pc = "waiting" /\ (\A j \in 1..next : KnownPagersOnly(j)) ~> pc # "waiting"

(***************************************************************************)
(* What makes AnswerIsWhole inductive.  It is about what the answer is     *)
(* spread over: what the client has accumulated, what it has not read, and *)
(* what the switch has not written.                                        *)
(***************************************************************************)
Piece == [of : Nat, kind : Kind]

\* The pieces that no key takes away.
Shown == [of : Nat \ {0}, kind : Kind \ (Pagers \cup {"tail", "key"})]

OnTheWay == wire \o answering

NobodyFailed == \A i \in DOMAIN results : results[i].status # "failed"

PlainSoFar == \A i \in DOMAIN script : i <= next => IsPlain(i)

TypeOK ==
  /\ transport \in Transports /\ dryRun \in BOOLEAN /\ script \in Scripts
  /\ next \in 1..(Len(script) + 1) /\ pc \in {"idle", "waiting", "failed", "done"}
  /\ pc = "waiting" => next <= Len(script)
  /\ output \in Seq(Piece) /\ detected \in BOOLEAN /\ (detected => LooksFinished(output))
  /\ results \in Seq([status : {"ok", "skipped", "failed"}, lines : Seq(Piece)])
  /\ Len(results) = next - 1
  /\ input \in Seq(0..Len(script)) /\ answering \in Seq(Piece) /\ wire \in Seq(Piece)
  /\ holding \in BOOLEAN /\ silent \in BOOLEAN
  /\ given \in Seq(Seq(Kind)) /\ Len(given) = IF pc = "waiting" THEN next ELSE next - 1
  /\ logs \in Nat

\* A command that the switch has not seen yet is the one that is waited for, or
\* it came after one that failed or whose answer is not plain.
LateCommands ==
  \A i \in DOMAIN input :
    \/ input[i] = Key
    \/ pc = "waiting" /\ input[i] = next
    \/ \E j \in DOMAIN results : j <= input[i] /\ results[j].status = "failed"
    \/ \E j \in 1..input[i] : ~ IsPlain(j)

\* Between two commands the switch has nothing to write.
Settled ==
  /\ answering = <<>> /\ ~ holding
  /\ \A i \in DOMAIN input : input[i] = Key
  /\ \A i \in DOMAIN wire : wire[i] = LogLine

\* The switch has not seen the command, which was typed last.
NotTaken ==
  /\ input # <<>> /\ Last(input) = next
  /\ \A i \in DOMAIN input : i < Len(input) => input[i] = Key
  /\ given[next] = <<>> /\ answering = <<>> /\ ~ holding
  /\ \A i \in DOMAIN output : output[i] = LogLine
  /\ \A i \in DOMAIN wire : wire[i] = LogLine

\* It is answering, or has answered.
AnswerIsKept == Keep(output \o OnTheWay, Shown) = Keep(PiecesOf(next, given[next]), Shown)

OfThisCommand ==
  /\ \A i \in DOMAIN output : output[i].of = next \/ output[i] = LogLine
  /\ \A i \in DOMAIN wire : wire[i].of = next \/ wire[i] = LogLine
  /\ \A i \in DOMAIN answering : answering[i].of = next

\* Before it waits for "any key", nothing is kept.
KeysFirst(lines) ==
  \A i, j \in DOMAIN lines : i < j /\ lines[j].kind = "key" => lines[i] \notin Shown

KeyComesFirst ==
  /\ KeysFirst(OnTheWay)
  /\ (\E i \in DOMAIN OnTheWay : OnTheWay[i].kind = "key") => Keep(output, Shown) = <<>>

\* After a question only log lines follow.
AsksLast(lines) ==
  \A i, j \in DOMAIN lines : i < j /\ lines[i].kind = "ask" => lines[j] = LogLine

QuestionComesLast ==
  /\ AsksLast(OnTheWay)
  /\ (\E i \in DOMAIN output : output[i].kind = "ask") =>
       \A j \in DOMAIN OnTheWay : OnTheWay[j] = LogLine

\* Something that the client will answer when it reads it.
MarkerUnread == \E i \in DOMAIN wire : wire[i].kind = "pager"

KeyUnread == wire # <<>> /\ Last(wire).kind = "key"

\* The switch is about to show the tail of a pager, and to hold.
AtTail == answering # <<>> /\ Head(answering).kind = "tail"

\* What the switch waits at has not been read, or is answered: the client looks for
\* the marker, and may have answered it before the tail comes.
HeldPieceIsSeen ==
  /\ holding => answering # <<>> /\ ~ AtTail /\ (input # <<>> \/ MarkerUnread \/ KeyUnread)
  /\ AtTail => input # <<>> \/ MarkerUnread

\* In what is still to be written, the tail of a pager follows its marker.
TailsToCome ==
  \A i \in DOMAIN answering :
    /\ answering[i].kind # "more"
    /\ answering[i].kind = "pager" => i < Len(answering) /\ answering[i + 1].kind = "tail"
    /\ answering[i].kind = "tail" => i = 1 \/ answering[i - 1].kind = "pager"

Taken ==
  /\ \A i \in DOMAIN input : input[i] = Key
  /\ given[next] # <<>> /\ Last(given[next]) \in {"prompt", "ask"}
  /\ answering # <<>> => Last(answering).kind \in {"prompt", "ask"}
  /\ AnswerIsKept /\ OfThisCommand /\ KeyComesFirst /\ QuestionComesLast
  /\ HeldPieceIsSeen /\ TailsToCome

OnCourse ==
  /\ silent => answering # <<>> /\ wire = <<>> /\ ~ LooksFinished(output)
  /\ pc # "waiting" => Settled
  /\ pc = "waiting" => NotTaken \/ Taken

ShellInv == NobodyFailed /\ PlainSoFar => OnCourse

IInv == TypeOK /\ LateCommands /\ ShellInv /\ AnswerIsWhole
=============================================================================
