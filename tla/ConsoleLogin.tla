---------------------------- MODULE ConsoleLogin ----------------------------
(***************************************************************************)
(* Connecting to a switch over its serial console: opening the device,     *)
(* finding out where the console was left, logging in, the password change *)
(* that a factory-reset FortiSwitch demands, the one retry with the blank  *)
(* factory password, and the set-up of each vendor (ssh/serial.rs and the  *)
(* serial arm of the vendors' connect).                                    *)
(*                                                                         *)
(* The console keeps its state between connections and the client sees of  *)
(* it only what it prints.  A text is the sequence of the words that the   *)
(* client looks for in it.                                                 *)
(***************************************************************************)
EXTENDS Naturals, Sequences, SequencesExt

CONSTANTS
  Vendors,      \* "Aruba", "Cisco", "Fortiswitch"
  Places,       \* where the console may have been left
  Sleeps,       \* how much input a console may swallow before it wakes up
  MaxRetries,   \* settings.max_retries
  MaxLate       \* bound: how many reads may come before the text they wait for

ASSUME ConsoleAssumption ==
  /\ Vendors \subseteq {"Aruba", "Cisco", "Fortiswitch"}
  /\ Places \subseteq {"login", "password", "new", "confirm", "user", "enable", "exec", "config",
                       "dialog", "pager", "expired"}
  /\ Sleeps \subseteq Nat

VARIABLES
  vendor,       \* of the switch
  compliant,    \* has the configured password 8 characters?
  console,      \* [place, password, forced, asleep]: the console of the switch
  printed,      \* printed and not yet read
  pc,           \* the client's next step
  password,     \* the password this login answers with
  attempt,      \* of opening, or of recovery
  tries,        \* what was given at the password prompt, [given, ok] (history)
  early,        \* how many reads came before their text had (history)
  factory       \* was the switch factory-reset? (history)

vars == <<vendor, compliant, console, printed, pc, password, attempt, tries, early, factory>>

(***************************************************************************)
(* The console, external: what a line that is typed does to it.  Ctrl-C is *)
(* "intr", an empty line is also the blank password.                       *)
(***************************************************************************)
Prompt(place) ==
  CASE place = "login" -> <<"login:">>
    [] place \in {"password", "enable"} -> <<"Password:">>
    [] place = "new" -> <<"New Password:">>
    [] place = "confirm" -> <<"Re-enter New Password:">>
    [] place = "user" -> <<">">>
    [] place = "exec" -> <<"#">>
    [] place = "config" -> <<"(config", "#">>
    [] place = "dialog" -> <<"dialog">>
    [] place = "pager" -> <<"more">>

At(c, place) == [console |-> [c EXCEPT !.place = place], says |-> Prompt(place), given |-> <<>>]

Saying(words, r) == [r EXCEPT !.says = words \o @]

Authenticate(c, given) ==
  LET ok == given = c.password
      r == CASE ~ ok -> At(c, "login")
             [] ok /\ c.forced -> Saying(<<"password policy">>, At(c, "new"))
             [] OTHER -> At(c, IF vendor = "Cisco" THEN "user" ELSE "exec")
  IN  [r EXCEPT !.given = <<[given |-> given, ok |-> ok]>>]

Type(c, line) ==
  CASE c.asleep > 0 -> [console |-> [c EXCEPT !.asleep = @ - 1], says |-> <<>>, given |-> <<>>]
    [] c.asleep = 0 /\ c.place = "expired" -> Saying(<<"Session Terminated">>, [At(c, "login") EXCEPT !.says = <<>>])
    [] c.asleep = 0 /\ c.place = "login" ->
         At(c, IF line \in {"intr", "enter", "space"} THEN "login" ELSE "password")
    [] c.asleep = 0 /\ c.place = "password" ->
         IF line = "intr" THEN At(c, "login")
         ELSE Authenticate(c, IF line = "enter" THEN "blank" ELSE line)
    [] c.asleep = 0 /\ c.place = "new" ->
         CASE line = "intr" -> At(c, "login")
           [] line = "configured" /\ compliant -> At(c, "confirm")
           [] OTHER -> Saying(<<"doesn't conform">>, At(c, "new"))
    [] c.asleep = 0 /\ c.place = "confirm" ->
         IF line = "configured"
         THEN At([c EXCEPT !.password = "configured", !.forced = FALSE], "exec")
         ELSE Saying(<<"doesn't match">>, At(c, "new"))
    [] c.asleep = 0 /\ c.place = "dialog" -> At(c, IF line = "no" THEN "login" ELSE "dialog")
    [] c.asleep = 0 /\ c.place = "user" -> At(c, IF line = "enable" THEN "enable" ELSE "user")
    [] c.asleep = 0 /\ c.place = "enable" ->
         At(c, IF line = "configured" \/ (line = "enter" /\ vendor = "Cisco") THEN "exec" ELSE "user")
    [] c.asleep = 0 /\ c.place = "config" -> At(c, IF line = "end" THEN "exec" ELSE "config")
    [] c.asleep = 0 /\ c.place = "pager" -> At(c, IF line = "enter" THEN "pager" ELSE "exec")
    [] c.asleep = 0 /\ c.place = "exec" -> At(c, "exec")

\* Several lines, one after the other: what the first n of them do.
TypeAll(c, lines) ==
  LET typed[n \in 0..Len(lines)] ==
        IF n = 0 THEN [console |-> c, says |-> <<>>, given |-> <<>>]
        ELSE LET r == typed[n - 1]
                 t == Type(r.console, lines[n])
             IN  [t EXCEPT !.says = r.says \o @, !.given = r.given \o @]
  IN  typed[Len(lines)]

(***************************************************************************)
(* Sending lines and reading what the console prints: send_raw, then       *)
(* check_current_state, which may come before all of the text has.         *)
(***************************************************************************)
ExchangeAfter(unread, lines, text) ==
  LET r == TypeAll(console, lines)
      all == unread \o r.says
  IN  /\ console' = r.console
      /\ tries' = tries \o r.given
      /\ text = SubSeq(all, 1, Len(text)) /\ printed' = SubSeq(all, Len(text) + 1, Len(all))
      /\ early' = IF text = all THEN early ELSE early + 1
      /\ early' <= MaxLate

Exchange(lines, text) == ExchangeAfter(printed, lines, text)

\* What such a read may find.
Texts(lines) ==
  LET all == printed \o TypeAll(console, lines).says
  IN  {SubSeq(all, 1, n) : n \in 0..Len(all)}

Has(text, words) == \E i \in DOMAIN text : text[i] \in words

AtLogin(text) == Has(text, {"login:"})
AtPrompt(text) == Has(text, {"#", ">"})
is_forced_password_change_prompt(text) == Has(text, {"New Password:", "Re-enter New Password:"})
is_password_confirm_prompt(text) == Has(text, {"Re-enter New Password:"})
is_password_change_rejected(text) == Has(text, {"doesn't match", "doesn't conform"})

Init ==
  /\ vendor \in Vendors /\ compliant \in BOOLEAN
  /\ console \in {c \in [place : Places, password : {"configured", "blank", "other"},
                         forced : BOOLEAN, asleep : Sleeps] :
                    /\ c.forced => vendor = "Fortiswitch"
                    /\ c.password = "blank" => c.forced
                    /\ c.forced => c.place \in {"login", "password", "new", "confirm", "expired"}
                    /\ c.place = "dialog" => vendor = "Cisco"
                    /\ c.place \in {"user", "enable"} => vendor # "Fortiswitch"
                    /\ c.place \in {"new", "confirm"} => vendor = "Fortiswitch"
                    /\ c.asleep > 0 => c.place \notin {"password", "new", "confirm", "enable"}}
  /\ printed = <<>> /\ pc = "open" /\ password = "configured" /\ attempt = 1
  /\ tries = <<>> /\ early = 0
  /\ factory = (console.password = "blank")

Goto(step) == pc' = step /\ UNCHANGED <<vendor, compliant, password, attempt, factory>>

Recovering(n) ==
  /\ pc' = "recover" /\ attempt' = n
  /\ UNCHANGED <<vendor, compliant, password, factory>>

(***************************************************************************)
(* login_with_factory_default_fallback, for FortiSwitch alone: what an     *)
(* error of login_inner leads to.                                          *)
(***************************************************************************)
\* Mutant of Fails: the blank password is tried whatever the error was.
FailsToBlank(why) ==
  IF vendor = "Fortiswitch" /\ password = "configured"
  THEN /\ pc' = "login_inner" /\ password' = "blank"
       /\ UNCHANGED <<vendor, compliant, attempt, factory>>
  ELSE Goto("failed")

Fails(why) ==
  IF vendor = "Fortiswitch" /\ password = "configured" /\ why = "not authenticated"
  THEN /\ pc' = "login_inner" /\ password' = "blank"
       /\ UNCHANGED <<vendor, compliant, attempt, factory>>
  ELSE Goto("failed")

(***************************************************************************)
(* connect and connect_with_retry: the device is missing, locked or not    *)
(* ours, or it opens and what it holds is thrown away.                     *)
(***************************************************************************)
connect ==
  /\ pc = "open"
  /\ printed' = <<>>
  /\ Goto("login_inner")
  /\ UNCHANGED <<console, tries, early>>

connect_fails ==
  /\ pc = "open"
  /\ IF attempt < MaxRetries
     THEN /\ attempt' = attempt + 1
          /\ UNCHANGED <<vendor, compliant, pc, password, factory>>
     ELSE Goto("failed")
  /\ UNCHANGED <<console, printed, tries, early>>

(***************************************************************************)
(* login_inner.  Where is the console?                                     *)
(***************************************************************************)
login_inner ==
  /\ pc = "login_inner"
  /\ \E text \in Texts(<<"intr", "enter">>) :
       /\ Exchange(<<"intr", "enter">>, text)
       /\ CASE Has(text, {"dialog"}) -> Goto("decline")
            [] ~ Has(text, {"dialog"}) /\ AtLogin(text) -> Goto("credentials")
            [] ~ AtLogin(text) /\ AtPrompt(text) /\ Has(text, {"(config"}) -> Goto("leave_config")
            [] ~ AtLogin(text) /\ AtPrompt(text) /\ ~ Has(text, {"(config"}) -> Goto("privilege")
            [] OTHER -> Recovering(1)

\* The initial configuration dialog of Cisco is declined.
Decline ==
  /\ pc = "decline"
  /\ \E text \in Texts(<<"no">>) :
       /\ Exchange(<<"no">>, text)
       /\ CASE AtLogin(text) -> Goto("credentials")
            [] ~ AtLogin(text) /\ AtPrompt(text) -> Goto("privilege")
            [] OTHER -> Recovering(1)

LeaveConfig ==
  /\ pc = "leave_config"
  /\ \E text \in Texts(<<"end">>) : Exchange(<<"end">>, text)
  /\ Goto("privilege")

\* The blank password is an empty line.
Typed(word) == IF word = "blank" THEN "enter" ELSE word

\* User name and password go out without waiting for their prompts.
Credentials ==
  /\ pc = "credentials"
  /\ \E text \in Texts(<<"user", Typed(password)>>) :
       /\ Exchange(<<"user", Typed(password)>>, text)
       /\ CASE is_forced_password_change_prompt(text) -> Goto("new_password")
            [] ~ is_forced_password_change_prompt(text) /\ Has(text, {"password policy"}) -> Goto("policy")
            [] OTHER -> Goto("privilege")

(***************************************************************************)
(* maybe_complete_forced_password_change: the answer is the configured     *)
(* password, whichever one this login used.                                *)
(***************************************************************************)
\* Mutant of new_password_if_forced: the password of this login.
new_password_current == Typed(password)

new_password_if_forced == "configured"

\* The banner may come before the prompt.
Policy ==
  /\ pc = "policy"
  /\ \E text \in Texts(<<>>) :
       /\ Exchange(<<>>, text)
       /\ Goto(IF is_forced_password_change_prompt(text) THEN "new_password" ELSE "privilege")

maybe_complete_forced_password_change ==
  /\ pc = "new_password"
  /\ IF ~ compliant
     THEN Fails("policy") /\ UNCHANGED <<console, printed, tries, early>>
     ELSE \E text \in Texts(<<new_password_if_forced>>) :
            /\ Exchange(<<new_password_if_forced>>, text)
            /\ IF is_password_confirm_prompt(text) THEN Goto("confirm_password") ELSE Fails("unexpected")

ConfirmPassword ==
  /\ pc = "confirm_password"
  /\ \E text \in Texts(<<new_password_if_forced>>) :
       /\ Exchange(<<new_password_if_forced>>, text)
       /\ IF is_password_change_rejected(text) THEN Fails("rejected") ELSE Goto("privilege")

(***************************************************************************)
(* An unknown state: three attempts to get a prompt out of the console.    *)
(***************************************************************************)
RecoveryKeys ==
  <<<<"intr", "enter">>, <<"space", "intr", "enter">>, <<"enter">>>>[attempt]

Recover ==
  /\ pc = "recover"
  /\ \E text \in Texts(RecoveryKeys) :
       /\ Exchange(RecoveryKeys, text)
       /\ CASE Has(text, {"Session Terminated"}) -> Goto("terminated")
            [] ~ Has(text, {"Session Terminated"}) /\ AtLogin(text) -> Goto("credentials")
            [] ~ Has(text, {"Session Terminated"}) /\ ~ AtLogin(text) /\ AtPrompt(text) -> Goto("privilege")
            [] OTHER -> IF attempt < 3 THEN Recovering(attempt + 1) ELSE Fails("stuck")

\* What a terminated session left is thrown away; then the fresh prompt.
Terminated ==
  /\ pc = "terminated"
  /\ \E text \in {<<>>, Type(console, "enter").says} :
       /\ ExchangeAfter(<<>>, <<"enter">>, text)
       /\ CASE AtLogin(text) -> Goto("credentials")
            [] ~ AtLogin(text) /\ AtPrompt(text) -> Goto("privilege")
            [] OTHER -> IF attempt < 3 THEN Recovering(attempt + 1) ELSE Fails("stuck")

(***************************************************************************)
(* enter_privileged_mode never fails: without the enable password it goes  *)
(* on in user mode.                                                        *)
(***************************************************************************)
enter_privileged_mode ==
  /\ pc = "privilege"
  /\ \E text \in Texts(<<"enter">>) :
       /\ Exchange(<<"enter">>, text)
       /\ Goto(IF text # <<>> /\ Last(text) = ">" THEN "enable" ELSE "verify")

Enable ==
  /\ pc = "enable"
  /\ \E text \in Texts(<<"enable">>) :
       /\ Exchange(<<"enable">>, text)
       /\ Goto(IF Has(text, {"Password:"}) THEN "enable_blank" ELSE "enable_check")

\* A wanted password is answered with an empty line; what the last read finds
\* is only logged.
EnableCheck ==
  /\ pc \in {"enable_blank", "enable_check"}
  /\ LET lines == IF pc = "enable_blank" THEN <<"enter", "enter">> ELSE <<"enter">>
     IN  \E text \in Texts(lines) : Exchange(lines, text)
  /\ Goto("verify")

\* Mutant of NotAuthenticated: a password prompt does not count.
NotAuthenticatedLogin(text) == ~ AtPrompt(text) /\ Has(text, {"Username:"})

NotAuthenticated(text) ==
  ~ AtPrompt(text) /\ Has(text, {"login:", "Password:", "New Password:", "Re-enter New Password:"})

verify_connectivity ==
  /\ pc = "verify"
  /\ \E text \in Texts(<<"enter">>) :
       /\ Exchange(<<"enter">>, text)
       /\ CASE text = <<>> -> Fails("silent")
            [] NotAuthenticated(text) -> Fails("not authenticated")
            [] OTHER -> Goto("setup")

(***************************************************************************)
(* The vendor's set-up: Aruba and Cisco fail with it, FortiSwitch ignores  *)
(* its failures.  CommandShell has how its commands get their answers.     *)
(***************************************************************************)
Setup(v, lines) ==
  /\ pc = "setup" /\ vendor = v
  /\ \E text \in Texts(lines) : Exchange(lines, text)
  /\ Goto("connected")

\* Aruba has an enable secret, or the login password for it.
aruba_connect ==
  LET asked == Type(console, "enable").console.place = "enable"
  IN  Setup("Aruba", IF asked THEN <<"enable", "configured", "page">> ELSE <<"enable", "page">>)

cisco_connect == Setup("Cisco", <<"page">>)
forti_connect == Setup("Fortiswitch", <<"end", "end", "console", "output", "end">>)

SetupFails ==
  /\ pc = "setup" /\ vendor # "Fortiswitch"
  /\ Goto("failed")
  /\ UNCHANGED <<console, printed, tries, early>>

Stopped == pc \in {"connected", "failed"} /\ UNCHANGED vars

Login == login_inner \/ Decline \/ LeaveConfig \/ Credentials \/ Policy
         \/ maybe_complete_forced_password_change \/ ConfirmPassword \/ Recover \/ Terminated
         \/ enter_privileged_mode \/ Enable \/ EnableCheck \/ verify_connectivity

Next == connect \/ connect_fails \/ Login \/ aruba_connect \/ cisco_connect \/ forti_connect
        \/ SetupFails \/ Stopped

Spec == Init /\ [][Next]_vars

(***************************************************************************)
(* Properties.                                                             *)
(***************************************************************************)
\* A console that connect hands over is in a shell of the switch, wherever it
\* was left, when at most one read came before its text: commands are never
\* typed into a login or password prompt.  After two such reads they may be,
\* since verify_connectivity only warns of an answer that shows no prompt.
\* Only Cisco may be left without privileges.
ConnectedIsLoggedIn ==
  pc = "connected" /\ early <= 1
    => \/ console.place \in {"exec", "config"}
       \/ console.place = "user" /\ vendor = "Cisco"

\* However late the texts come, a login gives each password at most once, and
\* the blank one only after the configured one: repeated tries would lock the
\* account.  Nor does the set-up after it give one, as long as
\* ConnectedIsLoggedIn holds.
TriesAreFew ==
  pc # "connected" \/ early <= 1 =>
    /\ Len(tries) <= 2
    /\ \A i \in DOMAIN tries : tries[i].given = IF i = 1 THEN "configured" ELSE "blank"

\* A factory-reset FortiSwitch ends up with the configured password, by way of
\* the blank one and the forced change, when its console answers in time.
FactorySwitchIsBootstrapped ==
  factory /\ compliant /\ early = 0 /\ pc \in {"connected", "failed"} /\ tries # <<>>
    => pc = "connected" /\ console.password = "configured"
=============================================================================
