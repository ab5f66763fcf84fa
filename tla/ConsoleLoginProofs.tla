--------------------------- MODULE ConsoleLoginProofs --------------------------
(***************************************************************************)
(* IInv is an inductive invariant of ConsoleLogin, for any consoles, any   *)
(* number of retries and any number of reads that come too early.  The     *)
(* proof has three parts: what lines that are typed do to a console        *)
(* (Leaves), what an exchange leaves unread, and that every step of the    *)
(* login keeps IInv.                                                       *)
(***************************************************************************)
EXTENDS ConsoleLogin, SequenceTheorems, WellFoundedInduction, TLAPS

(***************************************************************************)
(* Texts.                                                                  *)
(***************************************************************************)

\* The words of a text that is put together are those of its parts.
LEMMA JoinedWords ==
  ASSUME NEW S, NEW s \in Seq(S), NEW t \in Seq(S), NEW W
  PROVE  /\ s \o t \in Seq(S)
         /\ Has(s \o t, W) <=> Has(s, W) \/ Has(t, W)
<1>1. /\ s \o t \in Seq(S) /\ Len(s \o t) = Len(s) + Len(t)
      /\ \A i \in 1..(Len(s) + Len(t)) : (s \o t)[i] = IF i <= Len(s) THEN s[i] ELSE t[i - Len(s)]
  BY ConcatProperties
<1>2. /\ Len(s) \in Nat /\ Len(t) \in Nat /\ DOMAIN s = 1..Len(s) /\ DOMAIN t = 1..Len(t)
      /\ DOMAIN (s \o t) = 1..(Len(s) + Len(t))
  BY <1>1, LenProperties
<1> DEFINE u == s \o t
<1> HIDE DEF u
<1>3. ASSUME Has(u, W) PROVE Has(s, W) \/ Has(t, W)
  <2>1. PICK i \in 1..(Len(s) + Len(t)) : u[i] \in W
    BY <1>2, <1>3 DEF Has, u
  <2>2. CASE i <= Len(s)
    BY <2>1, <2>2, <1>1, <1>2 DEF Has, u
  <2>3. CASE ~ (i <= Len(s))
    <3>1. i - Len(s) \in DOMAIN t /\ t[i - Len(s)] \in W
      BY <2>1, <2>3, <1>1, <1>2 DEF u
    <3> QED
      BY <3>1 DEF Has
  <2> QED
    BY <2>2, <2>3
<1>4. ASSUME Has(s, W) PROVE Has(u, W)
  <2>1. PICK i \in DOMAIN s : s[i] \in W
    BY <1>4 DEF Has
  <2>2. i \in DOMAIN u /\ u[i] = s[i]
    BY <2>1, <1>1, <1>2 DEF u
  <2> QED
    BY <2>1, <2>2 DEF Has
<1>5. ASSUME Has(t, W) PROVE Has(u, W)
  <2>1. PICK i \in DOMAIN t : t[i] \in W
    BY <1>5 DEF Has
  <2>2. Len(s) + i \in DOMAIN u /\ u[Len(s) + i] = t[i]
    BY <2>1, <1>1, <1>2 DEF u
  <2> QED
    BY <2>1, <2>2 DEF Has
<1> QED
  BY <1>1, <1>3, <1>4, <1>5 DEF u

\* A text is read in two parts.
LEMMA SplitWords ==
  ASSUME NEW S, NEW all \in Seq(S), NEW n \in 0..Len(all), NEW W
  PROVE  LET text == SubSeq(all, 1, n)
             rest == SubSeq(all, n + 1, Len(all))
         IN  /\ text \in Seq(S) /\ rest \in Seq(S) /\ Len(text) = n
             /\ Has(all, W) <=> Has(text, W) \/ Has(rest, W)
             /\ text = all => rest = <<>>
<1> DEFINE text == SubSeq(all, 1, n)
           rest == SubSeq(all, n + 1, Len(all))
<1>0. Len(all) \in Nat /\ n \in Nat /\ n <= Len(all) /\ DOMAIN all = 1..Len(all)
      /\ \A i \in 1..Len(all) : all[i] \in S
  BY LenProperties, ElementOfSeq
<1>1. text \in Seq(S) /\ Len(text) = n
  <2>1. \A i \in 1..n : all[i] \in S
    BY <1>0
  <2>2. text \in Seq(S) /\ Len(text) = IF 1 <= n THEN n - 1 + 1 ELSE 0
    BY <1>0, <2>1, SubSeqProperties
  <2> QED
    BY <1>0, <2>2
<1>2. rest \in Seq(S)
  <2>1. \A i \in (n + 1)..Len(all) : all[i] \in S
    BY <1>0
  <2> QED
    BY <1>0, <2>1, SubSeqProperties
<1>3. text \o rest = all
  <2>1. text \o rest = SubSeq(all, 1, Len(all))
    <3>1. 1 \in 1..(Len(all) + 1) /\ n \in (1 - 1)..Len(all) /\ Len(all) \in n..Len(all)
      BY <1>0
    <3> QED
      BY <3>1, ConcatAdjacentSubSeq
  <2> QED
    BY <2>1, SubSeqFull
<1>4. Has(all, W) <=> Has(text, W) \/ Has(rest, W)
  <2> HIDE DEF text, rest
  <2> QED
    BY <1>1, <1>2, <1>3, JoinedWords
<1>5. ASSUME text = all PROVE rest = <<>>
  <2>1. Len(text) = Len(all)
    BY <1>5, Zenon
  <2>2. n = Len(all)
    BY <1>1, <2>1, Zenon
  <2> DEFINE k == n + 1
             l == Len(all)
  <2>3. l \in Int /\ k \in Int /\ l < k
    BY <1>0, <2>2
  <2> HIDE DEF k, l
  <2>4. SubSeq(all, k, l) = <<>>
    BY <2>3, SubSeqEmpty
  <2> QED
    BY <2>4 DEF k, l
<1> HIDE DEF text, rest
<1>6. /\ text \in Seq(S) /\ rest \in Seq(S) /\ Len(text) = n
      /\ Has(all, W) <=> Has(text, W) \/ Has(rest, W)
      /\ text = all => rest = <<>>
  BY <1>1, <1>2, <1>4, <1>5, Zenon
<1> QED
  BY <1>6, Zenon DEF text, rest

(***************************************************************************)
(* What lines do to a console.                                             *)
(***************************************************************************)

\* The shells of a switch: nothing that is typed there leads out of them.
Shell == {"user", "enable", "exec", "config", "pager"}

\* What wakes a console up, and gives no password unless it is asked for one.
Keys == {"intr", "enter", "space"}

\* What a console says, and what is typed.
Words == {"login:", "Password:", "New Password:", "Re-enter New Password:", ">", "#", "(config",
          "dialog", "more", "password policy", "doesn't conform", "doesn't match",
          "Session Terminated"}

Lines == Keys \cup {"no", "user", "configured", "blank", "end", "enable", "page", "console", "output"}

\* A console as a switch of this vendor can have it.
IsConsole(c) ==
  /\ c \in [place : Shell \cup {"login", "password", "new", "confirm", "dialog", "expired"},
            password : {"configured", "blank", "other"}, forced : BOOLEAN, asleep : Nat]
  /\ c.asleep > 0 => c.place \notin {"password", "new", "confirm", "enable"}
  /\ c.place = "dialog" => vendor = "Cisco"
  /\ c.place \in {"user", "enable"} => vendor # "Fortiswitch"
  /\ c.forced => vendor = "Fortiswitch" /\ c.place \notin Shell

Try == [given : Lines, ok : BOOLEAN]

\* What typing has led to: the console as it is, what it said on the way, and
\* the passwords it was given.
IsResult(r) ==
  /\ DOMAIN r = {"console", "says", "given"}
  /\ IsConsole(r.console) /\ r.says \in Seq(Words) /\ r.given \in Seq(Try)

\* What is left by typing the lines L to c.  Only a console that is awake says
\* something; what it says tells something of where it is, ...
Speaks(c, L, r) ==
  /\ c.asleep = 0 => r.console.asleep = 0
  /\ r.says # <<>> => r.console.asleep = 0 /\ r.console.place # "expired"
  /\ Has(r.says, {"#", ">"}) => r.console.place \in Shell
  /\ Has(r.says, {"login:"}) => r.console.place # "dialog"
  /\ Has(r.says, {"dialog"}) => c.place = "dialog"
  /\ Has(r.says, {"Re-enter New Password:"}) => "configured" \in L /\ c.place \notin Shell

\* ... where it was tells where it may be now, ...
Moves(c, L, r) ==
  /\ c.place \in Shell => r.console.place \in Shell /\ r.given = <<>>
  /\ r.console.place = "dialog" => c.place = "dialog"
  /\ r.console.place = "expired" => c.place = "expired"
  /\ r.console.place = "pager" =>
       c.place = "pager" /\ (c.asleep > 0 \/ \A line \in L : line = "enter")
  /\ c.place \in Shell /\ r.console.place \in {"user", "enable"} => c.place \in {"user", "enable"}
  /\ c.place \in Shell => r.console.password = c.password
  /\ r.console.place = "enable" => c.place = "enable" \/ "enable" \in L

\* ... and keys alone give no password.
Knocks(c, L, r) ==
  L \subseteq Keys /\ c.place # "password" =>
    /\ r.given = <<>>
    /\ r.console.place \in {"login", "new", c.place} \cup Shell
    /\ r.console.place # "password"
    /\ c.place = "login" => r.console.place = "login"
    /\ Has(r.says, {"login:"}) => r.console.place = "login"
    /\ r.console.place = "new" => c.place \in {"new", "confirm"}
    /\ r.console.place \in {"confirm", "enable"} => L = {}
    /\ r.console.place \in Shell => c.place \in Shell
    /\ c.place = "dialog" => r.console.place = "dialog"
    /\ c.place = "login" /\ c.asleep = 0 /\ L # {} => Has(r.says, {"login:"})
    /\ r.console.password = c.password /\ r.console.forced = c.forced

Leaves(c, L, r) == IsResult(r) /\ Speaks(c, L, r) /\ Moves(c, L, r) /\ Knocks(c, L, r)

Nothing(c) == [console |-> c, says |-> <<>>, given |-> <<>>]

\* The text of nothing has no words.
LEMMA NoWords == \A W : ~ Has(<<>>, W)
  BY DEF Has

\* A text of one word, ...
LEMMA OneWord ==
  ASSUME NEW w \in Words, NEW p, p = <<w>>
  PROVE  p \in Seq(Words) /\ p # <<>> /\ \A W : Has(p, W) <=> w \in W
<1>1. <<w>> \in Seq(Words) /\ <<w>> # <<>>
  OBVIOUS
<1>2. \A W : Has(<<w>>, W) <=> w \in W
  BY DEF Has
<1> QED
  BY <1>1, <1>2, Zenon

\* ... and of two.
LEMMA TwoWords ==
  ASSUME NEW v \in Words, NEW w \in Words, NEW p, p = <<v, w>>
  PROVE  p \in Seq(Words) /\ p # <<>> /\ \A W : Has(p, W) <=> v \in W \/ w \in W
<1>1. <<v, w>> \in Seq(Words) /\ <<v, w>> # <<>>
  OBVIOUS
<1>2. \A W : Has(<<v, w>>, W) <=> v \in W \/ w \in W
  BY DEF Has
<1> QED
  BY <1>1, <1>2, Zenon

\* What a prompt tells of its place.
Sign(q) ==
  CASE q = "login" -> {"login:"}
    [] q \in {"password", "enable"} -> {"Password:"}
    [] q = "new" -> {"New Password:"}
    [] q = "confirm" -> {"Re-enter New Password:"}
    [] q = "user" -> {">"}
    [] q = "exec" -> {"#"}
    [] q = "config" -> {"(config", "#"}
    [] q = "dialog" -> {"dialog"}
    [] q = "pager" -> {"more"}

Prompting == Shell \cup {"login", "password", "new", "confirm", "dialog"}

LEMMA PromptWords ==
  ASSUME NEW q \in Prompting
  PROVE  /\ Prompt(q) \in Seq(Words) /\ Prompt(q) # <<>>
         /\ \A W : Has(Prompt(q), W) <=> Sign(q) \cap W # {}
<1>1. CASE q \in {"login"}
  <2>1. Prompt(q) = <<"login:">> /\ Sign(q) = {"login:"}
    BY <1>1 DEF Prompt, Sign
  <2>2. "login:" \in Words
    BY DEF Words
  <2> QED
    BY <2>1, <2>2, OneWord, Zenon
<1>2. CASE q \in {"password", "enable"}
  <2>1. Prompt(q) = <<"Password:">> /\ Sign(q) = {"Password:"}
    BY <1>2 DEF Prompt, Sign
  <2>2. "Password:" \in Words
    BY DEF Words
  <2> QED
    BY <2>1, <2>2, OneWord, Zenon
<1>3. CASE q \in {"new"}
  <2>1. Prompt(q) = <<"New Password:">> /\ Sign(q) = {"New Password:"}
    BY <1>3 DEF Prompt, Sign
  <2>2. "New Password:" \in Words
    BY DEF Words
  <2> QED
    BY <2>1, <2>2, OneWord, Zenon
<1>4. CASE q \in {"confirm"}
  <2>1. Prompt(q) = <<"Re-enter New Password:">> /\ Sign(q) = {"Re-enter New Password:"}
    BY <1>4 DEF Prompt, Sign
  <2>2. "Re-enter New Password:" \in Words
    BY DEF Words
  <2> QED
    BY <2>1, <2>2, OneWord, Zenon
<1>5. CASE q \in {"user"}
  <2>1. Prompt(q) = <<">">> /\ Sign(q) = {">"}
    BY <1>5 DEF Prompt, Sign
  <2>2. ">" \in Words
    BY DEF Words
  <2> QED
    BY <2>1, <2>2, OneWord, Zenon
<1>6. CASE q \in {"exec"}
  <2>1. Prompt(q) = <<"#">> /\ Sign(q) = {"#"}
    BY <1>6 DEF Prompt, Sign
  <2>2. "#" \in Words
    BY DEF Words
  <2> QED
    BY <2>1, <2>2, OneWord, Zenon
<1>7. CASE q \in {"dialog"}
  <2>1. Prompt(q) = <<"dialog">> /\ Sign(q) = {"dialog"}
    BY <1>7 DEF Prompt, Sign
  <2>2. "dialog" \in Words
    BY DEF Words
  <2> QED
    BY <2>1, <2>2, OneWord, Zenon
<1>8. CASE q \in {"pager"}
  <2>1. Prompt(q) = <<"more">> /\ Sign(q) = {"more"}
    BY <1>8 DEF Prompt, Sign
  <2>2. "more" \in Words
    BY DEF Words
  <2> QED
    BY <2>1, <2>2, OneWord, Zenon
<1>9. CASE q = "config"
  <2>1. Prompt(q) = <<"(config", "#">> /\ Sign(q) = {"(config", "#"}
    BY <1>9 DEF Prompt, Sign
  <2>2. "(config" \in Words /\ "#" \in Words
    BY DEF Words
  <2>3. \A W : Sign(q) \cap W # {} <=> "(config" \in W \/ "#" \in W
    BY <2>1
  <2> QED
    BY <2>1, <2>2, <2>3, TwoWords, Zenon
<1> QED
  BY <1>1, <1>2, <1>3, <1>4, <1>5, <1>6, <1>7, <1>8, <1>9, Zenon DEF Prompting, Shell

\* No line, nothing done.
LEMMA NothingLeaves ==
  ASSUME NEW c, IsConsole(c)
  PROVE  Leaves(c, {}, Nothing(c))
<1> DEFINE r == Nothing(c)
<1>1. r.console = c /\ r.says = <<>> /\ r.given = <<>> /\ DOMAIN r = {"console", "says", "given"}
  BY DEF Nothing
<1>2. IsResult(r)
  BY <1>1 DEF IsResult
<1>3. Speaks(c, {}, r)
  BY <1>1, NoWords DEF Speaks
<1>4. Moves(c, {}, r) /\ Knocks(c, {}, r)
  <2> HIDE DEF r
  <2> QED
    BY <1>1, NoWords DEF Moves, Knocks, IsConsole
<1> QED
  BY <1>2, <1>3, <1>4 DEF Leaves

\* What r and then t says.
Then(r, t) == [t EXCEPT !.says = r.says \o @, !.given = r.given \o @]

\* What a console that is awake answers to a line: what it was about, and the
\* prompt of where it is then.
Remarks == {"password policy", "doesn't conform", "doesn't match"}

Answers(c, r) ==
  /\ DOMAIN r = {"console", "says", "given"}
  /\ \/ r.says = Prompt(r.console.place) /\ r.console.place # "expired"
     \/ /\ \E w \in Remarks : r.says = <<w>> \o Prompt(r.console.place)
        /\ r.console.place = "new"
     \/ r.says = <<"Session Terminated">> \o <<>> /\ c.place = "expired" /\ r.console.place = "login"

Turns(c, line, q) ==
  \/ c.place = "expired" /\ q = "login"
  \/ c.place = "login" /\ q = IF line \in Keys THEN "login" ELSE "password"
  \/ c.place = "password" /\ line = "intr" /\ q = "login"
  \/ c.place = "new" /\ q = CASE line = "intr" -> "login"
                              [] line = "configured" /\ compliant -> "confirm"
                              [] OTHER -> "new"
  \/ c.place = "confirm" /\ line # "configured" /\ q = "new"
  \/ c.place = "dialog" /\ q = IF line = "no" THEN "login" ELSE "dialog"
  \/ c.place = "user" /\ q = IF line = "enable" THEN "enable" ELSE "user"
  \/ c.place = "enable" /\ q = IF line = "configured" \/ (line = "enter" /\ vendor = "Cisco") THEN "exec" ELSE "user"
  \/ c.place = "config" /\ q = IF line = "end" THEN "exec" ELSE "config"
  \/ c.place = "pager" /\ q = IF line = "enter" THEN "pager" ELSE "exec"
  \/ c.place = "exec" /\ q = "exec"

\* Nothing but the place changes ...
Walks(c, line, r) ==
  \E q \in Prompting :
    Turns(c, line, q) /\ r.console = [c EXCEPT !.place = q] /\ r.given = <<>>

\* ... unless a password is given ...
Given(c, line) == IF line = "enter" THEN "blank" ELSE line

Logs(c, line, r) ==
  /\ c.place = "password" /\ line # "intr"
  /\ \E q \in {"login", "new", "user", "exec"} :
       /\ r.console = [c EXCEPT !.place = q]
       /\ q = "login" <=> Given(c, line) # c.password
       /\ q = "new" <=> Given(c, line) = c.password /\ c.forced
       /\ q = "user" => vendor = "Cisco"
  /\ \E try \in Try : try.given = Given(c, line) /\ r.given = <<try>>

\* ... or a new one is confirmed.
Confirms(c, line, r) ==
  /\ c.place = "confirm" /\ line = "configured"
  /\ r.console = [c EXCEPT !.place = "exec", !.password = "configured", !.forced = FALSE]
  /\ r.given = <<>>

LEMMA Typing ==
  ASSUME NEW c, NEW line \in Lines, IsConsole(c), c.asleep = 0
  PROVE  LET r == Type(c, line)
         IN  /\ Answers(c, r)
             /\ Walks(c, line, r) \/ Logs(c, line, r) \/ Confirms(c, line, r)
<1> DEFINE r == Type(c, line)
<1> USE DEF Prompting, Shell
<1>0. c.place \in Shell \cup {"login", "password", "new", "confirm", "dialog", "expired"}
      /\ c = [place |-> c.place, password |-> c.password, forced |-> c.forced, asleep |-> c.asleep]
  BY DEF IsConsole
<1>1. \A q : q \in Prompting =>
        /\ [c EXCEPT !.place = q].place = q
        /\ r = At(c, q) => /\ r.console = [c EXCEPT !.place = q] /\ r.says = Prompt(q) /\ r.given = <<>>
                           /\ DOMAIN r = {"console", "says", "given"}
        /\ \A w : r = Saying(<<w>>, At(c, q)) =>
             /\ r.console = [c EXCEPT !.place = q] /\ r.says = <<w>> \o Prompt(q) /\ r.given = <<>>
             /\ DOMAIN r = {"console", "says", "given"}
  BY <1>0 DEF At, Saying
<1>2. ASSUME NEW q \in Prompting,
             Turns(c, line, q), r = At(c, q)
      PROVE  Answers(c, r) /\ Walks(c, line, r)
  <2>1. r.console.place = q /\ q # "expired"
    BY <1>1, <1>2 DEF Prompting, Shell
  <2> QED
    BY <1>1, <1>2, <2>1 DEF Answers, Walks
<1>3. ASSUME NEW w \in Remarks, Turns(c, line, "new"), r = Saying(<<w>>, At(c, "new"))
      PROVE  Answers(c, r) /\ Walks(c, line, r)
  <2>1. r.console.place = "new"
    BY <1>1, <1>3
  <2> HIDE DEF r
  <2> QED
    BY <1>1, <1>3, <2>1 DEF Answers, Walks
<1>4. ASSUME c.place = "password", line # "intr"
      PROVE  Answers(c, r) /\ Logs(c, line, r)
  <2> DEFINE g == Given(c, line)
             ok == g = c.password
             try == [given |-> g, ok |-> ok]
  <2>0. /\ try \in Try /\ try.given = g
    <3>1. g \in Lines
      BY DEF Given, Lines
    <3>2. ok \in BOOLEAN
      BY Zenon
    <3> HIDE DEF g, ok
    <3> QED
      BY <3>1, <3>2 DEF Try
  <2>1. r = Authenticate(c, g)
    BY <1>0, <1>4 DEF Type, Given
  <2>2. \A q : r = [At(c, q) EXCEPT !.given = <<try>>] =>
                 /\ r.console = [c EXCEPT !.place = q] /\ r.says = Prompt(q) /\ r.given = <<try>>
                 /\ DOMAIN r = {"console", "says", "given"}
    <3> HIDE DEF try, r
    <3> QED
      BY DEF At
  <2>6. r = [Saying(<<"password policy">>, At(c, "new")) EXCEPT !.given = <<try>>] =>
                 /\ r.console = [c EXCEPT !.place = "new"]
                 /\ r.says = <<"password policy">> \o Prompt("new") /\ r.given = <<try>>
                 /\ DOMAIN r = {"console", "says", "given"}
    <3> HIDE DEF try, r
    <3> QED
      BY DEF At, Saying
  <2>3. CASE ~ ok
    <3>1. r = [At(c, "login") EXCEPT !.given = <<try>>]
      BY <2>1, <2>3, Zenon DEF Authenticate
    <3> HIDE DEF r, try
    <3>2. /\ r.console = [c EXCEPT !.place = "login"] /\ r.says = Prompt("login")
          /\ r.given = <<try>> /\ DOMAIN r = {"console", "says", "given"}
      BY <3>1, <2>2
    <3>3. r.console.place = "login"
      BY <3>2, <1>0
    <3>4. Answers(c, r)
      BY <3>2, <3>3 DEF Answers
    <3>5. Logs(c, line, r)
      BY <3>2, <2>0, <2>3, <1>4 DEF Logs
    <3> QED
      BY <3>4, <3>5
  <2>4. CASE ok /\ c.forced
    <3>1. r = [Saying(<<"password policy">>, At(c, "new")) EXCEPT !.given = <<try>>]
      BY <2>1, <2>4, Zenon DEF Authenticate
    <3> HIDE DEF r, try
    <3>2. /\ r.console = [c EXCEPT !.place = "new"] /\ r.says = <<"password policy">> \o Prompt("new")
          /\ r.given = <<try>> /\ DOMAIN r = {"console", "says", "given"}
      BY <3>1, <2>6
    <3>3. r.console.place = "new"
      BY <3>2, <1>0
    <3>4. Answers(c, r)
      BY <3>2, <3>3 DEF Answers, Remarks
    <3>5. Logs(c, line, r)
      BY <3>2, <2>0, <2>4, <1>4 DEF Logs
    <3> QED
      BY <3>4, <3>5
  <2>5. CASE ok /\ ~ c.forced
    <3> DEFINE q == IF vendor = "Cisco" THEN "user" ELSE "exec"
    <3>1. r = [At(c, q) EXCEPT !.given = <<try>>]
      BY <2>1, <2>5, Zenon DEF Authenticate
    <3> HIDE DEF r, try
    <3>2. /\ r.console = [c EXCEPT !.place = q] /\ r.says = Prompt(q) /\ r.given = <<try>>
          /\ DOMAIN r = {"console", "says", "given"}
      BY <3>1, <2>2
    <3>3. r.console.place = q /\ q \in {"user", "exec"}
      BY <3>2, <1>0
    <3>4. Answers(c, r)
      BY <3>2, <3>3 DEF Answers
    <3>5. Logs(c, line, r)
      BY <3>2, <2>0, <2>5, <1>4 DEF Logs
    <3> QED
      BY <3>4, <3>5
  <2> QED
    BY <2>3, <2>4, <2>5
<1>5. ASSUME c.place = "confirm", line = "configured"
      PROVE  Answers(c, r) /\ Confirms(c, line, r)
  <2>1. r = At([c EXCEPT !.password = "configured", !.forced = FALSE], "exec")
    BY <1>0, <1>5 DEF Type
  <2>2. /\ r.console = [c EXCEPT !.place = "exec", !.password = "configured", !.forced = FALSE]
        /\ r.says = Prompt("exec") /\ r.given = <<>> /\ DOMAIN r = {"console", "says", "given"}
    <3>1. [[c EXCEPT !.password = "configured", !.forced = FALSE] EXCEPT !.place = "exec"] =
            [c EXCEPT !.place = "exec", !.password = "configured", !.forced = FALSE]
      BY <1>0
    <3> QED
      BY <2>1, <3>1 DEF At
  <2> HIDE DEF r
  <2>3. r.console.place = "exec"
    BY <2>2, <1>0
  <2> QED
    BY <2>2, <2>3, <1>5 DEF Answers, Confirms
<1>6. ASSUME c.place = "expired" PROVE Answers(c, r) /\ Walks(c, line, r)
  <2>1. r = Saying(<<"Session Terminated">>, [At(c, "login") EXCEPT !.says = <<>>])
    BY <1>0, <1>6 DEF Type
  <2>2. /\ r.console = [c EXCEPT !.place = "login"] /\ r.says = <<"Session Terminated">> \o <<>>
        /\ r.given = <<>> /\ DOMAIN r = {"console", "says", "given"}
    BY <2>1 DEF At, Saying
  <2> HIDE DEF r
  <2>3. r.console.place = "login" /\ Turns(c, line, "login")
    BY <2>2, <1>0, <1>6 DEF Turns
  <2> QED
    BY <2>2, <2>3, <1>6 DEF Answers, Walks
<1>7. ASSUME c.place = "new" PROVE Answers(c, r) /\ Walks(c, line, r)
  <2>1. CASE line = "intr"
    <3>1. r = At(c, "login") /\ Turns(c, line, "login")
      BY <1>7, <2>1 DEF Type, Turns
    <3> QED
      BY <1>2, <3>1
  <2>2. CASE line = "configured" /\ compliant
    <3>1. r = At(c, "confirm") /\ Turns(c, line, "confirm")
      BY <1>7, <2>2 DEF Type, Turns
    <3> QED
      BY <1>2, <3>1
  <2>3. CASE line # "intr" /\ ~ (line = "configured" /\ compliant)
    <3>0. r = CASE line = "intr" -> At(c, "login")
                [] line = "configured" /\ compliant -> At(c, "confirm")
                [] OTHER -> Saying(<<"doesn't conform">>, At(c, "new"))
      BY <1>7 DEF Type
    <3>1. r = Saying(<<"doesn't conform">>, At(c, "new"))
      BY <2>3, <3>0, Zenon
    <3>2. Turns(c, line, "new")
      BY <1>7, <2>3, Zenon DEF Turns
    <3> QED
      BY <1>3, <3>1, <3>2 DEF Remarks
  <2> QED
    BY <2>1, <2>2, <2>3
<1>8. ASSUME c.place = "confirm", line # "configured" PROVE Answers(c, r) /\ Walks(c, line, r)
  <2>1. r = Saying(<<"doesn't match">>, At(c, "new")) /\ Turns(c, line, "new")
    BY <1>8 DEF Type, Turns
  <2> QED
    BY <1>3, <2>1 DEF Remarks
<1>9. ASSUME c.place = "login" PROVE Answers(c, r) /\ Walks(c, line, r)
  <2> DEFINE q == IF line \in Keys THEN "login" ELSE "password"
  <2>1. r = At(c, q) /\ Turns(c, line, q)
    BY <1>9 DEF Type, Turns, Keys
  <2> QED
    BY <1>2, <2>1
<1>12. ASSUME c.place = "dialog" PROVE Answers(c, r) /\ Walks(c, line, r)
  <2> DEFINE q == IF line = "no" THEN "login" ELSE "dialog"
  <2>1. r = At(c, q) /\ Turns(c, line, q)
    BY <1>12 DEF Type, Turns
  <2> QED
    BY <1>2, <2>1
<1>13. ASSUME c.place = "password", line = "intr" PROVE Answers(c, r) /\ Walks(c, line, r)
  <2>1. r = At(c, "login") /\ Turns(c, line, "login")
    BY <1>13 DEF Type, Turns
  <2> QED
    BY <1>2, <2>1
<1>10. ASSUME c.place \in Shell PROVE Answers(c, r) /\ Walks(c, line, r)
  <2>1. CASE c.place = "user"
    <3> DEFINE q == IF line = "enable" THEN "enable" ELSE "user"
    <3>1. r = At(c, q) /\ Turns(c, line, q) /\ q \in Shell
      BY <2>1 DEF Type, Turns, Shell
    <3> QED
      BY <1>2, <3>1
  <2>2. CASE c.place = "enable"
    <3> DEFINE q == IF line = "configured" \/ (line = "enter" /\ vendor = "Cisco") THEN "exec" ELSE "user"
    <3>1. r = At(c, q) /\ Turns(c, line, q) /\ q \in Shell
      BY <2>2 DEF Type, Turns, Shell
    <3> QED
      BY <1>2, <3>1
  <2>3. CASE c.place = "config"
    <3> DEFINE q == IF line = "end" THEN "exec" ELSE "config"
    <3>1. r = At(c, q) /\ Turns(c, line, q) /\ q \in Shell
      BY <2>3 DEF Type, Turns, Shell
    <3> QED
      BY <1>2, <3>1
  <2>4. CASE c.place = "pager"
    <3> DEFINE q == IF line = "enter" THEN "pager" ELSE "exec"
    <3>1. r = At(c, q) /\ Turns(c, line, q) /\ q \in Shell
      BY <2>4 DEF Type, Turns, Shell
    <3> QED
      BY <1>2, <3>1
  <2>5. CASE c.place = "exec"
    <3> DEFINE q == "exec"
    <3>1. r = At(c, q) /\ Turns(c, line, q) /\ q \in Shell
      BY <2>5 DEF Type, Turns, Shell
    <3> QED
      BY <1>2, <3>1
  <2> QED
    BY <1>10, <2>1, <2>2, <2>3, <2>4, <2>5 DEF Shell
<1> HIDE DEF r
<1>11. Answers(c, r) /\ (Walks(c, line, r) \/ Logs(c, line, r) \/ Confirms(c, line, r))
  <2>1. CASE c.place = "password"
    BY <2>1, <1>4, <1>13, Zenon
  <2>2. CASE c.place = "confirm"
    BY <2>2, <1>5, <1>8, Zenon
  <2>3. CASE c.place \in {"expired", "new"}
    BY <2>3, <1>6, <1>7, Zenon
  <2>4. CASE c.place \in {"login", "dialog"}
    BY <2>4, <1>9, <1>12, Zenon
  <2>5. CASE c.place \in Shell
    BY <2>5, <1>10, Zenon
  <2> QED
    BY <1>0, <2>1, <2>2, <2>3, <2>4, <2>5, Zenon
<1> QED
  BY <1>11, Zenon DEF r

\* The words of an answer are those of the prompt, after a remark at most.
LEMMA AnswerWords ==
  ASSUME NEW c, NEW r, Answers(c, r), r.console.place \in Prompting
  PROVE  /\ r.says \in Seq(Words) /\ r.says # <<>>
         /\ \A W : Has(r.says, W) =>
              \/ Sign(r.console.place) \cap W # {}
              \/ r.console.place = "new" /\ Remarks \cap W # {}
              \/ c.place = "expired" /\ "Session Terminated" \in W
         /\ \A W : c.place # "expired" /\ Sign(r.console.place) \cap W # {} => Has(r.says, W)
<1> DEFINE q == r.console.place
           p == Prompt(q)
<1>0. p \in Seq(Words) /\ p # <<>> /\ \A W : Has(p, W) <=> Sign(q) \cap W # {}
  BY PromptWords
<1> HIDE DEF p, q
<1>1. CASE r.says = p
  BY <1>0, <1>1, Zenon DEF q
<1>2. CASE (\E w \in Remarks : r.says = <<w>> \o p) /\ q = "new"
  <2>1. PICK w \in Remarks : r.says = <<w>> \o p
    BY <1>2
  <2>2. w \in Words
    BY DEF Remarks, Words
  <2> DEFINE o == <<w>>
  <2>3. o \in Seq(Words) /\ o # <<>> /\ \A W : Has(o, W) <=> w \in W
    BY <2>2, OneWord
  <2>4. r.says = o \o p
    BY <2>1
  <2> HIDE DEF o
  <2>5. r.says \in Seq(Words) /\ \A W : Has(r.says, W) <=> Has(o, W) \/ Has(p, W)
    <3>1. \A W : o \o p \in Seq(Words) /\ (Has(o \o p, W) <=> Has(o, W) \/ Has(p, W))
      BY <1>0, <2>3, JoinedWords
    <3> QED
      BY <3>1, <2>4, Zenon
  <2>6. r.says # <<>>
    <3>1. Has(r.says, {w})
      BY <2>3, <2>5
    <3> QED
      BY <3>1, NoWords
  <2>7. \A W : w \in W => Remarks \cap W # {}
    OBVIOUS
  <2> QED
    BY <1>0, <1>2, <2>3, <2>5, <2>6, <2>7, Zenon DEF q
<1>3. CASE r.says = <<"Session Terminated">> \o <<>> /\ c.place = "expired"
  <2> DEFINE o == <<"Session Terminated">>
  <2>1. r.says = o
    <3>1. o \in Seq(Words) => o \o <<>> = o
      BY ConcatEmptySeq
    <3>2. o \in Seq(Words)
      <4>1. "Session Terminated" \in Words
        BY DEF Words
      <4> QED
        BY <4>1, OneWord
    <3> QED
      BY <1>3, <3>1, <3>2, Zenon
  <2>2. o \in Seq(Words) /\ o # <<>> /\ \A W : Has(o, W) <=> "Session Terminated" \in W
    <3>1. "Session Terminated" \in Words
      BY DEF Words
    <3> QED
      BY <3>1, OneWord
  <2> HIDE DEF o
  <2> QED
    BY <1>3, <2>1, <2>2, Zenon
<1> QED
  BY <1>1, <1>2, <1>3 DEF Answers, p, q

\* A console that is asleep swallows the line.
LEMMA Swallowing ==
  ASSUME NEW c, NEW line \in Lines, IsConsole(c), c.asleep > 0
  PROVE  Leaves(c, {line}, Type(c, line))
<1> DEFINE k == [c EXCEPT !.asleep = @ - 1]
           r == Type(c, line)
<1>1. r = [console |-> k, says |-> <<>>, given |-> <<>>]
  <2>1. c.asleep # 0
    BY DEF IsConsole
  <2> HIDE DEF k
  <2>2. r = CASE c.asleep > 0 -> [console |-> k, says |-> <<>>, given |-> <<>>]
              [] c.asleep = 0 -> r
    BY <2>1 DEF Type, k
  <2> QED
    BY <2>1, <2>2
<1>2. /\ k.place = c.place /\ k.password = c.password /\ k.forced = c.forced
      /\ k.asleep = c.asleep - 1 /\ IsConsole(k) /\ c.place \notin {"password", "new", "confirm", "enable"}
  BY DEF IsConsole
<1> HIDE DEF k
<1>3. r.console = k /\ r.says = <<>> /\ r.given = <<>> /\ DOMAIN r = {"console", "says", "given"}
  BY <1>1
<1> HIDE DEF r
<1>4. IsResult(r)
  BY <1>2, <1>3 DEF IsResult
<1>5. Speaks(c, {line}, r)
  <2>1. c.asleep # 0
    BY DEF IsConsole
  <2> QED
    BY <1>3, <2>1, NoWords DEF Speaks
<1>6. Moves(c, {line}, r)
  BY <1>2, <1>3 DEF Moves
<1>7. Knocks(c, {line}, r)
  BY <1>2, <1>3, NoWords DEF Knocks, Shell, IsConsole
<1>8. Leaves(c, {line}, r)
  BY <1>4, <1>5, <1>6, <1>7 DEF Leaves
<1> QED
  BY <1>8, Zenon DEF r

\* What one line leaves.
LEMMA TypeLeaves ==
  ASSUME NEW c, NEW line \in Lines, IsConsole(c)
  PROVE  Leaves(c, {line}, Type(c, line))
<1>1. CASE c.asleep > 0
  BY <1>1, Swallowing
<1>2. CASE c.asleep = 0
  <2> DEFINE r == Type(c, line)
             k == r.console
  <2>1. Answers(c, r) /\ (Walks(c, line, r) \/ Logs(c, line, r) \/ Confirms(c, line, r))
    BY <1>2, Typing
  <2> HIDE DEF r
  <2>2. /\ c \in [place : Shell \cup {"login", "password", "new", "confirm", "dialog", "expired"},
                  password : {"configured", "blank", "other"}, forced : BOOLEAN, asleep : Nat]
        /\ c.place = "dialog" => vendor = "Cisco"
        /\ c.place \in {"user", "enable"} => vendor # "Fortiswitch"
        /\ c.forced => vendor = "Fortiswitch" /\ c.place \notin Shell
    BY DEF IsConsole
  <2>3. ASSUME Walks(c, line, r) PROVE Leaves(c, {line}, r)
    <3>1. PICK q \in Prompting : Turns(c, line, q) /\ k = [c EXCEPT !.place = q] /\ r.given = <<>>
      BY <2>3 DEF Walks
    <3>2. k.place = q /\ k.password = c.password /\ k.forced = c.forced /\ k.asleep = 0
          /\ k \in [place : Shell \cup {"login", "password", "new", "confirm", "dialog", "expired"},
                  password : {"configured", "blank", "other"}, forced : BOOLEAN, asleep : Nat]
      BY <1>2, <2>2, <3>1 DEF Prompting
    <3> HIDE DEF k
    <3>3. /\ q = "dialog" => c.place = "dialog"
          /\ q \in Shell => c.place \in Shell
          /\ c.place \in Shell => q \in Shell
          /\ q \in {"user", "enable"} => c.place \in {"user", "enable"}
          /\ q = "pager" => c.place = "pager" /\ line = "enter"
          /\ q = "enable" => line = "enable"
          /\ q = "confirm" => line = "configured"
          /\ line \in Keys => /\ q \in {"login", "new", c.place} \cup Shell
                              /\ q \notin {"password", "confirm", "enable"}
                              /\ c.place = "login" => q = "login"
                              /\ c.place = "dialog" => q = "dialog"
                              /\ q = "new" => c.place \in {"new", "confirm"}
      BY <3>1 DEF Turns, Shell, Keys, Prompting
    <3>4. IsConsole(k)
      BY <2>2, <3>2, <3>3 DEF IsConsole, Shell
    <3>5. /\ r.says \in Seq(Words) /\ r.says # <<>>
          /\ \A W : Has(r.says, W) =>
              \/ Sign(q) \cap W # {}
              \/ q = "new" /\ Remarks \cap W # {}
              \/ c.place = "expired" /\ "Session Terminated" \in W
          /\ \A W : c.place # "expired" /\ Sign(q) \cap W # {} => Has(r.says, W)
      <4>1. k.place \in Prompting
        BY <3>2
      <4> QED
        BY <2>1, <3>2, <4>1, AnswerWords, Zenon DEF k
    <3>6. /\ Has(r.says, {"#", ">"}) => q \in Shell
          /\ Has(r.says, {"login:"}) => q = "login"
          /\ Has(r.says, {"dialog"}) => q = "dialog"
          /\ Has(r.says, {"Re-enter New Password:"}) => q = "confirm"
          /\ q = "login" /\ c.place # "expired" => Has(r.says, {"login:"})
      <4>1. /\ Sign(q) \cap {"#", ">"} # {} => q \in Shell
            /\ Sign(q) \cap {"login:"} # {} <=> q = "login"
            /\ Sign(q) \cap {"dialog"} # {} => q = "dialog"
            /\ Sign(q) \cap {"Re-enter New Password:"} # {} => q = "confirm"
        BY DEF Sign, Shell, Prompting
      <4>2. /\ Remarks \cap {"#", ">"} = {} /\ Remarks \cap {"login:"} = {} /\ Remarks \cap {"dialog"} = {}
            /\ Remarks \cap {"Re-enter New Password:"} = {}
            /\ "Session Terminated" \notin {"#", ">"} /\ "Session Terminated" \notin {"login:"}
            /\ "Session Terminated" \notin {"dialog"} /\ "Session Terminated" \notin {"Re-enter New Password:"}
        BY DEF Remarks
      <4> QED
        BY <3>5, <4>1, <4>2, Zenon
    <3>7. IsResult(r)
      <4>1. r.given \in Seq(Try)
        BY <3>1
      <4> QED
        BY <4>1, <3>4, <3>5, <2>1, Zenon DEF IsResult, Answers, k
    <3>8. Speaks(c, {line}, r)
      BY <3>2, <3>3, <3>6 DEF Speaks, k, Prompting, Shell
    <3>9. Moves(c, {line}, r)
      BY <3>1, <3>2, <3>3 DEF Moves, k, Prompting, Shell
    <3>10. Knocks(c, {line}, r)
      BY <3>1, <3>2, <3>3, <3>6 DEF Knocks, k, Prompting, Shell
    <3> QED
      BY <3>7, <3>8, <3>9, <3>10, Zenon DEF Leaves
  <2>4. ASSUME Logs(c, line, r) PROVE Leaves(c, {line}, r)
    <3>1. PICK q \in {"login", "new", "user", "exec"} :
             k = [c EXCEPT !.place = q] /\ (q = "new" <=> Given(c, line) = c.password /\ c.forced)
             /\ (q = "user" => vendor = "Cisco") /\ (q = "login" <=> Given(c, line) # c.password)
      BY <2>4 DEF Logs
    <3>2. c.place = "password" /\ \E try \in Try : r.given = <<try>>
      BY <2>4 DEF Logs
    <3>3. k.place = q /\ k.password = c.password /\ k.forced = c.forced /\ k.asleep = 0
          /\ k \in [place : Shell \cup {"login", "password", "new", "confirm", "dialog", "expired"},
                  password : {"configured", "blank", "other"}, forced : BOOLEAN, asleep : Nat]
      BY <1>2, <2>2, <3>1 DEF Shell
    <3> HIDE DEF k
    <3>4. IsConsole(k)
      BY <2>2, <3>1, <3>3 DEF IsConsole, Shell
    <3>5. /\ r.says \in Seq(Words)
          /\ \A W : Has(r.says, W) => Sign(q) \cap W # {} \/ Remarks \cap W # {}
      <4>1. k.place \in Prompting
        BY <3>3 DEF Prompting, Shell
      <4>2. c.place # "expired"
        BY <3>2
      <4> QED
        BY <2>1, <3>3, <4>1, <4>2, AnswerWords, Zenon DEF k
    <3>6. /\ Has(r.says, {"#", ">"}) => q \in Shell
          /\ Has(r.says, {"login:"}) => q = "login"
          /\ ~ Has(r.says, {"dialog"})
          /\ ~ Has(r.says, {"Re-enter New Password:"})
      <4>1. /\ Sign(q) \cap {"#", ">"} # {} => q \in Shell
            /\ Sign(q) \cap {"login:"} # {} => q = "login"
            /\ Sign(q) \cap {"dialog"} = {}
            /\ Sign(q) \cap {"Re-enter New Password:"} = {}
        BY DEF Sign, Shell
      <4>2. /\ Remarks \cap {"#", ">"} = {} /\ Remarks \cap {"login:"} = {} /\ Remarks \cap {"dialog"} = {}
            /\ Remarks \cap {"Re-enter New Password:"} = {}
        BY DEF Remarks
      <4> QED
        BY <3>5, <4>1, <4>2, Zenon
    <3>7. IsResult(r)
      BY <2>1, <3>2, <3>4, <3>5 DEF IsResult, Answers, k
    <3>8. Speaks(c, {line}, r)
      BY <3>3, <3>6 DEF Speaks, k, Shell
    <3>9. Moves(c, {line}, r) /\ Knocks(c, {line}, r)
      BY <3>2, <3>3 DEF Moves, Knocks, k, Shell
    <3> QED
      BY <3>7, <3>8, <3>9, Zenon DEF Leaves
  <2>5. ASSUME Confirms(c, line, r) PROVE Leaves(c, {line}, r)
    <3>1. /\ c.place = "confirm" /\ line = "configured" /\ r.given = <<>>
          /\ k = [c EXCEPT !.place = "exec", !.password = "configured", !.forced = FALSE]
      BY <2>5 DEF Confirms
    <3>2. k.place = "exec" /\ k.asleep = 0 /\ k.forced = FALSE
          /\ k \in [place : Shell \cup {"login", "password", "new", "confirm", "dialog", "expired"},
                  password : {"configured", "blank", "other"}, forced : BOOLEAN, asleep : Nat]
      BY <1>2, <2>2, <3>1 DEF Shell
    <3> HIDE DEF k
    <3>3. IsConsole(k)
      BY <3>2 DEF IsConsole, Shell
    <3>4. /\ r.says \in Seq(Words)
          /\ \A W : Has(r.says, W) => Sign("exec") \cap W # {}
      <4>1. k.place \in Prompting /\ k.place = "exec" /\ k.place # "new"
        BY <3>2 DEF Prompting, Shell
      <4>2. c.place # "expired"
        BY <3>1
      <4> QED
        BY <2>1, <4>1, <4>2, AnswerWords, Zenon DEF k
    <3>5. ~ Has(r.says, {"login:"}) /\ ~ Has(r.says, {"dialog"}) /\ ~ Has(r.says, {"Re-enter New Password:"})
      <4>1. /\ Sign("exec") \cap {"login:"} = {} /\ Sign("exec") \cap {"dialog"} = {}
            /\ Sign("exec") \cap {"Re-enter New Password:"} = {}
        BY DEF Sign
      <4> QED
        BY <3>4, <4>1, Zenon
    <3>6. IsResult(r)
      BY <2>1, <3>1, <3>3, <3>4 DEF IsResult, Answers, k
    <3>7. Speaks(c, {line}, r)
      BY <3>2, <3>5 DEF Speaks, k, Shell
    <3>8. Moves(c, {line}, r) /\ Knocks(c, {line}, r)
      BY <3>1, <3>2 DEF Moves, Knocks, k, Shell, Keys
    <3> QED
      BY <3>6, <3>7, <3>8, Zenon DEF Leaves
  <2>6. Leaves(c, {line}, r)
    BY <2>1, <2>3, <2>4, <2>5
  <2> QED
    BY <2>6, Zenon DEF r
<1> QED
  BY <1>1, <1>2 DEF IsConsole

\* What one more line leaves.
LEMMA ThenLeaves ==
  ASSUME NEW c, IsConsole(c), NEW L, NEW r, Leaves(c, L, r), NEW line \in Lines
  PROVE  Leaves(c, L \cup {line}, Then(r, Type(r.console, line)))
<1> DEFINE t == Type(r.console, line)
           u == Then(r, t)
           M == L \cup {line}
<1>1. Leaves(r.console, {line}, t)
  BY TypeLeaves DEF Leaves, IsResult
<1> HIDE DEF t
<1>2. /\ IsResult(r) /\ Speaks(c, L, r) /\ Moves(c, L, r) /\ Knocks(c, L, r)
      /\ IsResult(t) /\ Speaks(r.console, {line}, t) /\ Moves(r.console, {line}, t)
      /\ Knocks(r.console, {line}, t)
  BY <1>1, Zenon DEF Leaves
<1>3. /\ u.console = t.console /\ u.says = r.says \o t.says /\ u.given = r.given \o t.given
      /\ DOMAIN u = {"console", "says", "given"}
  BY <1>2 DEF Then, IsResult
<1> HIDE DEF u
<1>4. u.says \in Seq(Words) /\ \A W : Has(u.says, W) <=> Has(r.says, W) \/ Has(t.says, W)
  <2> DEFINE a == r.says
             b == t.says
  <2>1. a \in Seq(Words) /\ b \in Seq(Words)
    BY <1>2 DEF IsResult
  <2> HIDE DEF a, b
  <2>2. \A W : a \o b \in Seq(Words) /\ (Has(a \o b, W) <=> Has(a, W) \/ Has(b, W))
    BY <2>1, JoinedWords
  <2>3. u.says = a \o b
    BY <1>3 DEF a, b
  <2> QED
    BY <2>2, <2>3, Zenon DEF a, b
<1>5. u.given \in Seq(Try) /\ (r.given = <<>> /\ t.given = <<>> => u.given = <<>>)
  BY <1>2, <1>3 DEF IsResult
<1>6. r.says = <<>> /\ t.says = <<>> => u.says = <<>>
  BY <1>3
<1>7. IsResult(u)
  BY <1>2, <1>3, <1>4, <1>5, Zenon DEF IsResult
<1>8. Speaks(c, M, u)
  BY <1>2, <1>3, <1>4, <1>6 DEF Speaks, Moves
<1>9. c.asleep \in Nat /\ r.console.asleep \in Nat
  BY <1>2 DEF IsResult, IsConsole
<1>10. Moves(c, M, u)
  <2>1. /\ c.place \in Shell => u.console.place \in Shell /\ u.given = <<>>
        /\ u.console.place = "dialog" => c.place = "dialog"
        /\ u.console.place = "expired" => c.place = "expired"
        /\ c.place \in Shell /\ u.console.place \in {"user", "enable"} => c.place \in {"user", "enable"}
        /\ c.place \in Shell => u.console.password = c.password
        /\ u.console.place = "enable" => c.place = "enable" \/ "enable" \in M
    BY <1>2, <1>3, <1>5 DEF Moves
  <2>2. u.console.place = "pager" => c.place = "pager" /\ (c.asleep > 0 \/ \A l \in M : l = "enter")
    <3> SUFFICES ASSUME u.console.place = "pager" PROVE c.place = "pager" /\ (c.asleep > 0 \/ \A l \in M : l = "enter")
      OBVIOUS
    <3>1. r.console.place = "pager" /\ (r.console.asleep > 0 \/ line = "enter")
      BY <1>2, <1>3 DEF Moves
    <3>2. c.place = "pager" /\ (c.asleep > 0 \/ \A l \in L : l = "enter")
      BY <1>2, <3>1 DEF Moves
    <3>3. c.asleep > 0 \/ line = "enter"
      <4>1. c.asleep = 0 => r.console.asleep = 0
        BY <1>2, Zenon DEF Speaks
      <4> QED
        BY <1>9, <3>1, <4>1
    <3> QED
      BY <3>2, <3>3
  <2> QED
    BY <2>1, <2>2 DEF Moves
<1>11. Knocks(c, M, u)
  <2> SUFFICES ASSUME M \subseteq Keys, c.place # "password"
               PROVE  /\ u.given = <<>>
                      /\ u.console.place \in {"login", "new", c.place} \cup Shell
                      /\ u.console.place # "password"
                      /\ c.place = "login" => u.console.place = "login"
                      /\ Has(u.says, {"login:"}) => u.console.place = "login"
                      /\ u.console.place = "new" => c.place \in {"new", "confirm"}
                      /\ u.console.place \in {"confirm", "enable"} => M = {}
                      /\ u.console.place \in Shell => c.place \in Shell
                      /\ c.place = "dialog" => u.console.place = "dialog"
                      /\ c.place = "login" /\ c.asleep = 0 /\ M # {} => Has(u.says, {"login:"})
                      /\ u.console.password = c.password /\ u.console.forced = c.forced
    BY Zenon DEF Knocks
  <2>1. /\ r.given = <<>>
        /\ r.console.place \in {"login", "new", c.place} \cup Shell
        /\ r.console.place # "password"
        /\ c.place = "login" => r.console.place = "login"
        /\ Has(r.says, {"login:"}) => r.console.place = "login"
        /\ r.console.place = "new" => c.place \in {"new", "confirm"}
        /\ r.console.place \in Shell => c.place \in Shell
        /\ c.place = "dialog" => r.console.place = "dialog"
        /\ r.console.password = c.password /\ r.console.forced = c.forced
    BY <1>2 DEF Knocks
  <2>2. /\ t.given = <<>>
        /\ t.console.place \in {"login", "new", r.console.place} \cup Shell
        /\ t.console.place # "password"
        /\ r.console.place = "login" => t.console.place = "login"
        /\ Has(t.says, {"login:"}) => t.console.place = "login"
        /\ t.console.place = "new" => r.console.place \in {"new", "confirm"}
        /\ t.console.place \notin {"confirm", "enable"}
        /\ t.console.place \in Shell => r.console.place \in Shell
        /\ r.console.place = "dialog" => t.console.place = "dialog"
        /\ r.console.place = "login" /\ r.console.asleep = 0 => Has(t.says, {"login:"})
        /\ t.console.password = r.console.password /\ t.console.forced = r.console.forced
    BY <1>2, <2>1 DEF Knocks
  <2>3. c.asleep = 0 => r.console.asleep = 0
    BY <1>2 DEF Speaks
  <2>4. u.given = <<>>
    BY <1>5, <2>1, <2>2
  <2>5. u.console = t.console
    BY <1>3
  <2>6. /\ u.console.place \in {"login", "new", c.place} \cup Shell
        /\ u.console.place = "new" => c.place \in {"new", "confirm"}
        /\ u.console.place \in {"confirm", "enable"} => M = {}
        /\ u.console.place \in Shell => c.place \in Shell
    BY <2>1, <2>2, <2>5 DEF Shell
  <2>7. /\ u.console.place # "password"
        /\ c.place = "login" => u.console.place = "login"
        /\ Has(u.says, {"login:"}) => u.console.place = "login"
        /\ c.place = "dialog" => u.console.place = "dialog"
        /\ c.place = "login" /\ c.asleep = 0 /\ M # {} => Has(u.says, {"login:"})
        /\ u.console.password = c.password /\ u.console.forced = c.forced
    BY <1>4, <2>1, <2>2, <2>3, <2>5
  <2> QED
    BY <2>4, <2>6, <2>7
<1>12. Leaves(c, M, u)
  BY <1>7, <1>8, <1>10, <1>11, Zenon DEF Leaves
<1> QED
  BY <1>12, Zenon DEF u, t

(***************************************************************************)
(* Induction over the lines.                                               *)
(***************************************************************************)
LEMMA LeastNumber ==
  ASSUME NEW T, T \subseteq Nat, T # {}
  PROVE  \E x \in T : \A y \in T : ~ (y < x)
<1>1. IsWellFoundedOn(OpToRel(<, Nat), Nat)
  BY NatLessThanWellFounded, Zenon
<1>2. PICK x \in T : \A y \in T : <<y, x>> \notin OpToRel(<, Nat)
  BY <1>1, WFMin, Zenon
<1>3. \A y \in T : y < x => <<y, x>> \in OpToRel(<, Nat)
  BY Zenon DEF OpToRel
<1> QED
  BY <1>2, <1>3, Zenon

LEMMA Induction ==
  ASSUME NEW T, 0 \in T, \A n \in Nat : n \in T => n + 1 \in T
  PROVE  \A n \in Nat : n \in T
<1> SUFFICES ASSUME Nat \ T # {} PROVE FALSE
  OBVIOUS
<1>1. PICK x \in Nat \ T : \A y \in Nat \ T : ~ (y < x)
  BY LeastNumber
<1>2. x # 0 /\ x - 1 \in Nat /\ x - 1 < x /\ (x - 1) + 1 = x
  BY <1>1
<1> QED
  BY <1>1, <1>2

\* TypeAll types the lines one after the other.
LEMMA TypeUnfolds ==
  ASSUME NEW c, NEW lines, Len(lines) \in Nat
  PROVE  \E typed :
           /\ typed[0] = Nothing(c)
           /\ \A n \in 1..Len(lines) : typed[n] = Then(typed[n - 1], Type(typed[n - 1].console, lines[n]))
           /\ TypeAll(c, lines) = typed[Len(lines)]
<1> DEFINE N == Len(lines)
           Further(r, n) == Then(r, Type(r.console, lines[n]))
           Upto(f, k) == /\ f[0] = Nothing(c) /\ DOMAIN f = 0..k
                         /\ \A n \in 1..k : f[n] = Further(f[n - 1], n)
           T == {k \in Nat : \E f : Upto(f, k)}
<1> HIDE DEF Further
<1>1. 0 \in T
  <2>1. Upto([n \in 0..0 |-> Nothing(c)], 0)
    OBVIOUS
  <2> QED
    BY <2>1
<1>2. ASSUME NEW k \in Nat, k \in T PROVE k + 1 \in T
  <2>1. PICK f : Upto(f, k)
    BY <1>2
  <2> DEFINE g == [n \in 0..(k + 1) |-> IF n = k + 1 THEN Further(f[k], k + 1) ELSE f[n]]
  <2>2. g[0] = Nothing(c)
    BY <2>1
  <2>3. ASSUME NEW n \in 1..(k + 1) PROVE g[n] = Further(g[n - 1], n)
    <3>1. g[n - 1] = f[n - 1]
      OBVIOUS
    <3>2. CASE n = k + 1
      BY <3>1, <3>2
    <3>3. CASE n # k + 1
      <4>1. n \in 1..k /\ g[n] = f[n]
        BY <3>3
      <4>2. f[n] = Further(f[n - 1], n)
        BY <2>1, <4>1
      <4> QED
        BY <4>1, <4>2, <3>1
    <3> QED
      BY <3>2, <3>3
  <2>4. DOMAIN g = 0..(k + 1)
    OBVIOUS
  <2> HIDE DEF g
  <2> QED
    BY <2>2, <2>3, <2>4
<1>3. N \in T
  <2> HIDE DEF T
  <2> QED
    BY <1>1, <1>2, Induction
<1>4. PICK f : Upto(f, N)
  BY <1>3
<1> HIDE DEF T
<1> DEFINE Is(r) == r = [n \in 0..N |-> IF n = 0 THEN Nothing(c) ELSE Further(r[n - 1], n)]
<1>5. Is(f)
  <2>1. \A n \in 0..N : f[n] = IF n = 0 THEN Nothing(c) ELSE Further(f[n - 1], n)
    BY <1>4
  <2>2. f = [n \in 0..N |-> f[n]]
    BY <1>4
  <2> QED
    BY <2>1, <2>2
<1> DEFINE r == CHOOSE r : Is(r)
<1>6. TypeAll(c, lines) = r[N]
  BY DEF TypeAll, Further, Then, Nothing
<1>7. Is(r)
  <2> HIDE DEF Is
  <2> QED
    BY <1>5
<1> HIDE DEF r
<1>8. r[0] = Nothing(c) /\ \A n \in 1..N : r[n] = Further(r[n - 1], n)
  BY <1>7
<1> QED
  BY <1>6, <1>8, Zenon DEF Further

\* What a list of lines leaves.
LEMMA TypeAllLeaves ==
  ASSUME NEW c, IsConsole(c), NEW lines \in Seq(Lines)
  PROVE  Leaves(c, {lines[i] : i \in 1..Len(lines)}, TypeAll(c, lines))
<1> DEFINE N == Len(lines)
           L(n) == {lines[i] : i \in 1..n}
<1>0. N \in Nat /\ \A i \in 1..N : lines[i] \in Lines
  OBVIOUS
<1>1. PICK typed :
        /\ typed[0] = Nothing(c)
        /\ \A n \in 1..N : typed[n] = Then(typed[n - 1], Type(typed[n - 1].console, lines[n]))
        /\ TypeAll(c, lines) = typed[N]
  BY <1>0, TypeUnfolds
<1> DEFINE T == {n \in Nat : n <= N => Leaves(c, L(n), typed[n])}
<1>2. 0 \in T
  <2>1. L(0) = {}
    OBVIOUS
  <2> HIDE DEF L
  <2> QED
    BY <1>1, <2>1, NothingLeaves
<1>3. ASSUME NEW n \in Nat, n \in T PROVE n + 1 \in T
  <2> SUFFICES ASSUME n + 1 <= N PROVE Leaves(c, L(n + 1), typed[n + 1])
    OBVIOUS
  <2>1. Leaves(c, L(n), typed[n]) /\ n + 1 \in 1..N /\ (n + 1) - 1 = n
    BY <1>0, <1>3
  <2>2. typed[n + 1] = Then(typed[n], Type(typed[n].console, lines[n + 1]))
    BY <1>1, <2>1
  <2>3. L(n + 1) = L(n) \cup {lines[n + 1]}
    <3>1. 1..(n + 1) = (1..n) \cup {n + 1}
      OBVIOUS
    <3> QED
      BY <3>1
  <2>4. lines[n + 1] \in Lines
    BY <1>0, <2>1
  <2> HIDE DEF L
  <2>5. Leaves(c, L(n) \cup {lines[n + 1]}, Then(typed[n], Type(typed[n].console, lines[n + 1])))
    BY <2>1, <2>4, ThenLeaves, Zenon
  <2> QED
    BY <2>2, <2>3, <2>5, Zenon
<1>4. \A n \in Nat : n \in T
  <2> HIDE DEF T
  <2> QED
    BY <1>2, <1>3, Induction
<1>5. Leaves(c, L(N), typed[N])
  <2> HIDE DEF L
  <2> QED
    BY <1>0, <1>4
<1> QED
  BY <1>1, <1>5, Zenon

\* One line, ...
LEMMA TypeOne ==
  ASSUME NEW c, IsConsole(c), NEW a \in Lines
  PROVE  LET r == TypeAll(c, <<a>>)
             t == Type(c, a)
         IN  /\ Leaves(c, {a}, r) /\ Leaves(c, {a}, t)
             /\ r.console = t.console /\ r.says = t.says /\ r.given = t.given
<1> DEFINE lines == <<a>>
           r == TypeAll(c, lines)
           t == Type(c, a)
<1>0. lines \in Seq(Lines) /\ Len(lines) = 1 /\ lines[1] = a
  OBVIOUS
<1> HIDE DEF lines
<1>1. Leaves(c, {a}, r)
  <2>1. {lines[i] : i \in 1..Len(lines)} = {a}
    BY <1>0
  <2> QED
    BY <1>0, <2>1, TypeAllLeaves
<1>2. Leaves(c, {a}, t)
  BY TypeLeaves
<1>3. r = Then(Nothing(c), t)
  <2>1. PICK typed :
          /\ typed[0] = Nothing(c)
          /\ \A n \in 1..1 : typed[n] = Then(typed[n - 1], Type(typed[n - 1].console, lines[n]))
          /\ r = typed[1]
    BY <1>0, TypeUnfolds
  <2>2. typed[1] = Then(typed[0], Type(typed[0].console, lines[1]))
    BY <2>1
  <2> QED
    BY <1>0, <2>1, <2>2 DEF Nothing
<1> HIDE DEF r, t
<1>4. IsResult(t)
  BY <1>2 DEF Leaves
<1>5. r.console = t.console /\ r.says = t.says /\ r.given = t.given
  BY <1>3, <1>4 DEF Then, Nothing, IsResult
<1>6. /\ Leaves(c, {a}, r) /\ Leaves(c, {a}, t)
      /\ r.console = t.console /\ r.says = t.says /\ r.given = t.given
  BY <1>1, <1>2, <1>5, Zenon
<1> QED
  BY <1>6, Zenon DEF r, t, lines

\* ... and two.
LEMMA TypeTwo ==
  ASSUME NEW c, IsConsole(c), NEW a \in Lines, NEW b \in Lines
  PROVE  LET r == TypeAll(c, <<a, b>>)
             s == Type(c, a)
             t == Type(s.console, b)
         IN  /\ Leaves(c, {a, b}, r) /\ Leaves(c, {a}, s) /\ Leaves(s.console, {b}, t)
             /\ r.console = t.console /\ r.says = s.says \o t.says /\ r.given = s.given \o t.given
<1> DEFINE lines == <<a, b>>
           r == TypeAll(c, lines)
           s == Type(c, a)
           t == Type(s.console, b)
<1>0. lines \in Seq(Lines) /\ Len(lines) = 2 /\ lines[1] = a /\ lines[2] = b
  OBVIOUS
<1> HIDE DEF lines
<1>1. Leaves(c, {a, b}, r)
  <2>1. {lines[i] : i \in 1..Len(lines)} = {a, b}
    BY <1>0
  <2> QED
    BY <1>0, <2>1, TypeAllLeaves
<1>2. Leaves(c, {a}, s)
  BY TypeLeaves
<1>3. IsResult(s)
  BY <1>2, Zenon DEF Leaves
<1>4. Leaves(s.console, {b}, t)
  <2>1. IsConsole(s.console)
    BY <1>3, Zenon DEF IsResult
  <2> HIDE DEF s
  <2> QED
    BY <2>1, TypeLeaves
<1>5. /\ Nothing(c).console = c
      /\ Then(Nothing(c), s).console = s.console
      /\ r = Then(Then(Nothing(c), s), Type(Then(Nothing(c), s).console, b))
  <2>1. PICK typed :
          /\ typed[0] = Nothing(c)
          /\ \A n \in 1..2 : typed[n] = Then(typed[n - 1], Type(typed[n - 1].console, lines[n]))
          /\ r = typed[2]
    <3>1. \E typed :
            /\ typed[0] = Nothing(c)
            /\ \A n \in 1..Len(lines) : typed[n] = Then(typed[n - 1], Type(typed[n - 1].console, lines[n]))
            /\ r = typed[Len(lines)]
      <4>1. Len(lines) \in Nat
        BY <1>0
      <4> QED
        BY <4>1, TypeUnfolds, Zenon
    <3> HIDE DEF r
    <3> QED
      BY <1>0, <3>1
  <2>2. /\ typed[1] = Then(typed[0], Type(typed[0].console, lines[1]))
        /\ typed[2] = Then(typed[1], Type(typed[1].console, lines[2]))
    BY <2>1
  <2>3. Nothing(c).console = c
    BY DEF Nothing
  <2>4. Then(Nothing(c), s).console = s.console
    <3> HIDE DEF s
    <3> QED
      BY <1>3 DEF Then, IsResult
  <2>5. typed[1] = Then(Nothing(c), s)
    BY <1>0, <2>1, <2>2, <2>3
  <2> QED
    BY <1>0, <2>1, <2>2, <2>3, <2>4, <2>5, Zenon
<1>6. r = Then(Then(Nothing(c), s), t)
  BY <1>5, Zenon
<1>7. IsResult(t)
  BY <1>4, Zenon DEF Leaves
<1> HIDE DEF r, s, t
<1>8. /\ Then(Nothing(c), s).says = s.says /\ Then(Nothing(c), s).given = s.given
  BY <1>3 DEF Then, Nothing, IsResult
<1>9. r.console = t.console /\ r.says = s.says \o t.says /\ r.given = s.given \o t.given
  BY <1>6, <1>7, <1>8 DEF Then, IsResult
<1>10. /\ Leaves(c, {a, b}, r) /\ Leaves(c, {a}, s) /\ Leaves(s.console, {b}, t)
       /\ r.console = t.console /\ r.says = s.says \o t.says /\ r.given = s.given \o t.given
  BY <1>1, <1>2, <1>4, <1>9, Zenon
<1> QED
  BY <1>10, Zenon DEF r, s, t, lines

(***************************************************************************)
(* What an exchange leaves unread.                                         *)
(***************************************************************************)

\* What s, of which nothing has been read, tells of the console that said it.
Tells(s, c) ==
  /\ s # <<>> => c.asleep = 0 /\ c.place # "expired"
  /\ Has(s, {"#", ">"}) => c.place \in Shell
  /\ Has(s, {"login:"}) => c.place # "dialog"
  /\ Has(s, {"dialog"}) => vendor = "Cisco"

\* It tells as much when the console says more.
LEMMA TellsOn ==
  ASSUME NEW c, IsConsole(c), NEW s \in Seq(Words), Tells(s, c), NEW L, NEW r, Leaves(c, L, r)
  PROVE  LET all == s \o r.says
         IN  /\ all \in Seq(Words) /\ Tells(all, r.console)
             /\ \A W : Has(all, W) <=> Has(s, W) \/ Has(r.says, W)
<1> DEFINE t == r.says
           all == s \o t
<1>1. IsResult(r) /\ Speaks(c, L, r) /\ Moves(c, L, r)
  BY Zenon DEF Leaves
<1>2. t \in Seq(Words)
  BY <1>1 DEF IsResult
<1> HIDE DEF t
<1>3. all \in Seq(Words) /\ \A W : Has(all, W) <=> Has(s, W) \/ Has(t, W)
  BY <1>2, JoinedWords
<1>4. s = <<>> /\ t = <<>> => all = <<>>
  OBVIOUS
<1> HIDE DEF all
<1>5. /\ all # <<>> => r.console.asleep = 0 /\ r.console.place # "expired"
      /\ Has(all, {"#", ">"}) => r.console.place \in Shell
      /\ Has(all, {"login:"}) => r.console.place # "dialog"
  BY <1>1, <1>3, <1>4 DEF Tells, Speaks, Moves, t
<1>6. Has(all, {"dialog"}) => vendor = "Cisco"
  BY <1>1, <1>3 DEF Tells, Speaks, IsConsole, t
<1>7. all \in Seq(Words) /\ Tells(all, r.console) /\ \A W : Has(all, W) <=> Has(s, W) \/ Has(t, W)
  BY <1>3, <1>5, <1>6 DEF Tells
<1> QED
  BY <1>7, Zenon DEF all, t

\* All but the last word of a text, or all of it.
LEMMA LastWord ==
  ASSUME NEW S, NEW s \in Seq(S), NEW w \in S, NEW n \in 0..Len(s \o <<w>>)
  PROVE  LET all == s \o <<w>>
             text == SubSeq(all, 1, n)
         IN  text = all \/ \A W : Has(text, W) => Has(s, W)
<1> DEFINE all == s \o <<w>>
           text == SubSeq(all, 1, n)
<1>1. /\ all \in Seq(S) /\ Len(all) = Len(s) + 1 /\ Len(s) \in Nat
      /\ \A i \in 1..Len(s) : all[i] = s[i]
  OBVIOUS
<1> HIDE DEF all
<1>2. n \in 0..Len(all)
  BY DEF all
<1>3. CASE n = Len(all)
  <2>1. SubSeq(all, 1, Len(all)) = all
    BY <1>1, SubSeqFull
  <2>2. text = all
    BY <1>3, <2>1
  <2> QED
    BY <2>2, Zenon DEF all
<1>4. CASE n # Len(all)
  <2>1. n \in Nat /\ n <= Len(s)
    BY <1>1, <1>2, <1>4
  <2>2. /\ DOMAIN text = 1..n /\ \A i \in 1..n : text[i] = s[i]
        /\ 1..n \subseteq DOMAIN s
    BY <1>1, <2>1
  <2> HIDE DEF text
  <2>3. \A W : Has(text, W) => Has(s, W)
    BY <2>2 DEF Has
  <2> QED
    BY <2>3, Zenon DEF all, text
<1> QED
  BY <1>3, <1>4

\* What lines are typed to the console, and what is read of what it says, when
\* s was unread before.
Reads(s, r, text) ==
  /\ console' = r.console /\ IsConsole(console') /\ r.says \in Seq(Words)
  /\ tries' \in Seq(Try) /\ tries' = tries \o r.given
  /\ r.given = <<>> => tries' = tries
  /\ text \in Seq(Words) /\ Tells(text, console')
  /\ printed' \in Seq(Words) /\ Tells(printed', console')
  /\ \A W : Has(s, W) \/ Has(r.says, W) <=> Has(text, W) \/ Has(printed', W)
  /\ IF text = s \o r.says THEN printed' = <<>> /\ early' = early ELSE early' = early + 1
  /\ early' \in Nat

LEMMA Exchanged ==
  ASSUME IsConsole(console), tries \in Seq(Try), early \in Nat,
         NEW unread \in Seq(Words), Tells(unread, console),
         NEW L, NEW lines, Leaves(console, L, TypeAll(console, lines)),
         NEW n \in 0..Len(unread \o TypeAll(console, lines).says),
         NEW text, text = SubSeq(unread \o TypeAll(console, lines).says, 1, n),
         ExchangeAfter(unread, lines, text)
  PROVE  Reads(unread, TypeAll(console, lines), text)
<1> DEFINE r == TypeAll(console, lines)
           all == unread \o r.says
<1>1. IsResult(r)
  BY Zenon DEF Leaves
<1>2. /\ all \in Seq(Words) /\ Tells(all, r.console)
      /\ \A W : Has(all, W) <=> Has(unread, W) \/ Has(r.says, W)
  BY TellsOn, Zenon
<1>3. /\ console' = r.console /\ tries' = tries \o r.given
      /\ printed' = SubSeq(all, Len(text) + 1, Len(all))
      /\ early' = IF text = all THEN early ELSE early + 1
  BY Zenon DEF ExchangeAfter
<1>4. IsConsole(r.console) /\ r.given \in Seq(Try) /\ r.says \in Seq(Words)
  BY <1>1, Zenon DEF IsResult
<1>12. n \in 0..Len(all) /\ text = SubSeq(all, 1, n)
  OBVIOUS
<1> HIDE DEF r, all
<1>5. /\ text \in Seq(Words) /\ printed' \in Seq(Words)
      /\ \A W : Has(all, W) <=> Has(text, W) \/ Has(printed', W)
      /\ text = all => printed' = <<>>
  <2> DEFINE rest == SubSeq(all, n + 1, Len(all))
             part == SubSeq(all, 1, n)
  <2>1. /\ part \in Seq(Words) /\ rest \in Seq(Words) /\ Len(part) = n
        /\ \A W : Has(all, W) <=> Has(part, W) \/ Has(rest, W)
        /\ part = all => rest = <<>>
    BY <1>2, <1>12, SplitWords
  <2>2. text = part /\ printed' = rest
    BY <1>3, <1>12, <2>1
  <2> QED
    BY <2>1, <2>2, Zenon
<1>6. tries' \in Seq(Try) /\ (r.given = <<>> => tries' = tries)
  <2>1. r.given = <<>> => tries \o r.given = tries
    OBVIOUS
  <2>2. tries \o r.given \in Seq(Try)
    BY <1>4
  <2> QED
    BY <1>3, <2>1, <2>2
<1>7. ASSUME NEW s, \A W : Has(s, W) => Has(all, W), s # <<>> => all # <<>>
      PROVE  Tells(s, r.console)
  BY <1>2, <1>7, Zenon DEF Tells
<1>8. /\ text # <<>> => all # <<>>
      /\ printed' # <<>> => all # <<>>
  <2>1. ASSUME all = <<>> PROVE text = <<>> /\ printed' = <<>>
    BY <1>3, <1>12, <2>1
  <2> QED
    BY <2>1
<1>9. Tells(text, r.console) /\ Tells(printed', r.console)
  BY <1>5, <1>7, <1>8, Zenon
<1>10. early' \in Nat /\ IF text = all THEN printed' = <<>> /\ early' = early ELSE early' = early + 1
  BY <1>3, <1>5
<1>11. /\ console' = r.console /\ IsConsole(console') /\ r.says \in Seq(Words)
       /\ tries' \in Seq(Try) /\ tries' = tries \o r.given
       /\ r.given = <<>> => tries' = tries
       /\ text \in Seq(Words) /\ Tells(text, console')
       /\ printed' \in Seq(Words) /\ Tells(printed', console')
       /\ \A W : Has(unread, W) \/ Has(r.says, W) <=> Has(text, W) \/ Has(printed', W)
       /\ IF text = all THEN printed' = <<>> /\ early' = early ELSE early' = early + 1
       /\ early' \in Nat
  BY <1>2, <1>3, <1>4, <1>5, <1>6, <1>9, <1>10, Zenon
<1> QED
  BY <1>11, Zenon DEF Reads, r, all

(***************************************************************************)
(* The inductive invariant.                                                *)
(***************************************************************************)
Knocking == {"login_inner", "decline", "recover", "terminated"}

LoggedIn == {"policy", "new_password", "confirm_password", "leave_config", "privilege", "enable",
             "enable_blank", "enable_check", "verify", "setup"}

Steps == Knocking \cup LoggedIn \cup {"open", "credentials", "connected", "failed"}

TypeInv ==
  /\ vendor \in {"Aruba", "Cisco", "Fortiswitch"} /\ compliant \in BOOLEAN /\ factory \in BOOLEAN
  /\ IsConsole(console) /\ printed \in Seq(Words) /\ pc \in Steps
  /\ password \in {"configured", "blank"} /\ attempt \in Nat /\ tries \in Seq(Try) /\ early \in Nat

\* What is unread was said by a console that is awake, and only a read that
\* came early leaves anything.
Unread ==
  /\ Tells(printed, console)
  /\ early = 0 => printed = <<>>
  /\ Has(printed, {"Re-enter New Password:"}) => pc \in {"failed", "connected"}

\* The passwords given so far.
None(s) == s = <<>>
One(s) == Len(s) = 1 /\ s[1].given = "configured"
Two(s) == Len(s) = 2 /\ s[1].given = "configured" /\ s[2].given = "blank"

InShell == console.place \in Shell

\* Each password is given once at most, in the order of the logins; when none
\* was asked for, the console is in a shell.
Tried ==
  /\ pc = "open" => None(tries) /\ printed = <<>> /\ password = "configured"
  /\ pc \in Knocking \cup {"credentials"} =>
       IF password = "configured" THEN None(tries) ELSE One(tries) \/ (None(tries) /\ InShell)
  /\ pc \in LoggedIn =>
       \/ None(tries) /\ InShell
       \/ One(tries) /\ (password = "configured" \/ InShell)
       \/ Two(tries) /\ password = "blank"
  /\ pc = "failed" \/ (pc = "connected" /\ early <= 1) => None(tries) \/ One(tries) \/ Two(tries)
  /\ password = "blank" => vendor = "Fortiswitch"

\* Where the console is, by what the login has come to.
Stands ==
  /\ console.place = "password" => pc \in {"open", "login_inner", "failed", "connected"}
  /\ pc = "login_inner" =>
       IF password = "configured" THEN printed = <<>>
       ELSE console.place \notin {"password", "confirm", "expired", "dialog"}
  /\ pc = "decline" => console.place = "dialog" /\ console.asleep = 0
  /\ pc \in {"decline", "recover", "terminated"} => console.place # "confirm"
  /\ pc = "recover" /\ console.place = "new" => ~ Has(printed, {"login:"})
  /\ pc \in {"recover", "terminated"} => attempt \in 1..3
  /\ pc = "credentials" => console.asleep = 0 /\ console.place \in {"login"} \cup Shell
  /\ pc \in LoggedIn => console.asleep = 0 /\ console.place \in {"login", "new", "confirm"} \cup Shell
  /\ pc \in LoggedIn /\ console.place = "confirm" => pc = "confirm_password"
  /\ pc = "confirm_password" => console.place = "confirm" /\ printed = <<>>
  /\ pc \in {"leave_config", "enable", "enable_blank", "enable_check"} => InShell
  /\ pc \in {"verify", "setup"} => console.place # "enable"
  /\ pc = "setup" /\ early <= 1 => InShell
  /\ early = 0 /\ pc \in {"policy", "privilege", "verify"} => console.place # "new"
  /\ ConnectedIsLoggedIn

\* How a factory-reset FortiSwitch whose console answers in time is taken over.
Blank == console.password = "blank" /\ console.forced

Bootstrap ==
  factory /\ compliant /\ early = 0 =>
    /\ vendor = "Fortiswitch"
    /\ pc \notin {"policy", "leave_config", "enable", "enable_blank", "enable_check"}
    /\ pc \in Knocking \cup {"open", "credentials"} => Blank
    /\ pc \in Knocking /\ password = "blank" =>
         pc = "login_inner" /\ console.place = "login" /\ console.asleep = 0
    /\ pc = "new_password" => Blank /\ console.place = "new"
    /\ pc \in {"privilege", "verify"} =>
         \/ Blank /\ console.place = "login" /\ password = "configured"
         \/ console.place = "exec" /\ console.password = "configured"
    /\ pc = "failed" => None(tries)
    /\ pc = "setup" => console.password = "configured" /\ InShell
    /\ pc = "connected" => console.password = "configured"

IInv == TypeInv /\ Unread /\ Tried /\ Stands /\ Bootstrap

\* IInv holds of a console as it is found.
LEMMA InitIInv == ASSUME Init PROVE IInv
<1>1. TypeInv
  <2>1. IsConsole(console)
    BY ConsoleAssumption DEF Init, IsConsole, Shell
  <2>2. printed \in Seq(Words) /\ tries \in Seq(Try)
    BY DEF Init
  <2>3. factory \in BOOLEAN
    BY Zenon DEF Init
  <2> QED
    BY <2>1, <2>2, <2>3, ConsoleAssumption DEF Init, TypeInv, Steps
<1>2. Unread
  BY NoWords DEF Init, Unread, Tells
<1>3. Tried /\ Stands
  BY DEF Init, Tried, Stands, None, Knocking, LoggedIn, ConnectedIsLoggedIn
<1>4. Bootstrap
  BY DEF Init, Bootstrap, Knocking, Blank
<1> QED
  BY <1>1, <1>2, <1>3, <1>4 DEF IInv

\* What is said of the console is said of it after a step.
LEMMA Later ==
  ASSUME vendor' = vendor
  PROVE  /\ IsConsole(console)' <=> IsConsole(console')
         /\ Tells(printed, console)' <=> Tells(printed', console')
         /\ console' = console => (IsConsole(console) <=> IsConsole(console'))
         /\ console' = console /\ printed' = printed => (Tells(printed, console) <=> Tells(printed', console'))
  BY DEF IsConsole, Tells

\* A step that leaves the console alone.
LEMMA SilentSteps ==
  ASSUME IInv, connect \/ connect_fails \/ SetupFails \/ Stopped
  PROVE  IInv'
<1> USE DEF IInv, TypeInv, Knocking, LoggedIn, Steps, Goto
<1>1. CASE connect
  <2>1. TypeInv'
    <3>1. vendor' = vendor /\ console' = console
      BY <1>1 DEF connect
    <3> QED
      BY <1>1, <3>1, Later DEF connect
  <2>2. Unread'
    BY <1>1, NoWords DEF connect, Unread, Tells
  <2>3. Tried' /\ Stands' /\ Bootstrap'
    BY <1>1, NoWords DEF connect, Tried, Stands, Bootstrap, None, One, Two, InShell, Blank, ConnectedIsLoggedIn
  <2> QED
    BY <2>1, <2>2, <2>3
<1>2. CASE connect_fails
  <2>1. TypeInv'
    <3>1. vendor' = vendor /\ console' = console
      BY <1>2 DEF connect_fails
    <3> QED
      BY <1>2, <3>1, Later DEF connect_fails
  <2>2. Unread'
    BY <1>2 DEF connect_fails, Unread, Tells
  <2>3. Tried' /\ Stands' /\ Bootstrap'
    BY <1>2 DEF connect_fails, Tried, Stands, Bootstrap, None, One, Two, InShell, Blank, ConnectedIsLoggedIn
  <2> QED
    BY <2>1, <2>2, <2>3
<1>3. CASE SetupFails
  <2>1. TypeInv'
    <3>1. vendor' = vendor /\ console' = console
      BY <1>3 DEF SetupFails
    <3> QED
      BY <1>3, <3>1, Later DEF SetupFails
  <2>2. Unread'
    BY <1>3 DEF SetupFails, Unread, Tells
  <2>3. Tried' /\ Stands' /\ Bootstrap'
    BY <1>3 DEF SetupFails, Tried, Stands, Bootstrap, None, One, Two, InShell, Blank, ConnectedIsLoggedIn
  <2> QED
    BY <2>1, <2>2, <2>3
<1>4. CASE Stopped
  <2>1. TypeInv'
    <3>1. vendor' = vendor /\ console' = console
      BY <1>4 DEF Stopped, vars
    <3> QED
      BY <1>4, <3>1, Later DEF Stopped, vars
  <2>2. Unread'
    BY <1>4 DEF Stopped, vars, Unread, Tells
  <2>3. Tried' /\ Stands' /\ Bootstrap'
    BY <1>4 DEF Stopped, vars, Tried, Stands, Bootstrap, None, One, Two, InShell, Blank, ConnectedIsLoggedIn
  <2> QED
    BY <2>1, <2>2, <2>3
<1> QED
  BY <1>1, <1>2, <1>3, <1>4

\* An exchange of the login.
LEMMA ReadsOn ==
  ASSUME TypeInv, Unread, NEW L, NEW lines, Leaves(console, L, TypeAll(console, lines)),
         NEW text \in Texts(lines), Exchange(lines, text)
  PROVE  Reads(printed, TypeAll(console, lines), text)
<1>1. PICK n \in 0..Len(printed \o TypeAll(console, lines).says) :
        text = SubSeq(printed \o TypeAll(console, lines).says, 1, n)
  BY Zenon DEF Texts
<1>2. ExchangeAfter(printed, lines, text) /\ Tells(printed, console)
  BY Zenon DEF Exchange, Unread
<1>3. IsConsole(console) /\ tries \in Seq(Try) /\ early \in Nat /\ printed \in Seq(Words)
  BY DEF TypeInv
<1> QED
  BY <1>1, <1>2, <1>3, Exchanged, Zenon

LEMMA OneMore == \A e \in Nat : e <= e /\ e <= e + 1 /\ e + 1 # 0 /\ (e + 1 <= 1 => e = 0)
  OBVIOUS

\* What every step with an exchange keeps.
LEMMA StepTyped ==
  ASSUME TypeInv, UNCHANGED <<vendor, compliant, factory>>, pc' \in Steps,
         password' \in {"configured", "blank"}, attempt' \in Nat,
         NEW s, NEW r, NEW text, Reads(s, r, text),
         early = 0 => s = <<>>,
         Has(printed', {"Re-enter New Password:"}) => pc' \in {"failed", "connected"}
  PROVE  TypeInv' /\ Unread' /\ early <= early' /\ (early' = 0 => early = 0 /\ text = r.says)
<1>1. /\ console' = r.console /\ IsConsole(console') /\ tries' \in Seq(Try)
      /\ printed' \in Seq(Words) /\ Tells(printed', console')
      /\ IF text = s \o r.says THEN printed' = <<>> /\ early' = early ELSE early' = early + 1
      /\ early' \in Nat
  BY DEF Reads
<1>2. TypeInv'
  BY <1>1, Later DEF TypeInv
<1>3. early <= early' /\ (early' = 0 => early = 0 /\ text = r.says /\ printed' = <<>>)
  <2>1. early \in Nat /\ r.says \in Seq(Words)
    BY DEF TypeInv, Reads
  <2>2. s = <<>> => s \o r.says = r.says
    BY <2>1, ConcatEmptySeq
  <2>3. \/ text = s \o r.says /\ printed' = <<>> /\ early' = early
        \/ early' = early + 1
    BY <1>1, Zenon
  <2>6. \A e \in Nat : e <= e /\ e <= e + 1 /\ e + 1 # 0
    BY OneMore, Zenon
  <2>4. CASE early' = early + 1
    BY <2>1, <2>6, <2>4, Zenon
  <2>5. CASE text = s \o r.says /\ printed' = <<>> /\ early' = early
    BY <2>1, <2>6, <2>2, <2>5, Zenon
  <2> QED
    BY <2>3, <2>4, <2>5
<1>4. Unread'
  BY <1>1, <1>3, Later DEF Unread
<1> QED
  BY <1>2, <1>3, <1>4

(***************************************************************************)
(* What a console that is awake does with a line, by where it is.          *)
(***************************************************************************)
LEMMA HasMore ==
  ASSUME NEW s, NEW V, NEW W, V \subseteq W, Has(s, V)
  PROVE  Has(s, W)
  BY DEF Has

\* Anywhere but where a password is wanted.
LEMMA Walking ==
  ASSUME NEW c, IsConsole(c), c.asleep = 0, NEW line \in Lines,
         c.place # "password", c.place = "confirm" => line # "configured"
  PROVE  LET t == Type(c, line)
             q == t.console.place
         IN  /\ Turns(c, line, q) /\ q \in Prompting /\ t.given = <<>>
             /\ t.console.asleep = 0 /\ t.console.password = c.password /\ t.console.forced = c.forced
             /\ t.says \in Seq(Words) /\ IsConsole(t.console)
             /\ c.place # "expired" =>
                  /\ q # "new" => t.says = Prompt(q)
                  /\ \A W : Sign(q) \cap W # {} => Has(t.says, W)
                  /\ \A W : Has(t.says, W) => Sign(q) \cap W # {} \/ (q = "new" /\ Remarks \cap W # {})
<1> DEFINE t == Type(c, line)
           k == t.console
           q == k.place
<1>1. Answers(c, t) /\ Walks(c, line, t)
  <2>1. ~ Logs(c, line, t) /\ ~ Confirms(c, line, t)
    BY Zenon DEF Logs, Confirms
  <2> QED
    BY <2>1, Typing, Zenon
<1>2. IsConsole(k)
  BY TypeLeaves, Zenon DEF Leaves, IsResult
<1> HIDE DEF t
<1>3. PICK p \in Prompting : Turns(c, line, p) /\ k = [c EXCEPT !.place = p] /\ t.given = <<>>
  BY <1>1 DEF Walks
<1>4. q = p /\ k.asleep = 0 /\ k.password = c.password /\ k.forced = c.forced
  BY <1>3 DEF IsConsole
<1>5. /\ t.says \in Seq(Words)
      /\ \A W : Has(t.says, W) =>
           \/ Sign(q) \cap W # {}
           \/ q = "new" /\ Remarks \cap W # {}
           \/ c.place = "expired" /\ "Session Terminated" \in W
      /\ \A W : c.place # "expired" /\ Sign(q) \cap W # {} => Has(t.says, W)
  BY <1>1, <1>3, <1>4, AnswerWords, Zenon
<1>6. c.place # "expired" /\ q # "new" => t.says = Prompt(q)
  BY <1>1, Zenon DEF Answers
<1> HIDE DEF k
<1>7. /\ Turns(c, line, q) /\ q \in Prompting /\ t.given = <<>>
      /\ k.asleep = 0 /\ k.password = c.password /\ k.forced = c.forced
      /\ t.says \in Seq(Words) /\ IsConsole(k)
      /\ c.place # "expired" =>
           /\ q # "new" => t.says = Prompt(q)
           /\ \A W : Sign(q) \cap W # {} => Has(t.says, W)
           /\ \A W : Has(t.says, W) => Sign(q) \cap W # {} \/ (q = "new" /\ Remarks \cap W # {})
  BY <1>2, <1>3, <1>4, <1>5, <1>6, Zenon
<1> QED
  BY <1>7, Zenon DEF k, t

\* At the password prompt.
LEMMA Logging ==
  ASSUME NEW c, IsConsole(c), c.asleep = 0, c.place = "password", NEW line \in Lines, line # "intr"
  PROVE  LET t == Type(c, line)
             q == t.console.place
         IN  /\ q \in {"login", "new", "user", "exec"}
             /\ q = "login" <=> Given(c, line) # c.password
             /\ q = "new" <=> Given(c, line) = c.password /\ c.forced
             /\ t.console.asleep = 0 /\ t.console.password = c.password /\ t.console.forced = c.forced
             /\ t.says \in Seq(Words)
             /\ \E try \in Try : try.given = Given(c, line) /\ t.given = <<try>>
             /\ \A W : Sign(q) \cap W # {} => Has(t.says, W)
             /\ \A W : Has(t.says, W) => Sign(q) \cap W # {} \/ (q = "new" /\ Remarks \cap W # {})
<1> DEFINE t == Type(c, line)
           k == t.console
           q == k.place
<1>1. Answers(c, t) /\ Logs(c, line, t)
  <2>1. ~ Confirms(c, line, t)
    BY DEF Confirms
  <2>2. ~ Walks(c, line, t)
    BY DEF Walks, Turns
  <2> QED
    BY <2>1, <2>2, Typing, Zenon
<1> HIDE DEF t
<1>2. PICK p \in {"login", "new", "user", "exec"} :
         /\ k = [c EXCEPT !.place = p]
         /\ p = "login" <=> Given(c, line) # c.password
         /\ p = "new" <=> Given(c, line) = c.password /\ c.forced
  BY <1>1 DEF Logs
<1>3. \E try \in Try : try.given = Given(c, line) /\ t.given = <<try>>
  BY <1>1, Zenon DEF Logs
<1>4. q = p /\ k.asleep = 0 /\ k.password = c.password /\ k.forced = c.forced
  BY <1>2 DEF IsConsole
<1>5. /\ t.says \in Seq(Words)
      /\ \A W : Has(t.says, W) => Sign(q) \cap W # {} \/ (q = "new" /\ Remarks \cap W # {})
      /\ \A W : Sign(q) \cap W # {} => Has(t.says, W)
  <2>1. q \in Prompting
    BY <1>4 DEF Prompting, Shell
  <2>2. c.place # "expired"
    OBVIOUS
  <2> QED
    BY <1>1, <2>1, <2>2, AnswerWords, Zenon
<1> HIDE DEF k
<1>6. /\ q \in {"login", "new", "user", "exec"}
      /\ q = "login" <=> Given(c, line) # c.password
      /\ q = "new" <=> Given(c, line) = c.password /\ c.forced
      /\ k.asleep = 0 /\ k.password = c.password /\ k.forced = c.forced
      /\ t.says \in Seq(Words)
      /\ \E try \in Try : try.given = Given(c, line) /\ t.given = <<try>>
      /\ \A W : Sign(q) \cap W # {} => Has(t.says, W)
      /\ \A W : Has(t.says, W) => Sign(q) \cap W # {} \/ (q = "new" /\ Remarks \cap W # {})
  BY <1>2, <1>3, <1>4, <1>5, Zenon
<1> QED
  BY <1>6, Zenon DEF k, t

\* Where the new password is wanted once more.
LEMMA Confirming ==
  ASSUME NEW c, IsConsole(c), c.asleep = 0, c.place = "confirm"
  PROVE  LET t == Type(c, "configured")
         IN  /\ t.console.place = "exec" /\ t.console.asleep = 0 /\ t.console.password = "configured"
             /\ t.given = <<>> /\ t.says = <<"#">>
<1> DEFINE t == Type(c, "configured")
           k == t.console
<1>1. Answers(c, t) /\ Confirms(c, "configured", t)
  <2>1. ~ Logs(c, "configured", t)
    BY DEF Logs
  <2>2. ~ Walks(c, "configured", t)
    BY DEF Walks, Turns
  <2>3. "configured" \in Lines
    BY DEF Lines
  <2> QED
    BY <2>1, <2>2, <2>3, Typing, Zenon
<1> HIDE DEF t
<1>2. k = [c EXCEPT !.place = "exec", !.password = "configured", !.forced = FALSE] /\ t.given = <<>>
  BY <1>1 DEF Confirms
<1>3. k.place = "exec" /\ k.asleep = 0 /\ k.password = "configured"
  BY <1>2 DEF IsConsole
<1>4. t.says = Prompt("exec")
  BY <1>1, <1>3 DEF Answers
<1>5. t.says = <<"#">>
  BY <1>4 DEF Prompt
<1>6. k.place = "exec" /\ k.asleep = 0 /\ k.password = "configured" /\ t.given = <<>> /\ t.says = <<"#">>
  BY <1>2, <1>3, <1>5, Zenon
<1> QED
  BY <1>6, Zenon DEF k, t

\* LeaveConfig: a line in a shell.
LEMMA LeaveConfigStep == ASSUME IInv, LeaveConfig PROVE IInv'
<1> DEFINE r == TypeAll(console, <<"end">>)
<1> USE DEF IInv, Knocking, LoggedIn, Steps
<1>1. PICK text \in Texts(<<"end">>) : Exchange(<<"end">>, text)
  BY DEF LeaveConfig
<1>2. Goto("privilege") /\ pc = "leave_config"
  BY DEF LeaveConfig
<1>3. Leaves(console, {"end"}, r)
  BY TypeOne DEF Lines, TypeInv
<1>4. Reads(printed, r, text)
  BY <1>1, <1>3, ReadsOn
<1> HIDE DEF r
<1>5. /\ r.console.place \in Shell /\ r.given = <<>> /\ r.console.asleep = 0
      /\ ~ Has(r.says, {"Re-enter New Password:"})
  BY <1>2, <1>3 DEF Stands, Leaves, Speaks, Moves, InShell
<1>6. TypeInv' /\ Unread' /\ early <= early' /\ (early' = 0 => early = 0 /\ text = r.says)
  BY <1>2, <1>4, <1>5, StepTyped DEF Goto, Reads, Unread, TypeInv
<1>7. Tried' /\ Stands'
  BY <1>2, <1>4, <1>5, <1>6 DEF Goto, Reads, Tried, Stands, None, One, Two, InShell, ConnectedIsLoggedIn, Shell
<1>8. Bootstrap'
  BY <1>2, <1>6 DEF Goto, Bootstrap
<1> QED
  BY <1>6, <1>7, <1>8

\* Enable and EnableCheck: lines in a shell.
LEMMA EnableStep == ASSUME IInv, Enable PROVE IInv'
<1> DEFINE r == TypeAll(console, <<"enable">>)
<1> USE DEF IInv, Knocking, LoggedIn, Steps
<1>1. PICK text \in Texts(<<"enable">>) :
        /\ Exchange(<<"enable">>, text)
        /\ Goto(IF Has(text, {"Password:"}) THEN "enable_blank" ELSE "enable_check")
  BY DEF Enable
<1>2. pc = "enable" /\ pc' \in {"enable_blank", "enable_check"}
      /\ UNCHANGED <<vendor, compliant, password, attempt, factory>>
  BY <1>1 DEF Enable, Goto
<1>3. Leaves(console, {"enable"}, r)
  BY TypeOne DEF Lines, TypeInv
<1>4. Reads(printed, r, text)
  BY <1>1, <1>3, ReadsOn
<1> HIDE DEF r
<1>5. /\ r.console.place \in Shell /\ r.given = <<>> /\ r.console.asleep = 0
      /\ ~ Has(r.says, {"Re-enter New Password:"})
  BY <1>2, <1>3 DEF Stands, Leaves, Speaks, Moves, InShell
<1>6. TypeInv' /\ Unread' /\ early <= early' /\ (early' = 0 => early = 0 /\ text = r.says)
  BY <1>2, <1>4, <1>5, StepTyped DEF Reads, Unread, TypeInv
<1>7. Tried' /\ Stands'
  BY <1>2, <1>4, <1>5, <1>6 DEF Reads, Tried, Stands, None, One, Two, InShell, ConnectedIsLoggedIn, Shell
<1>8. Bootstrap'
  BY <1>2, <1>6 DEF Bootstrap
<1> QED
  BY <1>6, <1>7, <1>8

LEMMA EnableCheckStep == ASSUME IInv, EnableCheck PROVE IInv'
<1> DEFINE lines == IF pc = "enable_blank" THEN <<"enter", "enter">> ELSE <<"enter">>
           r == TypeAll(console, lines)
<1> USE DEF IInv, Knocking, LoggedIn, Steps
<1>1. PICK text \in Texts(lines) : Exchange(lines, text)
  BY DEF EnableCheck
<1>2. pc \in {"enable_blank", "enable_check"} /\ pc' = "verify"
      /\ UNCHANGED <<vendor, compliant, password, attempt, factory>>
  BY DEF EnableCheck, Goto
<1>3. Leaves(console, {"enter"}, r)
  <2>1. IsConsole(console) /\ "enter" \in Lines
    BY DEF TypeInv, Lines, Keys
  <2>2. {"enter", "enter"} = {"enter"}
    OBVIOUS
  <2>3. Leaves(console, {"enter"}, TypeAll(console, <<"enter">>))
    BY <2>1, TypeOne
  <2>4. Leaves(console, {"enter", "enter"}, TypeAll(console, <<"enter", "enter">>))
    BY <2>1, TypeTwo
  <2> QED
    BY <2>2, <2>3, <2>4
<1>4. Reads(printed, r, text)
  BY <1>1, <1>3, ReadsOn
<1> HIDE DEF r, lines
<1>5. console.place \in Shell /\ console.asleep = 0
  BY <1>2 DEF Stands, InShell
<1>6. /\ r.console.place \in Shell /\ r.given = <<>> /\ r.console.asleep = 0
      /\ ~ Has(r.says, {"Re-enter New Password:"})
  BY <1>3, <1>5 DEF Leaves, Speaks, Moves
<1>7. r.console.place # "enable"
  BY <1>3, <1>5 DEF Leaves, Knocks, Keys, Shell
<1>8. TypeInv' /\ Unread' /\ early <= early' /\ (early' = 0 => early = 0 /\ text = r.says)
  BY <1>2, <1>4, <1>6, StepTyped DEF Reads, Unread, TypeInv
<1>9. Tried' /\ Stands'
  BY <1>2, <1>4, <1>6, <1>7, <1>8 DEF Reads, Tried, Stands, None, One, Two, InShell, ConnectedIsLoggedIn, Shell
<1>10. Bootstrap'
  BY <1>2, <1>8 DEF Bootstrap
<1> QED
  BY <1>8, <1>9, <1>10

\* Policy: nothing is typed.
LEMMA PolicyStep == ASSUME IInv, Policy PROVE IInv'
<1> DEFINE r == TypeAll(console, <<>>)
<1> USE DEF IInv, Knocking, LoggedIn, Steps
<1>1. PICK text \in Texts(<<>>) :
        /\ Exchange(<<>>, text)
        /\ Goto(IF is_forced_password_change_prompt(text) THEN "new_password" ELSE "privilege")
  BY DEF Policy
<1>2. pc = "policy" /\ pc' \in {"new_password", "privilege"}
      /\ UNCHANGED <<vendor, compliant, password, attempt, factory>>
  BY <1>1 DEF Policy, Goto
<1>3. IsConsole(console)
  BY DEF TypeInv
<1>4. r = Nothing(console)
  <2>1. PICK typed :
          /\ typed[0] = Nothing(console)
          /\ r = typed[Len(<<>>)]
    <3>1. Len(<<>>) \in Nat
      OBVIOUS
    <3> QED
      BY <3>1, TypeUnfolds, Zenon
  <2> HIDE DEF r
  <2>2. Len(<<>>) = 0
    OBVIOUS
  <2> QED
    BY <2>1, <2>2, Zenon
<1>5. Leaves(console, {}, r)
  BY <1>3, <1>4, NothingLeaves, Zenon
<1>6. Reads(printed, r, text)
  BY <1>1, <1>5, ReadsOn
<1> HIDE DEF r
<1>7. r.console = console /\ r.given = <<>> /\ r.says = <<>>
  BY <1>4 DEF Nothing
<1>8. ~ Has(r.says, {"Re-enter New Password:"})
  BY <1>7, NoWords
<1>9. TypeInv' /\ Unread' /\ early <= early' /\ (early' = 0 => early = 0 /\ text = r.says)
  BY <1>2, <1>6, <1>8, StepTyped DEF Reads, Unread, TypeInv
<1>10. console' = console /\ tries' = tries
  BY <1>6, <1>7, Zenon DEF Reads
<1>11. Tried' /\ Stands'
  BY <1>2, <1>9, <1>10 DEF Tried, Stands, None, One, Two, InShell, ConnectedIsLoggedIn, Shell
<1>12. Bootstrap'
  BY <1>2, <1>9 DEF Bootstrap
<1> QED
  BY <1>9, <1>11, <1>12

\* Decline: the dialog is left for a login prompt.
LEMMA DeclineStep == ASSUME IInv, Decline PROVE IInv'
<1> DEFINE r == TypeAll(console, <<"no">>)
<1> USE DEF IInv, Knocking, LoggedIn, Steps
<1>1. PICK text \in Texts(<<"no">>) :
        /\ Exchange(<<"no">>, text)
        /\ CASE AtLogin(text) -> Goto("credentials")
             [] ~ AtLogin(text) /\ AtPrompt(text) -> Goto("privilege")
             [] OTHER -> Recovering(1)
  BY DEF Decline
<1>2. /\ pc = "decline" /\ UNCHANGED <<vendor, compliant, password, factory>>
      /\ \/ pc' = "credentials" /\ attempt' = attempt
         \/ pc' = "privilege" /\ attempt' = attempt /\ AtPrompt(text)
         \/ pc' = "recover" /\ attempt' = 1
  BY <1>1 DEF Decline, Goto, Recovering
<1>3. console.place = "dialog" /\ console.asleep = 0 /\ IsConsole(console) /\ "no" \in Lines
  BY <1>2 DEF Stands, TypeInv, Lines
<1>4. Leaves(console, {"no"}, r) /\ r.console = Type(console, "no").console
      /\ r.given = Type(console, "no").given
  BY <1>3, TypeOne
<1>5. Reads(printed, r, text)
  BY <1>1, <1>4, ReadsOn
<1>6. r.console.place = "login" /\ r.given = <<>> /\ r.console.asleep = 0
  <2> DEFINE t == Type(console, "no")
  <2>1. Turns(console, "no", t.console.place) /\ t.given = <<>> /\ t.console.asleep = 0
    BY <1>3, Walking
  <2> HIDE DEF t
  <2>2. t.console.place = "login"
    BY <1>3, <2>1 DEF Turns
  <2> QED
    BY <1>4, <2>1, <2>2 DEF t
<1> HIDE DEF r
<1>7. ~ Has(r.says, {"Re-enter New Password:"})
  BY <1>4 DEF Leaves, Speaks
<1>8. TypeInv' /\ Unread' /\ early <= early' /\ (early' = 0 => early = 0 /\ text = r.says)
  <2>1. /\ UNCHANGED <<vendor, compliant, factory>> /\ pc' \in Steps
        /\ password' \in {"configured", "blank"} /\ attempt' \in Nat
    BY <1>2 DEF TypeInv
  <2>2. ~ Has(printed', {"Re-enter New Password:"})
    BY <1>2, <1>5, <1>7 DEF Reads, Unread
  <2>3. TypeInv /\ (early = 0 => printed = <<>>)
    BY DEF Unread
  <2> QED
    BY <1>5, <2>1, <2>2, <2>3, StepTyped, Zenon
<1>9. pc' # "privilege"
  BY <1>2, <1>5, <1>6 DEF AtPrompt, Reads, Tells, Shell
<1>10. Tried' /\ Stands'
  BY <1>2, <1>3, <1>5, <1>6, <1>8, <1>9 DEF Reads, Tried, Stands, None, One, Two, InShell, ConnectedIsLoggedIn, Shell
<1>11. Bootstrap'
  BY <1>2, <1>3, <1>8 DEF Bootstrap, IsConsole
<1> QED
  BY <1>8, <1>10, <1>11

\* enter_privileged_mode: an empty line, and what it shows last.
LEMMA PrivilegeStep == ASSUME IInv, enter_privileged_mode PROVE IInv'
<1> DEFINE r == TypeAll(console, <<"enter">>)
           t == Type(console, "enter")
<1> USE DEF IInv, Knocking, LoggedIn, Steps
<1>1. PICK text \in Texts(<<"enter">>) :
        /\ Exchange(<<"enter">>, text)
        /\ Goto(IF text # <<>> /\ Last(text) = ">" THEN "enable" ELSE "verify")
  BY DEF enter_privileged_mode
<1>2. /\ pc = "privilege" /\ UNCHANGED <<vendor, compliant, password, attempt, factory>>
      /\ pc' = IF text # <<>> /\ Last(text) = ">" THEN "enable" ELSE "verify"
  BY <1>1 DEF enter_privileged_mode, Goto
<1>3. /\ IsConsole(console) /\ "enter" \in Lines /\ console.asleep = 0
      /\ console.place \in {"login", "new"} \cup Shell
  BY <1>2 DEF Stands, TypeInv, Lines, Keys, Shell
<1>4. Leaves(console, {"enter"}, r) /\ r.console = t.console /\ r.says = t.says
  BY <1>3, TypeOne, Zenon
<1>5. Reads(printed, r, text)
  BY <1>1, <1>4, ReadsOn
<1>6. /\ Turns(console, "enter", t.console.place) /\ t.console.place \in Prompting
      /\ t.console.password = console.password /\ t.console.forced = console.forced
      /\ \A W : Has(t.says, W) =>
           Sign(t.console.place) \cap W # {} \/ (t.console.place = "new" /\ Remarks \cap W # {})
  <2>1. console.place # "password" /\ console.place # "confirm" /\ console.place # "expired"
    BY <1>3 DEF Shell
  <2> QED
    BY <1>3, <2>1, Walking, Zenon
<1> HIDE DEF r, t
<1>7. /\ r.console.place \in {"login", "new"} \cup Shell /\ r.given = <<>> /\ r.console.asleep = 0
      /\ ~ Has(r.says, {"Re-enter New Password:"}) /\ r.console.place # "enable"
      /\ console.place \in Shell => r.console.place \in Shell
      /\ r.console.place = "new" => console.place = "new"
  BY <1>3, <1>4 DEF Leaves, Speaks, Moves, Knocks, Keys, Shell
<1>8. TypeInv' /\ Unread' /\ early <= early' /\ (early' = 0 => early = 0 /\ text = r.says)
  <2>1. /\ UNCHANGED <<vendor, compliant, factory>> /\ pc' \in Steps
        /\ password' \in {"configured", "blank"} /\ attempt' \in Nat
    BY <1>2 DEF TypeInv
  <2>2. ~ Has(printed', {"Re-enter New Password:"})
    BY <1>2, <1>5, <1>7 DEF Reads, Unread
  <2>3. TypeInv /\ (early = 0 => printed = <<>>)
    BY DEF Unread
  <2> QED
    BY <1>5, <2>1, <2>2, <2>3, StepTyped, Zenon
<1>9. console' = r.console /\ tries' = tries
  BY <1>5, <1>7 DEF Reads
<1>10. pc' = "enable" => Has(text, {">"})
  <2> SUFFICES ASSUME text # <<>>, Last(text) = ">" PROVE Has(text, {">"})
    BY <1>2
  <2>1. text \in Seq(Words)
    BY <1>5 DEF Reads
  <2>2. Len(text) \in DOMAIN text
    BY <2>1
  <2> QED
    BY <2>2 DEF Has, Last
<1>11. pc' = "enable" => console'.place \in Shell
  <2>1. Has(text, {">"}) => Has(text, {"#", ">"})
    BY HasMore
  <2> QED
    BY <1>5, <1>10, <2>1 DEF Reads, Tells
<1>12. Tried' /\ Stands'
  <2>1. /\ console'.place \in {"login", "new"} \cup Shell /\ console'.asleep = 0 /\ console'.place # "enable"
        /\ console.place \in Shell => console'.place \in Shell
        /\ console'.place = "new" => console.place = "new"
    BY <1>7, <1>9
  <2>4. pc = "privilege" /\ pc' \in {"enable", "verify"} /\ vendor' = vendor /\ password' = password
    BY <1>2
  <2>5. early' = 0 => early = 0
    BY <1>8
  <2>2. Tried'
    BY <1>9, <2>1, <2>4 DEF Tried, None, One, Two, InShell
  <2>3. Stands'
    BY <1>11, <2>1, <2>4, <2>5 DEF Stands, InShell, ConnectedIsLoggedIn, Shell
  <2> QED
    BY <2>2, <2>3
<1>13. Bootstrap'
  <2> SUFFICES ASSUME factory, compliant, early' = 0 PROVE Bootstrap'
    BY <1>2 DEF Bootstrap
  <2>1. /\ early = 0 /\ text = t.says /\ vendor = "Fortiswitch"
        /\ \/ Blank /\ console.place = "login" /\ password = "configured"
           \/ console.place = "exec" /\ console.password = "configured"
    BY <1>2, <1>4, <1>8 DEF Bootstrap
  <2>2. t.console.place = console.place
    BY <1>6, <2>1 DEF Turns, Keys
  <2>3. ~ Has(t.says, {">"})
    <3>1. Sign("login") \cap {">"} = {} /\ Sign("exec") \cap {">"} = {}
      BY DEF Sign
    <3> QED
      BY <1>6, <2>1, <2>2, <3>1
  <2>4. pc' = "verify"
    BY <1>2, <1>10, <2>1, <2>3
  <2> QED
    BY <1>2, <1>4, <1>6, <1>9, <2>1, <2>2, <2>4 DEF Bootstrap, Blank
<1> QED
  BY <1>8, <1>12, <1>13

\* new_password: the configured password as the new one.
LEMMA NewPasswordStep == ASSUME IInv, maybe_complete_forced_password_change PROVE IInv'
<1> USE DEF IInv, Knocking, LoggedIn, Steps
<1>0. pc = "new_password"
  BY DEF maybe_complete_forced_password_change
<1>3. ASSUME NEW why, why # "not authenticated", Fails(why)
      PROVE  pc' = "failed" /\ UNCHANGED <<vendor, compliant, password, attempt, factory>>
  BY <1>3 DEF Fails, Goto
<1>1. CASE ~ compliant
  <2>1. pc' = "failed" /\ UNCHANGED <<vendor, compliant, password, attempt, factory, console, printed, tries, early>>
    BY <1>1, <1>3 DEF maybe_complete_forced_password_change
  <2>2. TypeInv'
    BY <2>1, Later DEF TypeInv
  <2>3. Unread'
    BY <2>1, Later DEF Unread
  <2>4. Tried' /\ Stands' /\ Bootstrap'
    BY <1>0, <1>1, <2>1 DEF Tried, Stands, Bootstrap, None, One, Two, ConnectedIsLoggedIn
  <2> QED
    BY <2>2, <2>3, <2>4
<1>2. CASE compliant
  <2> DEFINE r == TypeAll(console, <<"configured">>)
             t == Type(console, "configured")
  <2>1. PICK text \in Texts(<<"configured">>) :
          /\ Exchange(<<"configured">>, text)
          /\ IF is_password_confirm_prompt(text) THEN Goto("confirm_password") ELSE Fails("unexpected")
    BY <1>2 DEF maybe_complete_forced_password_change, new_password_if_forced
  <2>2. /\ UNCHANGED <<vendor, compliant, password, attempt, factory>>
        /\ pc' = IF Has(text, {"Re-enter New Password:"}) THEN "confirm_password" ELSE "failed"
    <3>1. CASE Has(text, {"Re-enter New Password:"})
      BY <2>1, <3>1 DEF is_password_confirm_prompt, Goto
    <3>2. CASE ~ Has(text, {"Re-enter New Password:"})
      BY <2>1, <3>2, <1>3 DEF is_password_confirm_prompt
    <3> QED
      BY <3>1, <3>2
  <2>3. /\ IsConsole(console) /\ "configured" \in Lines /\ console.asleep = 0
        /\ console.place \in {"login", "new"} \cup Shell
    BY <1>0 DEF Stands, TypeInv, Lines, Shell
  <2>4. Leaves(console, {"configured"}, r) /\ r.console = t.console /\ r.says = t.says /\ r.given = t.given
    BY <2>3, TypeOne, Zenon
  <2>5. Reads(printed, r, text)
    BY <2>1, <2>4, ReadsOn
  <2>6. /\ Turns(console, "configured", t.console.place) /\ t.console.place \in Prompting
        /\ t.console.asleep = 0 /\ t.given = <<>>
        /\ t.console.place # "new" => t.says = Prompt(t.console.place)
        /\ \A W : Sign(t.console.place) \cap W # {} => Has(t.says, W)
        /\ \A W : Has(t.says, W) =>
             Sign(t.console.place) \cap W # {} \/ (t.console.place = "new" /\ Remarks \cap W # {})
    <3>1. console.place # "password" /\ console.place # "confirm" /\ console.place # "expired"
      BY <2>3 DEF Shell
    <3> QED
      BY <2>3, <3>1, Walking, Zenon
  <2>7. Has(t.says, {"Re-enter New Password:"}) <=> t.console.place = "confirm"
    <3>1. /\ Sign(t.console.place) \cap {"Re-enter New Password:"} # {} <=> t.console.place = "confirm"
          /\ Remarks \cap {"Re-enter New Password:"} = {}
      BY <2>6 DEF Sign, Remarks, Prompting, Shell
    <3> QED
      BY <2>6, <3>1, Zenon
  <2>8. Has(text, {"Re-enter New Password:"}) => t.console.place = "confirm" /\ printed' = <<>>
    <3> SUFFICES ASSUME Has(text, {"Re-enter New Password:"})
                 PROVE  t.console.place = "confirm" /\ printed' = <<>>
      OBVIOUS
    <3>1. ~ Has(printed, {"Re-enter New Password:"})
      BY <1>0 DEF Unread
    <3>2. t.console.place = "confirm"
      BY <2>4, <2>5, <2>7, <3>1 DEF Reads
    <3>3. r.says = <<"Re-enter New Password:">>
      BY <2>4, <2>6, <3>2 DEF Prompt
    <3> DEFINE w == "Re-enter New Password:"
               all == printed \o <<w>>
    <3>4. text = all \/ \A W : Has(text, W) => Has(printed, W)
      <4>1. PICK n \in 0..Len(printed \o r.says) : text = SubSeq(printed \o r.says, 1, n)
        BY <2>1, Zenon DEF Texts
      <4>2. n \in 0..Len(all) /\ text = SubSeq(all, 1, n)
        BY <3>3, <4>1, Zenon
      <4>3. printed \in Seq(Words) /\ w \in Words
        BY DEF TypeInv, Words
      <4> HIDE DEF w
      <4> QED
        BY <4>2, <4>3, LastWord, Zenon
    <3>5. text = printed \o r.says
      BY <3>1, <3>3, <3>4, Zenon
    <3> QED
      BY <2>5, <3>2, <3>5, Zenon DEF Reads
  <2> HIDE DEF r, t
  <2>9. TypeInv' /\ Unread' /\ early <= early' /\ (early' = 0 => early = 0 /\ text = r.says)
    <3>1. /\ UNCHANGED <<vendor, compliant, factory>> /\ pc' \in Steps
          /\ password' \in {"configured", "blank"} /\ attempt' \in Nat
      BY <2>2 DEF TypeInv
    <3>2. Has(printed', {"Re-enter New Password:"}) => pc' \in {"failed", "connected"}
      <4>1. pc' = "failed" \/ printed' = <<>>
        BY <2>2, <2>8
      <4> QED
        BY <4>1, NoWords
    <3>3. TypeInv /\ (early = 0 => printed = <<>>)
      BY DEF Unread
    <3> QED
      BY <2>5, <3>1, <3>2, <3>3, StepTyped, Zenon
  <2>10. console' = t.console /\ tries' = tries
    BY <2>4, <2>5, <2>6 DEF Reads
  <2>11. Tried' /\ Stands'
    <3>1. pc' = "confirm_password" => console'.place = "confirm" /\ printed' = <<>> /\ console'.asleep = 0
      BY <2>2, <2>6, <2>8, <2>10
    <3>2. pc' = "confirm_password" => console.place = "new"
      BY <2>3, <2>6, <2>10, <3>1 DEF Turns, Shell
    <3>3. Tried'
      BY <1>0, <2>2, <2>10, <3>2 DEF Tried, None, One, Two, InShell, Shell
    <3>4. Stands'
      BY <1>0, <2>2, <3>1 DEF Stands, InShell, ConnectedIsLoggedIn
    <3> QED
      BY <3>3, <3>4
  <2>12. Bootstrap'
    <3> SUFFICES ASSUME factory, compliant, early' = 0 PROVE Bootstrap'
      BY <2>2 DEF Bootstrap
    <3>1. early = 0 /\ text = t.says /\ vendor = "Fortiswitch" /\ console.place = "new"
      BY <1>0, <2>4, <2>9 DEF Bootstrap
    <3>2. t.console.place = "confirm"
      BY <1>2, <2>6, <3>1, Zenon DEF Turns
    <3>3. pc' = "confirm_password"
      BY <2>2, <2>7, <3>1, <3>2
    <3> QED
      BY <2>2, <3>1, <3>3 DEF Bootstrap
  <2> QED
    BY <2>9, <2>11, <2>12
<1> QED
  BY <1>1, <1>2

\* confirm_password: it is taken.
LEMMA ConfirmStep == ASSUME IInv, ConfirmPassword PROVE IInv'
<1> DEFINE r == TypeAll(console, <<"configured">>)
           t == Type(console, "configured")
<1> USE DEF IInv, Knocking, LoggedIn, Steps
<1>1. PICK text \in Texts(<<"configured">>) :
        /\ Exchange(<<"configured">>, text)
        /\ IF is_password_change_rejected(text) THEN Fails("rejected") ELSE Goto("privilege")
  BY DEF ConfirmPassword, new_password_if_forced
<1>2. pc = "confirm_password"
  BY DEF ConfirmPassword
<1>3. /\ IsConsole(console) /\ "configured" \in Lines /\ console.asleep = 0
      /\ console.place = "confirm" /\ printed = <<>>
  BY <1>2 DEF Stands, TypeInv, Lines
<1>4. Leaves(console, {"configured"}, r) /\ r.console = t.console /\ r.says = t.says /\ r.given = t.given
  BY <1>3, TypeOne, Zenon
<1>5. Reads(printed, r, text)
  BY <1>1, <1>4, ReadsOn
<1>6. /\ t.console.place = "exec" /\ t.console.asleep = 0 /\ t.console.password = "configured"
      /\ t.given = <<>> /\ t.says = <<"#">>
  BY <1>3, Confirming, Zenon
<1> HIDE DEF r, t
<1>7. \A W : Has(text, W) \/ Has(printed', W) => "#" \in W
  <2>1. "#" \in Words
    BY DEF Words
  <2>2. \A W : Has(t.says, W) <=> "#" \in W
    BY <1>6, <2>1, OneWord
  <2>3. \A W : Has(text, W) \/ Has(printed', W) <=> Has(printed, W) \/ Has(t.says, W)
    BY <1>4, <1>5, Zenon DEF Reads
  <2>4. \A W : ~ Has(printed, W)
    BY <1>3, NoWords
  <2> QED
    BY <2>2, <2>3, <2>4, Zenon
<1>8. pc' = "privilege" /\ UNCHANGED <<vendor, compliant, password, attempt, factory>>
  <2>1. ~ is_password_change_rejected(text)
    <3>1. "#" \notin {"doesn't match", "doesn't conform"}
      OBVIOUS
    <3> QED
      BY <1>7, <3>1, Zenon DEF is_password_change_rejected
  <2> QED
    BY <1>1, <2>1 DEF Goto
<1>9. TypeInv' /\ Unread' /\ early <= early' /\ (early' = 0 => early = 0 /\ text = r.says)
  <2>1. /\ UNCHANGED <<vendor, compliant, factory>> /\ pc' \in Steps
        /\ password' \in {"configured", "blank"} /\ attempt' \in Nat
    BY <1>8 DEF TypeInv
  <2>2. ~ Has(printed', {"Re-enter New Password:"})
    <3>1. "#" \notin {"Re-enter New Password:"}
      OBVIOUS
    <3> QED
      BY <1>7, <3>1, Zenon
  <2>3. TypeInv /\ (early = 0 => printed = <<>>)
    BY DEF Unread
  <2> QED
    BY <1>5, <2>1, <2>2, <2>3, StepTyped, Zenon
<1>10. console' = t.console /\ tries' = tries
  BY <1>4, <1>5, <1>6 DEF Reads
<1>11. Tried' /\ Stands'
  BY <1>2, <1>3, <1>6, <1>8, <1>10 DEF Tried, Stands, None, One, Two, InShell, ConnectedIsLoggedIn, Shell
<1>12. Bootstrap'
  BY <1>2, <1>6, <1>8, <1>9, <1>10 DEF Bootstrap
<1> QED
  BY <1>9, <1>11, <1>12

\* verify_connectivity: a console that shows no prompt is not taken for logged
\* in, unless a read before it was early.
LEMMA VerifyStep == ASSUME IInv, verify_connectivity PROVE IInv'
<1> DEFINE r == TypeAll(console, <<"enter">>)
           t == Type(console, "enter")
<1> USE DEF IInv, Knocking, LoggedIn, Steps
<1>1. PICK text \in Texts(<<"enter">>) :
        /\ Exchange(<<"enter">>, text)
        /\ CASE text = <<>> -> Fails("silent")
             [] NotAuthenticated(text) -> Fails("not authenticated")
             [] OTHER -> Goto("setup")
  BY DEF verify_connectivity
<1>2. pc = "verify"
  BY DEF verify_connectivity
<1>3. /\ UNCHANGED <<vendor, compliant, attempt, factory>>
      /\ \/ pc' = "failed" /\ password' = password /\ (text = <<>> \/ NotAuthenticated(text))
            /\ (text = <<>> \/ ~ (vendor = "Fortiswitch" /\ password = "configured"))
         \/ pc' = "login_inner" /\ password' = "blank" /\ vendor = "Fortiswitch" /\ password = "configured"
            /\ NotAuthenticated(text)
         \/ pc' = "setup" /\ password' = password /\ text # <<>> /\ ~ NotAuthenticated(text)
  <2>1. CASE text = <<>>
    <3>1. Fails("silent")
      <4>1. NotAuthenticated(text) = FALSE
        BY <2>1, NoWords, Zenon DEF NotAuthenticated
      <4> QED
        BY <1>1, <2>1, <4>1, Zenon
    <3>2. pc' = "failed" /\ UNCHANGED <<vendor, compliant, password, attempt, factory>>
      BY <3>1 DEF Fails, Goto
    <3> QED
      BY <2>1, <3>2
  <2>2. CASE text # <<>> /\ NotAuthenticated(text)
    <3>1. Fails("not authenticated")
      <4>1. NotAuthenticated(text) = TRUE
        BY <2>2 DEF NotAuthenticated
      <4> QED
        BY <1>1, <2>2, <4>1, Zenon
    <3>2. \/ pc' = "failed" /\ UNCHANGED <<vendor, compliant, password, attempt, factory>>
             /\ ~ (vendor = "Fortiswitch" /\ password = "configured")
          \/ pc' = "login_inner" /\ password' = "blank" /\ vendor = "Fortiswitch" /\ password = "configured"
             /\ UNCHANGED <<vendor, compliant, attempt, factory>>
      BY <3>1 DEF Fails, Goto
    <3> QED
      BY <2>2, <3>2
  <2>3. CASE text # <<>> /\ ~ NotAuthenticated(text)
    <3>1. Goto("setup")
      BY <1>1, <2>3, Zenon
    <3> QED
      BY <2>3, <3>1 DEF Goto
  <2> QED
    BY <2>1, <2>2, <2>3, Zenon
<1>4. /\ IsConsole(console) /\ "enter" \in Lines /\ console.asleep = 0
      /\ console.place \in {"login", "new"} \cup Shell
  BY <1>2 DEF Stands, TypeInv, Lines, Keys, Shell
<1>5. Leaves(console, {"enter"}, r) /\ r.console = t.console /\ r.says = t.says
  BY <1>4, TypeOne, Zenon
<1>6. Reads(printed, r, text)
  BY <1>1, <1>5, ReadsOn
<1>7. /\ Turns(console, "enter", t.console.place) /\ t.console.place \in Prompting
      /\ t.console.password = console.password /\ t.console.forced = console.forced
      /\ t.console.place # "new" => t.says = Prompt(t.console.place)
      /\ \A W : Sign(t.console.place) \cap W # {} => Has(t.says, W)
  <2>1. console.place # "password" /\ console.place # "confirm" /\ console.place # "expired"
    BY <1>4 DEF Shell
  <2> QED
    BY <1>4, <2>1, Walking, Zenon
<1> HIDE DEF r, t
<1>8. /\ r.console.place \in {"login", "new"} \cup Shell /\ r.given = <<>> /\ r.console.asleep = 0
      /\ ~ Has(r.says, {"Re-enter New Password:"}) /\ r.console.place # "enable"
      /\ console.place \in Shell => r.console.place \in Shell
      /\ r.console.place = "new" => console.place = "new"
  BY <1>4, <1>5 DEF Leaves, Speaks, Moves, Knocks, Keys, Shell
<1>9. TypeInv' /\ Unread' /\ early <= early' /\ (early' = 0 => early = 0 /\ text = r.says)
  <2>1. /\ UNCHANGED <<vendor, compliant, factory>> /\ pc' \in Steps
        /\ password' \in {"configured", "blank"} /\ attempt' \in Nat
    BY <1>3 DEF TypeInv
  <2>2. ~ Has(printed', {"Re-enter New Password:"})
    BY <1>2, <1>6, <1>8 DEF Reads, Unread
  <2>3. TypeInv /\ (early = 0 => printed = <<>>)
    BY DEF Unread
  <2> QED
    BY <1>6, <2>1, <2>2, <2>3, StepTyped, Zenon
<1>10. console' = r.console /\ tries' = tries
  BY <1>6, <1>8 DEF Reads
<1>11. ASSUME t.console.place \in {"login", "new"}, \A W : Has(t.says, W) => Has(text, W)
      PROVE  NotAuthenticated(text)
  <2> DEFINE W == {"login:", "Password:", "New Password:", "Re-enter New Password:"}
  <2>1. Has(text, W)
    <3>1. Sign(t.console.place) \cap W # {}
      BY <1>11 DEF Sign
    <3> QED
      BY <1>7, <1>11, <3>1, Zenon
  <2>2. ~ AtPrompt(text)
    BY <1>5, <1>6, <1>11 DEF AtPrompt, Reads, Tells, Shell
  <2> QED
    BY <2>1, <2>2, Zenon DEF NotAuthenticated
<1>12. ASSUME pc' = "setup", early' <= 1 PROVE r.console.place \in Shell
  <2> SUFFICES ASSUME r.console.place \in {"login", "new"} PROVE FALSE
    BY <1>8
  <2>1. text # <<>> /\ ~ NotAuthenticated(text) /\ text \in Seq(Words)
    BY <1>3, <1>6, <1>12 DEF Reads
  <2>2. text # printed \o r.says
    <3> SUFFICES ASSUME text = printed \o r.says PROVE FALSE
      OBVIOUS
    <3>1. printed' = <<>>
      BY <1>6, Zenon DEF Reads
    <3>2. \A W : Has(t.says, W) => Has(text, W)
      BY <1>5, <1>6, <3>1, NoWords, Zenon DEF Reads
    <3> QED
      BY <1>5, <1>11, <2>1, <3>2, Zenon
  <2>3. early = 0
    <3>1. early' = early + 1 /\ early \in Nat
      BY <1>6, <2>2, Zenon DEF Reads, TypeInv
    <3> QED
      BY <1>12, <3>1, OneMore, Zenon
  <2>4. printed = <<>> /\ r.console.place = "login"
    BY <1>2, <1>8, <2>3 DEF Unread, Stands
  <2>5. t.says = <<"login:">>
    BY <1>5, <1>7, <2>4 DEF Prompt
  <2> DEFINE w == "login:"
             none == <<>>
             all == none \o <<w>>
  <2>6. text = all \/ \A W : Has(text, W) => Has(none, W)
    <3>1. PICK n \in 0..Len(printed \o r.says) : text = SubSeq(printed \o r.says, 1, n)
      BY <1>1, Zenon DEF Texts, r
    <3>2. n \in 0..Len(all) /\ text = SubSeq(all, 1, n)
      BY <1>5, <2>4, <2>5, <3>1, Zenon
    <3>3. none \in Seq(Words) /\ w \in Words
      BY DEF Words
    <3> HIDE DEF w, none
    <3> QED
      BY <3>2, <3>3, LastWord, Zenon
  <2>7. text # all
    BY <1>5, <2>2, <2>4, <2>5, Zenon
  <2>8. \A W : ~ Has(text, W)
    BY <2>6, <2>7, NoWords, Zenon
  <2>9. 1 \in DOMAIN text
    BY <2>1
  <2>10. Has(text, {text[1]})
    BY <2>9 DEF Has
  <2> QED
    BY <2>8, <2>10, Zenon
<1>13. Tried' /\ Stands'
  <2>1. /\ console'.place \in {"login", "new"} \cup Shell /\ console'.asleep = 0 /\ console'.place # "enable"
        /\ console.place \in Shell => console'.place \in Shell
        /\ console'.place = "new" => console.place = "new"
        /\ pc' = "setup" /\ early' <= 1 => console'.place \in Shell
    BY <1>8, <1>10, <1>12
  <2>2. /\ pc = "verify" /\ vendor' = vendor
        /\ \/ pc' \in {"failed", "setup"} /\ password' = password
           \/ pc' = "login_inner" /\ password' = "blank" /\ vendor = "Fortiswitch" /\ password = "configured"
    BY <1>2, <1>3
  <2>3. Tried'
    BY <1>10, <2>1, <2>2 DEF Tried, None, One, Two, InShell
  <2>4. Stands'
    BY <2>1, <2>2 DEF Stands, InShell, ConnectedIsLoggedIn, Shell
  <2> QED
    BY <2>3, <2>4
<1>14. Bootstrap'
  <2> SUFFICES ASSUME factory, compliant, early' = 0 PROVE Bootstrap'
    BY <1>3 DEF Bootstrap
  <2>1. /\ early = 0 /\ text = t.says /\ vendor = "Fortiswitch"
        /\ \/ Blank /\ console.place = "login" /\ password = "configured"
           \/ console.place = "exec" /\ console.password = "configured"
    BY <1>2, <1>5, <1>9 DEF Bootstrap
  <2>2. t.console.place = console.place
    BY <1>7, <2>1 DEF Turns, Keys
  <2>3. CASE Blank /\ console.place = "login" /\ password = "configured"
    <3>1. NotAuthenticated(text)
      BY <1>11, <2>1, <2>2, <2>3
    <3>2. text # <<>>
      <4>1. Has(text, {"login:", "Password:", "New Password:", "Re-enter New Password:"})
        BY <3>1, Zenon DEF NotAuthenticated
      <4> QED
        BY <4>1, NoWords
    <3>3. pc' = "login_inner" /\ password' = "blank"
      BY <1>3, <2>1, <2>3, <3>1, <3>2
    <3> QED
      BY <1>3, <1>5, <1>7, <1>8, <1>10, <2>1, <2>2, <2>3, <3>3 DEF Bootstrap, Blank
  <2>4. CASE console.place = "exec" /\ console.password = "configured"
    <3>1. Has(text, {"#"})
      <4>1. Sign("exec") \cap {"#"} # {}
        BY DEF Sign
      <4> QED
        BY <1>7, <2>1, <2>2, <2>4, <4>1, Zenon
    <3>2. text # <<>> /\ ~ NotAuthenticated(text)
      <4>1. Has(text, {"#", ">"})
        BY <3>1, HasMore
      <4> QED
        BY <4>1, NoWords, Zenon DEF NotAuthenticated, AtPrompt
    <3>3. pc' = "setup"
      BY <1>3, <3>2
    <3>4. console'.password = "configured" /\ console'.place = "exec"
      BY <1>5, <1>7, <1>10, <2>2, <2>4
    <3> QED
      BY <1>3, <2>1, <3>3, <3>4 DEF Bootstrap, InShell, Shell
  <2> QED
    BY <2>1, <2>3, <2>4
<1> QED
  BY <1>9, <1>13, <1>14

\* The set-up: in a shell it stays in the shell.
LEMMA SetupStep ==
  ASSUME IInv, NEW v, NEW lines \in Seq(Lines), Setup(v, lines),
         NEW w, w = TypeAll(console, lines).console.place,
         console.place \in Shell => \/ w \in {"exec", "config"}
                                    \/ w = "user" /\ vendor = "Cisco"
  PROVE  IInv'
<1> DEFINE r == TypeAll(console, lines)
           L == {lines[i] : i \in 1..Len(lines)}
<1> USE DEF IInv, Knocking, LoggedIn, Steps
<1>1. PICK text \in Texts(lines) : Exchange(lines, text)
  BY DEF Setup
<1>2. pc = "setup" /\ pc' = "connected" /\ UNCHANGED <<vendor, compliant, password, attempt, factory>>
  BY DEF Setup, Goto
<1>3. IsConsole(console) /\ console.asleep = 0
  BY <1>2 DEF Stands, TypeInv
<1>4. Leaves(console, L, r)
  BY <1>3, TypeAllLeaves, Zenon
<1> HIDE DEF L
<1>5. Reads(printed, r, text)
  BY <1>1, <1>4, ReadsOn
<1>13. r.console.place = w
  OBVIOUS
<1> HIDE DEF r
<1>6. TypeInv' /\ Unread' /\ early <= early' /\ (early' = 0 => early = 0 /\ text = r.says)
  <2>1. /\ UNCHANGED <<vendor, compliant, factory>> /\ pc' \in Steps
        /\ password' \in {"configured", "blank"} /\ attempt' \in Nat
    BY <1>2 DEF TypeInv
  <2>3. TypeInv /\ (early = 0 => printed = <<>>)
    BY DEF Unread
  <2> QED
    BY <1>2, <1>5, <2>1, <2>3, StepTyped, Zenon
<1>7. ASSUME early' <= 1 PROVE early <= 1
  <2>1. early \in Nat /\ early' \in Nat
    BY <1>6 DEF TypeInv
  <2> QED
    BY <1>6, <1>7, <2>1
<1>8. early' <= 1 => console.place \in Shell
  BY <1>2, <1>7 DEF Stands, InShell
<1>9. console.place \in Shell => /\ r.given = <<>> /\ r.console.password = console.password
                                 /\ r.console.place \in Shell
  BY <1>4 DEF Leaves, Moves
<1>10. console.place \in Shell => console' = r.console /\ tries' = tries
  BY <1>5, <1>9 DEF Reads
<1>11. Tried' /\ Stands'
  <2>1. Tried'
    BY <1>2, <1>8, <1>10 DEF Tried, None, One, Two, InShell
  <2>2. Stands'
    BY <1>2, <1>8, <1>10, <1>13 DEF Stands, ConnectedIsLoggedIn, InShell
  <2> QED
    BY <2>1, <2>2
<1>12. Bootstrap'
  <2> SUFFICES ASSUME factory, compliant, early' = 0 PROVE Bootstrap'
    BY <1>2 DEF Bootstrap
  <2>1. vendor = "Fortiswitch" /\ console.password = "configured" /\ console.place \in Shell
    BY <1>2, <1>6 DEF Bootstrap, InShell
  <2> QED
    BY <1>2, <1>9, <1>10, <2>1 DEF Bootstrap
<1> QED
  BY <1>6, <1>11, <1>12

LEMMA CiscoStep == ASSUME IInv, cisco_connect PROVE IInv'
<1> DEFINE lines == <<"page">>
           w == TypeAll(console, lines).console.place
<1>1. lines \in Seq(Lines) /\ "page" \in Lines
  BY DEF Lines
<1>2. Setup("Cisco", lines)
  BY DEF cisco_connect
<1>3. /\ IsConsole(console) /\ console.asleep = 0 /\ console.place # "enable" /\ vendor = "Cisco"
  BY <1>2 DEF IInv, Stands, TypeInv, Setup, LoggedIn
<1>4. Leaves(console, {"page"}, TypeAll(console, lines))
  BY <1>1, <1>3, TypeOne, Zenon
<1>5. console.place \in Shell => w \in {"exec", "config"} \/ (w = "user" /\ vendor = "Cisco")
  <2> DEFINE r == TypeAll(console, lines)
  <2> HIDE DEF r
  <2>1. console.place \in Shell => r.console.place \in Shell \ {"enable", "pager"}
    BY <1>3, <1>4 DEF Leaves, Moves, r
  <2> QED
    BY <1>3, <2>1 DEF Shell, r
<1> HIDE DEF lines
<1> QED
  BY <1>1, <1>2, <1>5, SetupStep

LEMMA FortiStep == ASSUME IInv, forti_connect PROVE IInv'
<1> DEFINE lines == <<"end", "end", "console", "output", "end">>
           w == TypeAll(console, lines).console.place
<1>1. lines \in Seq(Lines) /\ Len(lines) = 5 /\ lines[1] = "end"
  BY DEF Lines
<1>2. Setup("Fortiswitch", lines)
  BY DEF forti_connect
<1>3. /\ IsConsole(console) /\ console.asleep = 0 /\ vendor = "Fortiswitch"
  BY <1>2 DEF IInv, Stands, TypeInv, Setup, LoggedIn
<1> DEFINE L == {lines[i] : i \in 1..Len(lines)}
<1>4. Leaves(console, L, TypeAll(console, lines)) /\ "end" \in L
  <2>1. Leaves(console, L, TypeAll(console, lines))
    BY <1>1, <1>3, TypeAllLeaves, Zenon
  <2> HIDE DEF lines
  <2>2. 1 \in 1..Len(lines)
    BY <1>1
  <2>3. "end" \in L
    BY <1>1, <2>2
  <2> QED
    BY <2>1, <2>3
<1> HIDE DEF L
<1>5. console.place \in Shell => w \in {"exec", "config"} \/ (w = "user" /\ vendor = "Cisco")
  <2> DEFINE r == TypeAll(console, lines)
  <2>0. w = r.console.place
    OBVIOUS
  <2> HIDE DEF r, w
  <2>1. console.place \in Shell => r.console.place \in Shell \ {"user", "enable", "pager"}
    BY <1>3, <1>4 DEF Leaves, Moves, r, IsConsole, IsResult
  <2>2. console.place \in Shell => r.console.place \in {"exec", "config"}
    BY <2>1 DEF Shell
  <2> QED
    BY <2>0, <2>2
<1> HIDE DEF lines
<1> QED
  BY <1>1, <1>2, <1>5, SetupStep

LEMMA ArubaStep == ASSUME IInv, aruba_connect PROVE IInv'
<1> DEFINE s == Type(console, "enable")
           t == Type(s.console, "configured")
           u == Type(t.console, "page")
<1>0. "enable" \in Lines /\ "configured" \in Lines /\ "page" \in Lines
  BY DEF Lines
<1>1. /\ pc = "setup" /\ IsConsole(console) /\ console.asleep = 0 /\ vendor = "Aruba"
      /\ console.place # "enable" /\ console.place # "confirm"
      /\ console.place \in {"login", "new"} \cup Shell
  BY DEF IInv, Stands, TypeInv, Setup, LoggedIn, Shell, aruba_connect
<1>2. /\ Turns(console, "enable", s.console.place) /\ s.console.place \in Prompting
      /\ s.console.asleep = 0 /\ IsConsole(s.console)
  <2>1. console.place # "password"
    BY <1>1 DEF Shell
  <2> QED
    BY <1>0, <1>1, <2>1, Walking, Zenon
<1>3. CASE s.console.place = "enable"
  <2> DEFINE lines == <<"enable", "configured", "page">>
             w == TypeAll(console, lines).console.place
  <2>1. lines \in Seq(Lines) /\ Len(lines) = 3 /\ lines[1] = "enable" /\ lines[2] = "configured" /\ lines[3] = "page"
    BY <1>0
  <2>2. Setup("Aruba", lines)
    BY <1>3, Zenon DEF aruba_connect
  <2> HIDE DEF s
  <2>3. t.console.place = "exec" /\ t.console.asleep = 0 /\ IsConsole(t.console)
    <3>1. /\ Turns(s.console, "configured", t.console.place)
          /\ t.console.asleep = 0 /\ IsConsole(t.console)
      <4>1. s.console.place # "password" /\ s.console.place # "confirm"
        BY <1>3
      <4> QED
        BY <1>0, <1>2, <4>1, Walking, Zenon
    <3> QED
      BY <1>3, <3>1 DEF Turns
  <2> HIDE DEF t
  <2>4. u.console.place = "exec"
    <3>1. Turns(t.console, "page", u.console.place)
      <4>1. t.console.place # "password" /\ t.console.place # "confirm"
        BY <2>3
      <4> QED
        BY <1>0, <2>3, <4>1, Walking, Zenon
    <3> QED
      BY <2>3, <3>1 DEF Turns
  <2> HIDE DEF u, lines
  <2>5. w = u.console.place
    <3>1. PICK typed :
            /\ typed[0] = Nothing(console)
            /\ \A n \in 1..3 : typed[n] = Then(typed[n - 1], Type(typed[n - 1].console, lines[n]))
            /\ TypeAll(console, lines) = typed[3]
      <4>1. Len(lines) \in Nat
        BY <2>1
      <4>2. \E typed :
              /\ typed[0] = Nothing(console)
              /\ \A n \in 1..Len(lines) : typed[n] = Then(typed[n - 1], Type(typed[n - 1].console, lines[n]))
              /\ TypeAll(console, lines) = typed[Len(lines)]
        BY <4>1, TypeUnfolds, Zenon
      <4> QED
        BY <2>1, <4>2
    <3>2. /\ typed[1] = Then(typed[0], Type(typed[0].console, lines[1]))
          /\ typed[2] = Then(typed[1], Type(typed[1].console, lines[2]))
          /\ typed[3] = Then(typed[2], Type(typed[2].console, lines[3]))
      BY <3>1
    <3>3. Nothing(console).console = console
      BY DEF Nothing
    <3>4. IsResult(s) /\ IsResult(t) /\ IsResult(u)
      <4>1. IsResult(s)
        BY <1>0, <1>1, TypeLeaves, Zenon DEF Leaves, s
      <4>2. IsResult(t)
        BY <1>0, <1>2, TypeLeaves, Zenon DEF Leaves, t
      <4>3. IsResult(u)
        BY <1>0, <2>3, TypeLeaves, Zenon DEF Leaves, u
      <4> QED
        BY <4>1, <4>2, <4>3
    <3>5. ASSUME NEW a, NEW b, IsResult(b) PROVE Then(a, b).console = b.console
      BY <3>5 DEF Then, IsResult
    <3>6. typed[1].console = s.console
      <4>1. typed[1] = Then(typed[0], s)
        BY <2>1, <3>1, <3>2, <3>3, Zenon DEF s
      <4> QED
        BY <3>4, <3>5, <4>1, Zenon
    <3>7. typed[2].console = t.console
      <4>1. typed[2] = Then(typed[1], t)
        BY <2>1, <3>2, <3>6, Zenon DEF t
      <4> QED
        BY <3>4, <3>5, <4>1, Zenon
    <3>8. typed[3].console = u.console
      <4>1. typed[3] = Then(typed[2], u)
        BY <2>1, <3>2, <3>7, Zenon DEF u
      <4> QED
        BY <3>4, <3>5, <4>1, Zenon
    <3> QED
      BY <3>1, <3>8, Zenon
  <2> QED
    BY <2>1, <2>2, <2>4, <2>5, SetupStep
<1>4. CASE s.console.place # "enable"
  <2> DEFINE lines == <<"enable", "page">>
             w == TypeAll(console, lines).console.place
  <2>1. lines \in Seq(Lines)
    BY <1>0
  <2>2. Setup("Aruba", lines)
    BY <1>4, Zenon DEF aruba_connect
  <2>3. Leaves(console, {"enable", "page"}, TypeAll(console, lines))
    BY <1>0, <1>1, TypeTwo, Zenon
  <2>4. console.place # "user"
    BY <1>2, <1>4, Zenon DEF Turns
  <2>5. console.place \in Shell => w \in {"exec", "config"} \/ (w = "user" /\ vendor = "Cisco")
    <3> DEFINE r == TypeAll(console, lines)
    <3>0. w = r.console.place
      OBVIOUS
    <3> HIDE DEF r, w
    <3>1. console.place \in Shell => r.console.place \in Shell \ {"user", "enable", "pager"}
      BY <1>1, <2>3, <2>4 DEF Leaves, Moves, r
    <3>2. console.place \in Shell => r.console.place \in {"exec", "config"}
      BY <3>1 DEF Shell
    <3> QED
      BY <3>0, <3>2
  <2> HIDE DEF lines
  <2> QED
    BY <2>1, <2>2, <2>5, SetupStep
<1> QED
  BY <1>3, <1>4

\* One more password given.
LEMMA GiveOne ==
  ASSUME NEW s \in Seq(Try), NEW try \in Try, NEW u, u = s \o <<try>>
  PROVE  /\ None(s) /\ try.given = "configured" => One(u)
         /\ One(s) /\ try.given = "blank" => Two(u)
<1>1. Len(u) = Len(s) + 1 /\ u[Len(s) + 1] = try /\ \A i \in 1..Len(s) : u[i] = s[i]
  OBVIOUS
<1>2. None(s) /\ try.given = "configured" => One(u)
  BY <1>1 DEF None, One
<1>3. One(s) /\ try.given = "blank" => Two(u)
  BY <1>1 DEF One, Two
<1> QED
  BY <1>2, <1>3

\* The user name and then the password, typed to a login prompt.
LEMMA LoggingIn ==
  ASSUME NEW c, IsConsole(c), c.asleep = 0, c.place = "login", NEW word \in {"configured", "blank"}
  PROVE  LET r == TypeAll(c, <<"user", Typed(word)>>)
             q == r.console.place
         IN  /\ q \in {"login", "new", "user", "exec"} /\ r.console.asleep = 0
             /\ q = "login" <=> word # c.password
             /\ q = "new" <=> word = c.password /\ c.forced
             /\ r.console.password = c.password /\ r.console.forced = c.forced
             /\ \E try \in Try : try.given = word /\ r.given = <<try>>
             /\ \A W : Sign(q) \cap W # {} => Has(r.says, W)
             /\ \A W : Has(r.says, W) =>
                  "Password:" \in W \/ Sign(q) \cap W # {} \/ (q = "new" /\ Remarks \cap W # {})
<1> DEFINE line == Typed(word)
           r == TypeAll(c, <<"user", line>>)
           s == Type(c, "user")
           t == Type(s.console, line)
           q == r.console.place
<1>1. "user" \in Lines /\ line \in Lines /\ line # "intr" /\ Given(c, line) = word
  BY DEF Lines, Keys, Typed, Given
<1>9. \A d : Given(d, line) = word
  BY DEF Typed, Given
<1> HIDE DEF line
<1>2. /\ Leaves(c, {"user"}, s) /\ Leaves(s.console, {line}, t)
      /\ r.console = t.console /\ r.says = s.says \o t.says /\ r.given = s.given \o t.given
  BY <1>1, TypeTwo, Zenon
<1>3. /\ Turns(c, "user", s.console.place) /\ s.console.place \in Prompting /\ s.given = <<>>
      /\ s.console.asleep = 0 /\ s.console.password = c.password /\ s.console.forced = c.forced
      /\ IsConsole(s.console)
      /\ c.place # "expired" /\ s.console.place # "new" => s.says = Prompt(s.console.place)
  <2>1. c.place # "password" /\ c.place # "confirm"
    OBVIOUS
  <2> QED
    BY <1>1, <2>1, Walking, Zenon
<1> HIDE DEF s
<1>4. s.console.place = "password" /\ s.says = <<"Password:">>
  <2>1. s.console.place = "password"
    BY <1>3 DEF Turns, Keys
  <2> QED
    BY <1>3, <2>1 DEF Prompt
<1>5. LET p == t.console.place
      IN  /\ p \in {"login", "new", "user", "exec"}
          /\ p = "login" <=> word # c.password
          /\ p = "new" <=> word = c.password /\ c.forced
          /\ t.console.asleep = 0 /\ t.console.password = c.password /\ t.console.forced = c.forced
          /\ t.says \in Seq(Words)
          /\ \E try \in Try : try.given = word /\ t.given = <<try>>
          /\ \A W : Sign(p) \cap W # {} => Has(t.says, W)
          /\ \A W : Has(t.says, W) => Sign(p) \cap W # {} \/ (p = "new" /\ Remarks \cap W # {})
  <2>1. Given(s.console, line) = word
    BY <1>9
  <2>2. IsConsole(s.console) /\ s.console.asleep = 0 /\ s.console.place = "password"
    BY <1>3, <1>4
  <2> DEFINE g == Given(s.console, line)
             p == t.console.place
  <2>3. /\ p \in {"login", "new", "user", "exec"}
        /\ p = "login" <=> g # s.console.password
        /\ p = "new" <=> g = s.console.password /\ s.console.forced
        /\ t.console.asleep = 0 /\ t.console.password = s.console.password
        /\ t.console.forced = s.console.forced
        /\ t.says \in Seq(Words)
        /\ \E try \in Try : try.given = g /\ t.given = <<try>>
        /\ \A W : Sign(p) \cap W # {} => Has(t.says, W)
        /\ \A W : Has(t.says, W) => Sign(p) \cap W # {} \/ (p = "new" /\ Remarks \cap W # {})
    <3> DEFINE d == s.console
    <3>1. IsConsole(d) /\ d.asleep = 0 /\ d.place = "password" /\ line \in Lines /\ line # "intr"
      BY <1>1, <2>2
    <3> HIDE DEF d
    <3>2. LET u == Type(d, line)
              v == u.console.place
          IN  /\ v \in {"login", "new", "user", "exec"}
              /\ v = "login" <=> Given(d, line) # d.password
              /\ v = "new" <=> Given(d, line) = d.password /\ d.forced
              /\ u.console.asleep = 0 /\ u.console.password = d.password /\ u.console.forced = d.forced
              /\ u.says \in Seq(Words)
              /\ \E try \in Try : try.given = Given(d, line) /\ u.given = <<try>>
              /\ \A W : Sign(v) \cap W # {} => Has(u.says, W)
              /\ \A W : Has(u.says, W) => Sign(v) \cap W # {} \/ (v = "new" /\ Remarks \cap W # {})
      BY <3>1, Logging
    <3> QED
      BY <3>2, Zenon DEF d
  <2> HIDE DEF t, g
  <2>4. g = word
    BY <2>1 DEF g
  <2> QED
    BY <1>3, <2>3, <2>4, Zenon
<1> HIDE DEF t, r
<1>6. \E try \in Try : try.given = word /\ r.given = <<try>>
  <2>1. PICK try \in Try : try.given = word /\ t.given = <<try>>
    BY <1>5
  <2>2. <<>> \o <<try>> = <<try>>
    OBVIOUS
  <2> QED
    BY <1>2, <1>3, <2>1, <2>2, Zenon
<1>7. \A W : Has(r.says, W) <=> "Password:" \in W \/ Has(t.says, W)
  <2>1. "Password:" \in Words
    BY DEF Words
  <2> DEFINE a == s.says
             b == t.says
  <2>2. a \in Seq(Words) /\ b \in Seq(Words) /\ \A W : Has(a, W) <=> "Password:" \in W
    BY <1>4, <1>5, <2>1, OneWord
  <2> HIDE DEF a, b
  <2>3. \A W : Has(a \o b, W) <=> Has(a, W) \/ Has(b, W)
    BY <2>2, JoinedWords
  <2>4. r.says = a \o b
    BY <1>2, Zenon DEF a, b
  <2> QED
    BY <2>2, <2>3, <2>4, Zenon DEF b
<1>8. /\ q \in {"login", "new", "user", "exec"} /\ r.console.asleep = 0
      /\ q = "login" <=> word # c.password
      /\ q = "new" <=> word = c.password /\ c.forced
      /\ r.console.password = c.password /\ r.console.forced = c.forced
      /\ \E try \in Try : try.given = word /\ r.given = <<try>>
      /\ \A W : Sign(q) \cap W # {} => Has(r.says, W)
      /\ \A W : Has(r.says, W) =>
           "Password:" \in W \/ Sign(q) \cap W # {} \/ (q = "new" /\ Remarks \cap W # {})
  BY <1>2, <1>5, <1>6, <1>7, Zenon
<1> QED
  BY <1>8, Zenon DEF r, line

\* login: user name and password.
LEMMA CredentialsStep == ASSUME IInv, Credentials PROVE IInv'
<1> DEFINE lines == <<"user", Typed(password)>>
           r == TypeAll(console, lines)
           q == r.console.place
<1> USE DEF IInv, Knocking, LoggedIn, Steps
<1>1. PICK text \in Texts(lines) :
        /\ Exchange(lines, text)
        /\ CASE is_forced_password_change_prompt(text) -> Goto("new_password")
             [] ~ is_forced_password_change_prompt(text) /\ Has(text, {"password policy"}) -> Goto("policy")
             [] OTHER -> Goto("privilege")
  BY DEF Credentials
<1>2. /\ pc = "credentials" /\ UNCHANGED <<vendor, compliant, password, attempt, factory>>
      /\ \/ pc' = "new_password"
         \/ pc' = "policy" /\ ~ is_forced_password_change_prompt(text) /\ Has(text, {"password policy"})
         \/ pc' = "privilege" /\ ~ is_forced_password_change_prompt(text)
  BY <1>1 DEF Credentials, Goto
<1>3. /\ IsConsole(console) /\ console.asleep = 0 /\ console.place \in {"login"} \cup Shell
      /\ "user" \in Lines /\ Typed(password) \in Lines /\ password \in {"configured", "blank"}
  BY <1>2 DEF Stands, TypeInv, Lines, Keys, Typed
<1>4. Leaves(console, {"user", Typed(password)}, r)
  BY <1>3, TypeTwo, Zenon
<1>5. Reads(printed, r, text)
  BY <1>1, <1>4, ReadsOn
<1>6. ASSUME console.place = "login"
      PROVE  /\ q \in {"login", "new", "user", "exec"} /\ r.console.asleep = 0
             /\ q = "login" <=> password # console.password
             /\ q = "new" <=> password = console.password /\ console.forced
             /\ r.console.password = console.password /\ r.console.forced = console.forced
             /\ \E try \in Try : try.given = password /\ r.given = <<try>>
             /\ \A W : Sign(q) \cap W # {} => Has(r.says, W)
             /\ \A W : Has(r.says, W) =>
                  "Password:" \in W \/ Sign(q) \cap W # {} \/ (q = "new" /\ Remarks \cap W # {})
  BY <1>3, <1>6, LoggingIn, Zenon
<1> HIDE DEF r
<1>7. /\ q \in {"login", "new"} \cup Shell /\ r.console.asleep = 0
      /\ console.place \in Shell => q \in Shell /\ r.given = <<>>
      /\ ~ Has(r.says, {"Re-enter New Password:"})
  <2>1. CASE console.place \in Shell
    BY <1>3, <1>4, <2>1 DEF Leaves, Speaks, Moves
  <2>2. CASE console.place = "login"
    <3>1. /\ "Password:" \notin {"Re-enter New Password:"} /\ Remarks \cap {"Re-enter New Password:"} = {}
          /\ q \in {"login", "new", "user", "exec"} => Sign(q) \cap {"Re-enter New Password:"} = {}
      BY DEF Sign, Remarks
    <3>2. ~ Has(r.says, {"Re-enter New Password:"})
      BY <1>6, <2>2, <3>1, Zenon
    <3>3. q \in {"login", "new"} \cup Shell /\ r.console.asleep = 0
      BY <1>6, <2>2 DEF Shell
    <3> QED
      BY <2>2, <3>2, <3>3 DEF Shell
  <2> QED
    BY <1>3, <2>1, <2>2
<1>8. TypeInv' /\ Unread' /\ early <= early' /\ (early' = 0 => early = 0 /\ text = r.says)
  <2>1. /\ UNCHANGED <<vendor, compliant, factory>> /\ pc' \in Steps
        /\ password' \in {"configured", "blank"} /\ attempt' \in Nat
    BY <1>2 DEF TypeInv
  <2>2. ~ Has(printed', {"Re-enter New Password:"})
    BY <1>2, <1>5, <1>7 DEF Reads, Unread
  <2>3. TypeInv /\ (early = 0 => printed = <<>>)
    BY DEF Unread
  <2> QED
    BY <1>5, <2>1, <2>2, <2>3, StepTyped, Zenon
<1>9. Tried'
  <2>1. CASE console.place \in Shell
    <3>1. tries' = tries /\ console'.place \in Shell
      BY <1>5, <1>7, <2>1 DEF Reads
    <3> QED
      BY <1>2, <1>3, <2>1, <3>1 DEF Tried, None, One, Two, InShell
  <2>2. CASE console.place = "login"
    <3>1. PICK try \in Try : try.given = password /\ r.given = <<try>>
      BY <1>6, <2>2
    <3>2. tries' = tries \o <<try>> /\ tries \in Seq(Try)
      BY <1>5, <3>1, Zenon DEF Reads, TypeInv
    <3>3. /\ None(tries) /\ password = "configured" => One(tries')
          /\ One(tries) /\ password = "blank" => Two(tries')
      BY <3>1, <3>2, GiveOne, Zenon
    <3>4. IF password = "configured" THEN None(tries) ELSE One(tries)
      BY <1>2, <1>3, <2>2 DEF Tried, InShell, Shell
    <3> HIDE DEF q
    <3> QED
      BY <1>2, <1>3, <3>3, <3>4 DEF Tried
  <2> QED
    BY <1>3, <2>1, <2>2
<1>10. ASSUME early' = 0, q = "new" PROVE pc' = "new_password"
  <2>1. console.place = "login"
    BY <1>3, <1>7, <1>10 DEF Shell
  <2>2. Has(r.says, {"New Password:", "Re-enter New Password:"})
    <3>1. Sign(q) \cap {"New Password:", "Re-enter New Password:"} # {}
      BY <1>10 DEF Sign
    <3> QED
      BY <1>6, <2>1, <3>1, Zenon
  <2>3. is_forced_password_change_prompt(text)
    BY <1>8, <1>10, <2>2, Zenon DEF is_forced_password_change_prompt
  <2> QED
    BY <1>2, <2>3
<1>11. Stands'
  <2>1. /\ console'.place \in {"login", "new"} \cup Shell /\ console'.asleep = 0
        /\ early' = 0 /\ console'.place = "new" => pc' = "new_password"
    BY <1>5, <1>7, <1>10 DEF Reads
  <2>2. pc' \in {"new_password", "policy", "privilege"}
    BY <1>2
  <2> QED
    BY <2>1, <2>2 DEF Stands, InShell, ConnectedIsLoggedIn, Shell
<1>12. Bootstrap'
  <2> SUFFICES ASSUME factory, compliant, early' = 0 PROVE Bootstrap'
    BY <1>2 DEF Bootstrap
  <2>1. early = 0 /\ text = r.says /\ vendor = "Fortiswitch" /\ Blank
    BY <1>2, <1>8 DEF Bootstrap
  <2>2. console.place = "login"
    BY <1>3, <2>1 DEF Blank, IsConsole
  <2>3. console'.password = "blank" /\ console'.forced /\ console'.place = q
    BY <1>5, <1>6, <2>1, <2>2 DEF Reads, Blank
  <2>4. q = IF password = "blank" THEN "new" ELSE "login"
    BY <1>3, <1>6, <2>1, <2>2 DEF Blank
  <2>5. CASE password = "blank"
    <3>1. pc' = "new_password"
      BY <1>10, <2>4, <2>5
    <3> QED
      BY <1>2, <2>1, <2>3, <2>4, <2>5, <3>1 DEF Bootstrap, Blank
  <2>6. CASE password = "configured"
    <3>1. ~ Has(r.says, {"New Password:", "Re-enter New Password:"}) /\ ~ Has(r.says, {"password policy"})
      <4>1. /\ "Password:" \notin {"New Password:", "Re-enter New Password:"}
            /\ "Password:" \notin {"password policy"}
            /\ Sign("login") \cap {"New Password:", "Re-enter New Password:"} = {}
            /\ Sign("login") \cap {"password policy"} = {}
            /\ q = "login" /\ q # "new"
        BY <2>4, <2>6 DEF Sign
      <4> QED
        BY <1>6, <2>2, <4>1, Zenon
    <3>2. ~ is_forced_password_change_prompt(text) /\ ~ Has(text, {"password policy"})
      BY <2>1, <3>1, Zenon DEF is_forced_password_change_prompt
    <3>3. pc' = "privilege"
      BY <1>1, <3>2 DEF Goto
    <3> QED
      BY <1>2, <2>1, <2>3, <2>4, <2>6, <3>3 DEF Bootstrap, Blank
  <2> QED
    BY <1>3, <2>5, <2>6
<1> QED
  BY <1>8, <1>9, <1>11, <1>12

\* login_inner: what keys the console is woken up with, wherever it is.
LEMMA LoginInnerStep == ASSUME IInv, login_inner PROVE IInv'
<1> DEFINE lines == <<"intr", "enter">>
           r == TypeAll(console, lines)
           s == Type(console, "intr")
           t == Type(s.console, "enter")
           q == r.console.place
<1> USE DEF IInv, Knocking, LoggedIn, Steps
<1>1. PICK text \in Texts(lines) :
        /\ Exchange(lines, text)
        /\ CASE Has(text, {"dialog"}) -> Goto("decline")
             [] ~ Has(text, {"dialog"}) /\ AtLogin(text) -> Goto("credentials")
             [] ~ AtLogin(text) /\ AtPrompt(text) /\ Has(text, {"(config"}) -> Goto("leave_config")
             [] ~ AtLogin(text) /\ AtPrompt(text) /\ ~ Has(text, {"(config"}) -> Goto("privilege")
             [] OTHER -> Recovering(1)
  BY DEF login_inner
<1>2. /\ pc = "login_inner" /\ UNCHANGED <<vendor, compliant, password, factory>>
      /\ \/ pc' = "decline" /\ attempt' = attempt /\ Has(text, {"dialog"})
         \/ pc' = "credentials" /\ attempt' = attempt /\ AtLogin(text)
         \/ pc' \in {"leave_config", "privilege"} /\ attempt' = attempt /\ AtPrompt(text)
         \/ pc' = "recover" /\ attempt' = 1 /\ ~ AtLogin(text)
  BY <1>1 DEF login_inner, Goto, Recovering
<1>3. IsConsole(console) /\ "intr" \in Lines /\ "enter" \in Lines
  BY DEF TypeInv, Lines, Keys
<1>4. /\ Leaves(console, {"intr", "enter"}, r)
      /\ Leaves(console, {"intr"}, s) /\ Leaves(s.console, {"enter"}, t)
      /\ r.console = t.console /\ r.says = s.says \o t.says /\ r.given = s.given \o t.given
  BY <1>3, TypeTwo, Zenon
<1>5. Reads(printed, r, text)
  BY <1>1, <1>4, ReadsOn
<1>6. ASSUME console.place \in {"password", "new"}
      PROVE  s.console.place = "login" /\ s.given = <<>> /\ s.console.asleep = 0
             /\ s.console.password = console.password /\ s.console.forced = console.forced
  <2>0. console.asleep = 0
    BY <1>3, <1>6 DEF IsConsole
  <2>1. Answers(console, s) /\ (Walks(console, "intr", s) \/ Logs(console, "intr", s) \/ Confirms(console, "intr", s))
    BY <1>3, <2>0, Typing, Zenon
  <2> HIDE DEF s
  <2>2. Walks(console, "intr", s)
    BY <2>1 DEF Logs, Confirms
  <2>3. PICK p \in Prompting : Turns(console, "intr", p) /\ s.console = [console EXCEPT !.place = p] /\ s.given = <<>>
    BY <2>2 DEF Walks
  <2>4. p = "login"
    BY <1>6, <2>3 DEF Turns
  <2> QED
    BY <1>3, <2>0, <2>3, <2>4 DEF IsConsole
<1> HIDE DEF r, s, t
\* Whatever was there, no password is given.
<1>7. /\ r.given = <<>>
      /\ r.console.password = console.password /\ r.console.forced = console.forced
      /\ Has(r.says, {"login:"}) => q = "login"
      /\ q \in {"login", "new", console.place} \cup Shell
      /\ q \notin {"password", "confirm"} /\ (q \in Shell => console.place \in Shell)
      /\ console.place = "dialog" => q = "dialog"
      /\ console.place = "login" /\ console.asleep = 0 => Has(r.says, {"login:"})
      /\ console.place \in {"login", "password", "new"} => q = "login"
  <2>1. CASE console.place \in {"password", "new"}
    <3>1. /\ t.given = <<>> /\ t.console.place = "login"
          /\ t.console.password = s.console.password /\ t.console.forced = s.console.forced
      BY <1>4, <1>6, <2>1 DEF Leaves, Knocks, Keys
    <3>2. r.given = <<>> \o <<>>
      BY <1>4, <1>6, <2>1, <3>1
    <3>3. q = "login" /\ r.console.password = console.password /\ r.console.forced = console.forced
      BY <1>4, <1>6, <2>1, <3>1
    <3>4. r.given = <<>>
      BY <3>2
    <3> QED
      BY <2>1, <3>3, <3>4 DEF Shell
  <2>2. CASE console.place \notin {"password", "new"}
    <3>1. {"intr", "enter"} \subseteq Keys /\ {"intr", "enter"} # {}
      BY DEF Keys
    <3>2. Knocks(console, {"intr", "enter"}, r)
      BY <1>4, Zenon DEF Leaves
    <3> QED
      BY <2>2, <3>1, <3>2 DEF Knocks
  <2> QED
    BY <2>1, <2>2
<1>8. /\ ~ Has(r.says, {"Re-enter New Password:"})
      /\ Has(r.says, {"dialog"}) => console.place = "dialog"
      /\ console.place \in Shell => q \in Shell
      /\ console.asleep = 0 => r.console.asleep = 0
  BY <1>4 DEF Leaves, Speaks, Moves
<1>9. TypeInv' /\ Unread' /\ early <= early' /\ (early' = 0 => early = 0 /\ text = r.says)
  <2>1. /\ UNCHANGED <<vendor, compliant, factory>> /\ pc' \in Steps
        /\ password' \in {"configured", "blank"} /\ attempt' \in Nat
    BY <1>2 DEF TypeInv
  <2>2. ~ Has(printed', {"Re-enter New Password:"})
    BY <1>2, <1>5, <1>8 DEF Reads, Unread
  <2>3. TypeInv /\ (early = 0 => printed = <<>>)
    BY DEF Unread
  <2> QED
    BY <1>5, <2>1, <2>2, <2>3, StepTyped, Zenon
<1>10. console' = r.console /\ tries' = tries
  BY <1>5, <1>7 DEF Reads
\* What the text says of the console.
<1>11. /\ text # <<>> => r.console.asleep = 0
       /\ AtPrompt(text) => q \in Shell
       /\ Has(text, {"dialog"}) => q = "dialog"
       /\ AtLogin(text) => q \in {"login"} \cup Shell
  <2>1. text # <<>> => r.console.asleep = 0
    BY <1>5, <1>10 DEF Reads, Tells
  <2>2. AtPrompt(text) => q \in Shell
    BY <1>5, <1>10 DEF Reads, Tells, AtPrompt
  <2>3. \A W : Has(text, W) => Has(printed, W) \/ Has(r.says, W)
    BY <1>5, Zenon DEF Reads
  <2>4. CASE password = "configured"
    <3>1. printed = <<>>
      BY <1>2, <2>4 DEF Stands
    <3>2. \A W : Has(text, W) => Has(r.says, W)
      BY <2>3, <3>1, NoWords, Zenon
    <3> QED
      BY <1>7, <1>8, <2>1, <2>2, <3>2 DEF AtLogin
  <2>5. CASE password = "blank"
    <3>1. /\ vendor = "Fortiswitch" /\ console.place \notin {"password", "confirm", "expired", "dialog"}
      BY <1>2, <2>5 DEF Tried, Stands
    <3>2. ~ Has(text, {"dialog"})
      BY <1>8, <2>3, <3>1 DEF Unread, Tells
    <3>3. q \in {"login"} \cup Shell
      BY <1>3, <1>7, <1>8, <3>1 DEF IsConsole
    <3> QED
      BY <2>1, <2>2, <3>2, <3>3
  <2> QED
    BY <2>4, <2>5 DEF TypeInv
<1>12. pc' # "recover" => r.console.asleep = 0
  <2>1. pc' # "recover" => \E W : Has(text, W)
    BY <1>2 DEF AtLogin, AtPrompt
  <2> QED
    BY <1>11, <2>1, NoWords, Zenon
<1>13. Tried'
  <2>1. IF password = "configured" THEN None(tries) ELSE One(tries) \/ (None(tries) /\ console.place \in Shell)
    BY <1>2 DEF Tried, InShell
  <2>2. pc' \in {"leave_config", "privilege"} => q \in Shell
    BY <1>2, <1>11
  <2>3. console'.place = q /\ (console.place \in Shell => q \in Shell)
    BY <1>8, <1>10
  <2>4. password \in {"configured", "blank"} /\ (password = "blank" => vendor = "Fortiswitch")
    BY DEF TypeInv, Tried
  <2>5. pc' \in {"decline", "credentials", "leave_config", "privilege", "recover"}
    BY <1>2
  <2> HIDE DEF q
  <2> QED
    BY <1>2, <1>10, <2>1, <2>2, <2>3, <2>4, <2>5 DEF Tried, InShell
<1>14. Stands'
  <2>1. pc' = "recover" /\ q = "new" => ~ Has(printed', {"login:"})
    <3> SUFFICES ASSUME pc' = "recover", q = "new" PROVE ~ Has(printed', {"login:"})
      OBVIOUS
    <3>1. ~ Has(r.says, {"login:"})
      BY <1>7
    <3>2. password = "configured"
      BY <1>2, <1>3, <1>7, <1>8 DEF Stands, TypeInv, IsConsole, Shell
    <3>3. printed = <<>>
      BY <1>2, <3>2 DEF Stands
    <3> QED
      BY <1>5, <3>1, <3>3, NoWords, Zenon DEF Reads
  <2>2. /\ console'.place = q /\ console'.asleep = r.console.asleep /\ q \notin {"password", "confirm"}
        /\ pc' # "recover" => console'.asleep = 0
        /\ pc' = "decline" => q = "dialog"
        /\ pc' = "credentials" => q \in {"login"} \cup Shell
        /\ pc' \in {"leave_config", "privilege"} => q \in Shell
    BY <1>2, <1>7, <1>10, <1>11, <1>12
  <2>3. /\ pc' \in {"decline", "credentials", "leave_config", "privilege", "recover"}
        /\ pc' = "recover" => attempt' = 1
    BY <1>2
  <2> HIDE DEF q
  <2> QED
    BY <2>1, <2>2, <2>3 DEF Stands, InShell, ConnectedIsLoggedIn, Shell
<1>15. Bootstrap'
  <2> SUFFICES ASSUME factory, compliant, early' = 0 PROVE Bootstrap'
    BY <1>2 DEF Bootstrap
  <2>1. /\ early = 0 /\ text = r.says /\ vendor = "Fortiswitch" /\ Blank
        /\ password = "blank" => console.place = "login" /\ console.asleep = 0
    BY <1>2, <1>9 DEF Bootstrap
  <2>2. console.place \notin Shell /\ console.place # "dialog"
    BY <1>3, <2>1 DEF Blank, IsConsole
  <2>3. pc' \in {"credentials", "recover"} /\ (password = "blank" => pc' = "credentials")
    <3>1. q \notin Shell /\ q # "dialog"
      BY <1>4, <1>7, <2>2 DEF Leaves, Moves
    <3>2. password = "blank" => AtLogin(text)
      BY <1>7, <2>1 DEF AtLogin
    <3> QED
      BY <1>2, <1>11, <3>1, <3>2
  <2>4. console'.password = "blank" /\ console'.forced
    BY <1>7, <1>10, <2>1 DEF Blank
  <2> QED
    BY <1>2, <2>1, <2>3, <2>4 DEF Bootstrap, Blank
<1> QED
  BY <1>9, <1>13, <1>14, <1>15

\* An attempt to get a prompt out of the console: keys, of which a console that
\* asks for no password makes none.
LEMMA RecoveringStep ==
  ASSUME IInv, pc \in {"recover", "terminated"}, UNCHANGED <<vendor, compliant, password, factory>>,
         NEW L, L \subseteq Keys, L # {}, NEW r, Leaves(console, L, r),
         NEW s, NEW text, Reads(s, r, text), early = 0 => s = <<>>, \A W : Has(s, W) => Has(printed, W),
         \/ pc' = "terminated" /\ attempt' = attempt
         \/ pc' = "credentials" /\ attempt' = attempt /\ AtLogin(text)
         \/ pc' = "privilege" /\ attempt' = attempt /\ AtPrompt(text)
         \/ pc' = "recover" /\ attempt < 3 /\ attempt' = attempt + 1
         \/ pc' = "failed" /\ attempt' = attempt,
         Has(s, {"login:"}) => console.place # "new"
  PROVE  IInv'
<1> DEFINE q == r.console.place
<1> USE DEF IInv, Knocking, LoggedIn, Steps
<1>1. /\ console.place \notin {"password", "confirm"} /\ IsConsole(console) /\ attempt \in 1..3
      /\ password \in {"configured", "blank"}
  BY DEF Stands, TypeInv
<1>2. /\ r.given = <<>>
      /\ r.console.password = console.password /\ r.console.forced = console.forced
      /\ q \in {"login", "new", console.place} \cup Shell
      /\ q \notin {"password", "confirm"}
      /\ Has(r.says, {"login:"}) => q = "login"
      /\ q = "new" => console.place = "new"
      /\ q \in Shell => console.place \in Shell
      /\ console.place = "dialog" => q = "dialog"
  <2>1. Knocks(console, L, r)
    BY Zenon DEF Leaves
  <2> QED
    BY <1>1, <2>1 DEF Knocks
<1>3. ~ Has(r.says, {"Re-enter New Password:"}) /\ (console.place \in Shell => q \in Shell)
  <2>1. "configured" \notin L
    BY DEF Keys
  <2> QED
    BY <2>1 DEF Leaves, Speaks, Moves
<1>4. console' = r.console /\ tries' = tries /\ console'.place = q
  BY <1>2 DEF Reads
<1>5. TypeInv' /\ Unread' /\ early <= early' /\ (early' = 0 => early = 0 /\ text = r.says)
  <2>1. /\ UNCHANGED <<vendor, compliant, factory>> /\ pc' \in Steps
        /\ password' \in {"configured", "blank"}
    BY <1>1
  <2>2. attempt' \in Nat
    BY <1>1
  <2>3. ~ Has(printed', {"Re-enter New Password:"})
    <3>1. ~ Has(s, {"Re-enter New Password:"})
      BY DEF Unread
    <3> QED
      BY <1>3, <3>1 DEF Reads
  <2> QED
    BY <2>1, <2>2, <2>3, StepTyped, Zenon
\* What the text says of the console.
<1>6. /\ AtPrompt(text) => q \in Shell
      /\ AtLogin(text) => console'.asleep = 0
      /\ AtPrompt(text) => console'.asleep = 0
  <2>1. Tells(text, console')
    BY DEF Reads
  <2>2. text = <<>> => ~ AtLogin(text) /\ ~ AtPrompt(text)
    BY NoWords DEF AtLogin, AtPrompt
  <2> QED
    BY <1>4, <2>1, <2>2 DEF Tells, AtPrompt
<1>7. Has(s, {"login:"}) => console.place \notin {"new", "dialog", "expired"}
  <2>1. Has(s, {"login:"}) => printed # <<>> /\ Has(printed, {"login:"})
    BY NoWords
  <2> QED
    BY <2>1 DEF Unread, Tells
<1>8. AtLogin(text) => q \in {"login"} \cup Shell
  <2>1. AtLogin(text) => Has(s, {"login:"}) \/ Has(r.says, {"login:"})
    BY DEF Reads, AtLogin
  <2>2. Has(s, {"login:"}) => q \in {"login"} \cup Shell
    BY <1>1, <1>2, <1>7 DEF IsConsole
  <2> QED
    BY <1>2, <2>1, <2>2
<1>9. q = "new" => ~ Has(printed', {"login:"})
  <2>1. Has(printed', {"login:"}) => Has(s, {"login:"}) \/ Has(r.says, {"login:"})
    BY DEF Reads
  <2> QED
    BY <1>2, <1>7, <2>1
<1> HIDE DEF q
<1>10. Tried'
  <2>1. IF password = "configured" THEN None(tries) ELSE One(tries) \/ (None(tries) /\ console.place \in Shell)
    BY DEF Tried, InShell
  <2>2. pc' = "privilege" => q \in Shell
    BY <1>6
  <2>3. password = "blank" => vendor = "Fortiswitch"
    BY DEF Tried
  <2>4. pc' \in {"terminated", "credentials", "privilege", "recover", "failed"}
    OBVIOUS
  <2> QED
    BY <1>1, <1>3, <1>4, <2>1, <2>2, <2>3, <2>4 DEF Tried, InShell
<1>11. Stands'
  <2>1. /\ pc' = "credentials" => console'.asleep = 0 /\ q \in {"login"} \cup Shell
        /\ pc' = "privilege" => console'.asleep = 0 /\ q \in Shell
        /\ pc' = "recover" => attempt' \in 1..3
        /\ pc' = "terminated" => attempt' \in 1..3
    BY <1>1, <1>6, <1>8
  <2>2. pc' \in {"terminated", "credentials", "privilege", "recover", "failed"}
    OBVIOUS
  <2>3. q \notin {"password", "confirm"}
    BY <1>2
  <2> QED
    BY <1>4, <1>9, <2>1, <2>2, <2>3 DEF Stands, InShell, ConnectedIsLoggedIn, Shell
<1>12. Bootstrap'
  <2> SUFFICES ASSUME factory, compliant, early' = 0 PROVE Bootstrap'
    BY DEF Bootstrap
  <2>1. vendor = "Fortiswitch" /\ Blank /\ password = "configured"
    BY <1>1, <1>5 DEF Bootstrap
  <2>2. pc' # "privilege"
    BY <1>1, <1>2, <1>6, <2>1 DEF Blank, IsConsole
  <2>3. console'.password = "blank" /\ console'.forced
    BY <1>2, <1>4, <2>1 DEF Blank
  <2>4. None(tries)
    BY <2>1 DEF Tried
  <2>5. pc' \in {"terminated", "credentials", "recover", "failed"}
    BY <2>2
  <2> QED
    BY <1>4, <2>1, <2>3, <2>4, <2>5 DEF Bootstrap, Blank, None
<1> QED
  BY <1>5, <1>10, <1>11, <1>12

\* Recover: one of the three attempts.
LEMMA RecoverStep == ASSUME IInv, Recover PROVE IInv'
<1> DEFINE r == TypeAll(console, RecoveryKeys)
<1> USE DEF IInv, Knocking, LoggedIn, Steps
<1>1. PICK text \in Texts(RecoveryKeys) :
        /\ Exchange(RecoveryKeys, text)
        /\ CASE Has(text, {"Session Terminated"}) -> Goto("terminated")
             [] ~ Has(text, {"Session Terminated"}) /\ AtLogin(text) -> Goto("credentials")
             [] ~ Has(text, {"Session Terminated"}) /\ ~ AtLogin(text) /\ AtPrompt(text) -> Goto("privilege")
             [] OTHER -> IF attempt < 3 THEN Recovering(attempt + 1) ELSE Fails("stuck")
  BY DEF Recover
<1>2. /\ pc = "recover" /\ UNCHANGED <<vendor, compliant, password, factory>>
      /\ \/ pc' = "terminated" /\ attempt' = attempt
         \/ pc' = "credentials" /\ attempt' = attempt /\ AtLogin(text)
         \/ pc' = "privilege" /\ attempt' = attempt /\ AtPrompt(text)
         \/ pc' = "recover" /\ attempt < 3 /\ attempt' = attempt + 1
         \/ pc' = "failed" /\ attempt' = attempt
  BY <1>1 DEF Recover, Goto, Recovering, Fails
<1>3. IsConsole(console) /\ attempt \in 1..3
  BY <1>2 DEF TypeInv, Stands
<1>4. PICK L : L \subseteq Keys /\ L # {} /\ Leaves(console, L, r)
  <2>1. RecoveryKeys \in Seq(Keys) /\ Len(RecoveryKeys) # 0
    <3>1. "intr" \in Keys /\ "enter" \in Keys /\ "space" \in Keys
      BY DEF Keys
    <3>2. \A a \in Keys, b \in Keys, k \in Keys :
            /\ <<a, b>> \in Seq(Keys) /\ Len(<<a, b>>) # 0
            /\ <<a, b, k>> \in Seq(Keys) /\ Len(<<a, b, k>>) # 0
            /\ <<a>> \in Seq(Keys) /\ Len(<<a>>) # 0
      OBVIOUS
    <3>3. \/ RecoveryKeys = <<"intr", "enter">>
          \/ RecoveryKeys = <<"space", "intr", "enter">>
          \/ RecoveryKeys = <<"enter">>
      <4>1. attempt = 1 \/ attempt = 2 \/ attempt = 3
        BY <1>3
      <4> QED
        BY <4>1 DEF RecoveryKeys
    <3> QED
      BY <3>1, <3>2, <3>3, Zenon
  <2>2. RecoveryKeys \in Seq(Lines)
    BY <2>1 DEF Lines
  <2> DEFINE keys == RecoveryKeys
             M == {keys[i] : i \in 1..Len(keys)}
  <2>3. Leaves(console, M, r)
    BY <1>3, <2>2, TypeAllLeaves, Zenon
  <2>4. M \subseteq Keys /\ M # {}
    <3> HIDE DEF keys
    <3>1. keys \in Seq(Keys) /\ Len(keys) # 0
      BY <2>1 DEF keys
    <3>2. 1 \in 1..Len(keys)
      BY <3>1
    <3> QED
      BY <3>1, <3>2
  <2> HIDE DEF M
  <2> QED
    BY <2>3, <2>4
<1>5. Reads(printed, r, text)
  BY <1>1, <1>4, ReadsOn
<1> HIDE DEF r
<1>6. early = 0 => printed = <<>>
  BY DEF Unread
<1>7. Has(printed, {"login:"}) => console.place # "new"
  BY <1>2 DEF Stands
<1> QED
  BY <1>2, <1>4, <1>5, <1>6, <1>7, RecoveringStep

\* Terminated: what was unread is thrown away, and the console woken up.
LEMMA TerminatedStep == ASSUME IInv, Terminated PROVE IInv'
<1> DEFINE lines == <<"enter">>
           r == TypeAll(console, lines)
           t == Type(console, "enter")
<1> USE DEF IInv, Knocking, LoggedIn, Steps
<1>1. PICK text \in {<<>>, t.says} :
        /\ ExchangeAfter(<<>>, lines, text)
        /\ CASE AtLogin(text) -> Goto("credentials")
             [] ~ AtLogin(text) /\ AtPrompt(text) -> Goto("privilege")
             [] OTHER -> IF attempt < 3 THEN Recovering(attempt + 1) ELSE Fails("stuck")
  BY DEF Terminated
<1>2. /\ pc = "terminated" /\ UNCHANGED <<vendor, compliant, password, factory>>
      /\ \/ pc' = "terminated" /\ attempt' = attempt
         \/ pc' = "credentials" /\ attempt' = attempt /\ AtLogin(text)
         \/ pc' = "privilege" /\ attempt' = attempt /\ AtPrompt(text)
         \/ pc' = "recover" /\ attempt < 3 /\ attempt' = attempt + 1
         \/ pc' = "failed" /\ attempt' = attempt
  BY <1>1 DEF Terminated, Goto, Recovering, Fails
<1>3. IsConsole(console) /\ tries \in Seq(Try) /\ early \in Nat /\ "enter" \in Lines
  BY DEF TypeInv, Lines, Keys
<1>4. Leaves(console, {"enter"}, r) /\ r.says = t.says
  BY <1>3, TypeOne, Zenon
<1>5. r.says \in Seq(Words)
  BY <1>4, Zenon DEF Leaves, IsResult
<1> HIDE DEF t
<1>6. Reads(<<>>, r, text)
  <2> DEFINE unread == <<>>
             all == unread \o r.says
  <2>1. all = r.says
    BY <1>5, ConcatEmptySeq
  <2>2. PICK n \in 0..Len(all) : text = SubSeq(all, 1, n)
    <3> HIDE DEF r
    <3>1. CASE text = <<>>
      <4>1. SubSeq(all, 1, 0) = <<>> /\ 0 \in 0..Len(all)
        BY <1>5, <2>1, SubSeqEmpty
      <4> QED
        BY <3>1, <4>1
    <3>2. CASE text = r.says
      <4>1. SubSeq(all, 1, Len(all)) = all /\ Len(all) \in 0..Len(all)
        BY <1>5, <2>1, SubSeqFull
      <4> QED
        BY <2>1, <3>2, <4>1
    <3> QED
      BY <1>1, <1>4, <3>1, <3>2
  <2>3. unread \in Seq(Words) /\ Tells(unread, console)
    BY NoWords DEF Tells
  <2> HIDE DEF unread
  <2>4. ExchangeAfter(unread, lines, text)
    BY <1>1 DEF unread
  <2>5. Reads(unread, r, text)
    BY <1>3, <1>4, <2>2, <2>3, <2>4, Exchanged, Zenon
  <2> QED
    BY <2>5, Zenon DEF unread
<1> HIDE DEF r
<1>7. {"enter"} \subseteq Keys /\ {"enter"} # {}
  BY DEF Keys
<1> QED
  BY <1>2, <1>4, <1>6, <1>7, NoWords, RecoveringStep

(***************************************************************************)
(* The theorems.                                                           *)
(***************************************************************************)

\* Every step of the login, by the action it is, keeps the invariant.
LEMMA NextIInv == ASSUME IInv, [Next]_vars PROVE IInv'
<1>1. CASE connect \/ connect_fails \/ SetupFails \/ Stopped
  BY <1>1, SilentSteps
<1>2. CASE Login
  BY <1>2, LoginInnerStep, DeclineStep, LeaveConfigStep, CredentialsStep, PolicyStep, NewPasswordStep,
     ConfirmStep, RecoverStep, TerminatedStep, PrivilegeStep, EnableStep, EnableCheckStep, VerifyStep,
     Zenon DEF Login
<1>3. CASE aruba_connect \/ cisco_connect \/ forti_connect
  BY <1>3, ArubaStep, CiscoStep, FortiStep
<1>4. CASE UNCHANGED vars
  <2>1. /\ TypeInv <=> TypeInv'
        /\ Unread <=> Unread'
    BY <1>4, Later DEF vars, TypeInv, Unread
  <2>2. /\ Tried <=> Tried'
        /\ Stands <=> Stands'
        /\ Bootstrap <=> Bootstrap'
    BY <1>4 DEF vars, Tried, Stands, Bootstrap, InShell, Blank, ConnectedIsLoggedIn
  <2> QED
    BY <2>1, <2>2 DEF IInv
<1> QED
  BY <1>1, <1>2, <1>3, <1>4 DEF Next

\* Whatever order the console's text and the client's reads come in, the
\* inductive invariant of the login holds: what the client has found out is true
\* of the console (Stands), what it has not read yet tells the truth as well
\* (Unread), and each password was given in its turn (Tried).
THEOREM Invariance == Spec => []IInv
<1>1. Init => IInv
  BY InitIInv
<1>2. IInv /\ [Next]_vars => IInv'
  BY NextIInv
<1> QED
  BY <1>1, <1>2, PTL DEF Spec

\* connect hands over a console that is in a shell of the switch, if at most one
\* of its reads came early: wherever the console was left, however deeply it was
\* asleep, and for every vendor, number of retries and bound on early reads.
THEOREM ConnectedIsAlwaysLoggedIn == Spec => []ConnectedIsLoggedIn
<1>1. IInv => ConnectedIsLoggedIn
  BY DEF IInv, Stands
<1> QED
  BY <1>1, Invariance, PTL

\* A login (login_with_factory_default_fallback) gives the configured password
\* once and the blank one at most once after it, however late the console's
\* answers are, and the vendor's set-up none, if at most one of them was late: a
\* switch that locks an account after some wrong passwords is not locked.
THEOREM TriesAreAlwaysFew == Spec => []TriesAreFew
<1>1. IInv => TriesAreFew
  <2> SUFFICES ASSUME IInv, pc # "connected" \/ early <= 1
               PROVE  /\ Len(tries) <= 2
                      /\ \A i \in DOMAIN tries :
                           tries[i].given = IF i = 1 THEN "configured" ELSE "blank"
    BY DEF TriesAreFew
  <2>1. tries \in Seq(Try)
    BY DEF IInv, TypeInv
  <2>2. None(tries) \/ One(tries) \/ Two(tries)
    BY DEF IInv, TypeInv, Tried, Steps, Knocking, LoggedIn
  <2> QED
    <3>1. Len(tries) \in Nat /\ DOMAIN tries = 1..Len(tries)
      BY <2>1
    <3>2. CASE None(tries)
      BY <3>2 DEF None
    <3>3. CASE One(tries)
      <4>1. \A i \in 1..1 : i = 1
        OBVIOUS
      <4> QED
        BY <3>1, <3>3, <4>1 DEF One
    <3>4. CASE Two(tries)
      <4>1. \A i \in 1..2 : i = 1 \/ i = 2
        OBVIOUS
      <4> QED
        BY <3>1, <3>4, <4>1 DEF Two
    <3> QED
      BY <2>2, <3>2, <3>3, <3>4
<1> QED
  BY <1>1, Invariance, PTL

\* A factory-reset FortiSwitch that answers in time is always taken over: the
\* blank password gets in, and the password it then demands is the configured one
\* (maybe_complete_forced_password_change).
THEOREM FactorySwitchIsAlwaysBootstrapped == Spec => []FactorySwitchIsBootstrapped
<1>1. IInv => FactorySwitchIsBootstrapped
  BY DEF IInv, Bootstrap, FactorySwitchIsBootstrapped, None
<1> QED
  BY <1>1, Invariance, PTL
================================================================================
