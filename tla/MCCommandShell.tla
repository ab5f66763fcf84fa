--------------------------- MODULE MCCommandShell ---------------------------
EXTENDS CommandShell, TLC

Cmd(k) == [kind |-> k, tolerated |-> FALSE]

Tolerated(k) == [kind |-> k, tolerated |-> TRUE]

Vendors == {<<Cmd("page"), Cmd("show"), Cmd("set")>>,
           <<Cmd("enable"), Cmd("secret"), Cmd("get")>>,
           <<Tolerated("end"), Cmd("get")>>,
           <<Cmd("get"), Cmd("showLong")>>,
           <<Cmd("showUsers"), Cmd("set")>>}

Replies ==
  "page" :> {<<"prompt">>, <<"key", "line", "prompt">>}
  @@ "end" :> {<<"prompt">>}
  @@ "show" :> {<<"promptlike", "rest", "promptlike", "line", "prompt">>,
                <<"line", "pager", "tail", "line", "pager", "tail", "prompt">>,
                <<"pagerlike", "line", "prompt">>}
  @@ "showLong" :> {<<"line", "more", "prompt">>}
  @@ "showUsers" :> {<<"ask", "rest", "prompt">>}
  @@ "get" :> {<<"line", "prompt">>}
  @@ "set" :> {<<"prompt">>}
  @@ "enable" :> {<<"ask">>, <<"prompt">>}
  @@ "secret" :> {<<"prompt">>}
=============================================================================
