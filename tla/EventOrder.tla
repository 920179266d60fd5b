----------------------------- MODULE EventOrder -----------------------------
(* What a NetworkClient (src/src/pychat/net.py) tells the UI and in which   *)
(* order: the life of one client as the events on its queue show it.        *)

Stages == {"idle", "connecting", "asked", "greeting", "live", "doomed", "over", "stopped"}

\* The client goes to stage s and puts `says` on its queue; `before` says
\* whether some session of it has ended in a normal close.
Then(s, before, says) == [stage |-> s, before |-> before, says |-> says]

\* A session failed: for good if none ended normally before.
Broken(before, stopping) ==
    IF ~before THEN {Then("over", before, <<"ConnectionFailed">>)}
    ELSE IF stopping THEN {Then("over", before, <<"Disconnected">>)}
    ELSE {Then("idle", before, <<"Disconnected", "Reconnecting">>),
          Then("over", before, <<"Disconnected", "GaveUp">>)}

\* A session ended in a normal close; stop() may come between the two tests of
\* the flag that follow.
Ended(stopping) ==
    IF stopping THEN {Then("over", TRUE, <<>>), Then("over", TRUE, <<"Disconnected">>)}
    ELSE {Then("idle", TRUE, <<"Disconnected", "Reconnecting">>)}

\* What a client may do by itself at each stage.
After(stage, before, stopping, verdict) ==
    CASE stage = "idle" ->
           IF stopping THEN {Then("over", before, <<>>)}
           ELSE {Then("connecting", before, <<"Connecting">>)}
      [] stage = "connecting" ->
           {Then("asked", before, <<"CertificateUnknown">>),
            Then("doomed", before, <<"CertificateMismatch">>),
            Then("greeting", before, <<>>)} \cup Broken(before, stopping)
      [] stage = "asked" ->
              {Then("greeting", before, <<>>) : y \in {verdict} \cap {"yes"}}
         \cup {Then("doomed", before, <<>>) : y \in {stopping, verdict = "no"} \cap {TRUE}}
      [] stage = "greeting" ->
           {Then("live", before, <<"Connected">>), Then("doomed", before, <<>>)}
           \cup Broken(before, stopping)
      [] stage = "live" ->
           {Then("doomed", before, <<>>)} \cup Ended(stopping) \cup Broken(before, stopping)
      [] stage = "doomed" ->
           {Then("over", before, <<e>>) : e \in {"ConnectionFailed", "AuthFailed"}}
      [] stage = "over" -> {Then("stopped", before, <<"Stopped">>)}
      [] stage = "stopped" -> {}
=============================================================================
