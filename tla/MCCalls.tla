------------------------------ MODULE MCCalls ------------------------------
(* The instances of Calls that TLC checks.                                 *)
EXTENDS Calls

\* One good command line, with and without the helper, and bad ones.
MCFlag == [namespace |-> "ci", instance |-> "me", reattachTimeout |-> 1, mode |-> "octal",
           listen |-> "unix-absolute", args |-> 0, podspec |-> "plain", helperImage |-> "img"]
MCFlags == {MCFlag, [MCFlag EXCEPT !.helperImage = ""]}
MCBadFlags == {[MCFlag EXCEPT !.namespace = ""], [MCFlag EXCEPT !.instance = ""],
               [MCFlag EXCEPT !.reattachTimeout = 0], [MCFlag EXCEPT !.listen = "unix-relative"]}
MCAllFlags == MCFlags \cup MCBadFlags

MCContainer(n) == <<n>>
MCPlain == [containers |-> <<Main>>, inits |-> <<>>, volumes |-> <<>>, image |-> "base",
            mounts |-> <<>>, hosts |-> {}]
MCClasses ==
    [c \in {"plain", "nomain", "own", "reserved", "volume", "taken", "sidecar",
             "initmain", "peer", "noimage"} |->
        CASE c = "plain"    -> MCPlain
          [] c = "nomain"   -> [MCPlain EXCEPT !.containers = <<MCContainer("dind")>>, !.image = ""]
          [] c = "own"      -> [MCPlain EXCEPT !.containers = <<MCContainer("dind"), Main>>,
                                    !.inits = <<MCContainer("init")>>, !.volumes = <<Shared, "data">>,
                                    !.mounts = <<MountAt("data", "/data"), MountAt(Shared, "/work")>>]
          [] c = "reserved" -> [MCPlain EXCEPT !.inits = <<Helper>>]
          [] c = "volume"   -> [MCPlain EXCEPT !.volumes = <<HelperVolume>>]
          [] c = "taken"    -> [MCPlain EXCEPT !.volumes = <<"data">>,
                                               !.mounts = <<MountAt("data", SharedMount)>>]
          [] c = "sidecar"  -> [MCPlain EXCEPT !.inits = <<Named(<<"a">>)>>]
          [] c = "initmain" -> [MCPlain EXCEPT !.containers = <<MCContainer("dind")>>, !.image = "",
                                               !.inits = <<Main>>]
          [] c = "peer"     -> [MCPlain EXCEPT !.containers = <<Main, Named(<<"a">>)>>]
          [] c = "noimage"  -> [MCPlain EXCEPT !.image = ""]]

MCPort(n, p) == {[port |-> n, protocol |-> p]}
MCService(n, ports) == [name |-> n, ports |-> ports]
MCServices ==
    {<<>>, <<MCService(<<"a">>, MCPort(80, "tcp"))>>, <<MCService(<<"a">>, MCPort(0, ""))>>,
     <<MCService(<<"b">>, MCPort(80, "icmp"))>>, <<MCService(<<"B", "_", "a">>, {})>>,
     <<MCService(<<"_">>, {})>>, <<MCService(<<"a">>, {}), MCService(<<"b", "-", "a", "a">>, {})>>,
     <<MCService(<<"a">>, {}), MCService(<<"A">>, {})>>}

MCLabel(k, v) == [blank |-> FALSE, sep |-> TRUE, key |-> k, val |-> v]
MCOption(k, v) == [x \in {k} |-> v]
MCRaw ==
    {<<>>, MCOption("namespace", "elsewhere"), MCOption("podspec", "own"), MCOption("instance", "you"),
     MCOption("ready_timeout", [parsed |-> TRUE, duration |-> 0]),
     MCOption("ready_timeout", [parsed |-> TRUE, duration |-> 5]),
     MCOption("image_pull_policy", "Sometimes"), MCOption("image_pull_policy", "Never"),
     MCOption("service_resources", "malformed"), MCOption("service_resources", "small"),
     MCOption("labels", <<MCLabel("team", "${ENV_ID}"), MCLabel("managed", "them"), MCLabel("envid", "other")>>),
     MCOption("labels", <<[MCLabel("", "") EXCEPT !.blank = TRUE], [MCLabel("team", "") EXCEPT !.sep = FALSE]>>),
     MCOption("typo", "x")}

MCRequest == [name |-> <<"a">>, raw |-> <<>>, labelArg |-> "", image |-> "", services |-> <<>>,
              timeout |-> 36000]
\* Every option, class and list of services with each other; every short name.
MCRequests ==
    {[MCRequest EXCEPT !.raw = r, !.labelArg = l, !.image = i, !.services = s] :
        r \in MCRaw, l \in {"", "missing"} \cup DOMAIN MCClasses, i \in {"", "job"}, s \in MCServices}
    \cup {[MCRequest EXCEPT !.name = n] : n \in BoundedSeq({"A", "b", "1", "_"}, 5)}

MCBoxes == {b \in Box : b.runnerVar = "unset" \/ b.agentVar = "unset"}

\* Logs of up to two data frames, payloads that look like headers among them,
\* with an exit record or cut short, and some no helper writes.
MCData == [kind : {KindStdout, KindStderr}, payload : {<<>>, <<3>>, <<1, 0>>, <<3, 0, 2>>}]
MCExit == [kind : {KindExit}, code : {-8, -1, 0, 1, 7}]
MCLogs == {d \o e : d \in BoundedSeq(MCData, 2), e \in BoundedSeq(MCExit, 1)}
          \cup {e \o <<d>> : e \in [1 .. 1 -> MCExit], d \in MCData}
          \cup {<<d, [kind |-> 0, payload |-> <<>>]>> : d \in MCData}
          \cup {<<d, [kind |-> 1, payload |-> <<1, 1, 1, 1>>]>> : d \in MCData}
          \cup {<<d, [kind |-> KindExit, payload |-> p]>> : d \in MCData, p \in {<<>>, <<1>>, <<1, 0, 0>>}}

MCWords == {Word("sh"), DashDash, Assignment("A", "1")}
MCCalls_ == [env : UNION {[D -> {"1", "2"}] : D \in SUBSET {"A", "B", "", "A=B"}},
             base : {<<>>, <<Assignment("A", "0")>>,
                     <<Assignment("C", "0"), Assignment("A", "0"), Assignment("C", "3")>>},
             cmd : BoundedSeq(MCWords, 2)]

===========================================================================
