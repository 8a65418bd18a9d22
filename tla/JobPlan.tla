------------------------------ MODULE JobPlan ------------------------------
(***************************************************************************)
(* From the plugin's flags and a Create request to the Job that Start      *)
(* hands to the API server: parseFlags, options.Parse, newEnvID, BuildJob  *)
(* with its helpers, and the backend's Create.  Names are sequences of     *)
(* characters because what dnsLabel and newEnvID make of them is at stake. *)
(***************************************************************************)
EXTENDS Integers, Sequences, FiniteSets, FiniteSetsExt

CONSTANTS
    Flags,          \* command lines to look at, defaults and environment merged in
    Requests,       \* Create requests to look at
    Classes,        \* podspec files: path |-> podspec
    MaxPrefix,      \* newEnvID's maxPrefix
    MaxLabel        \* room for a service's label after ServicePrefix

\* A podspec is its containers and init containers by name, its volumes, its host
\* aliases, and the image and the mounts of its container main.
Name    == Seq(STRING)
Mount   == [volume : STRING, path : STRING]
PodSpec == [containers : Seq(Name), inits : Seq(Name), volumes : Seq(STRING),
            image : STRING, mounts : Seq(Mount), hosts : SUBSET Name]
Ports   == [port : Int, protocol : STRING]

ASSUME PlanAssumption ==
    /\ MaxPrefix \in Nat \ {0} /\ MaxLabel \in Nat \ {0}
    /\ \A p \in DOMAIN Classes : Classes[p] \in PodSpec
    /\ \A r \in Requests : /\ r.name \in Name
                           /\ r.services \in Seq([name : Name, ports : SUBSET Ports])

VARIABLES
    phase,    \* "off", "flags", "refused", "serving", "invalid", "created", "accepted", "rejected"
    flags,    \* the plugin's configuration
    req,      \* the request
    in,       \* the BuildInput Create keeps for Start
    job,      \* the Job sent to the API server
    sentTo    \* the namespace it is sent to

planVars == <<phase, flags, req, in, job, sentTo>>

Nothing == [none |-> TRUE]

---------------------------------------------------------------------------
(* Names.                                                                  *)

Upper  == {"A", "B"}
Letter == {"a", "b", "j", "h"}
Digit  == {"1"}
ToLower(c) == CASE c = "A" -> "a" [] c = "B" -> "b" [] OTHER -> c

\* Lower case, and "-" for everything that is neither letter nor digit.
SafeChars(s) ==
    [i \in DOMAIN s |-> IF ToLower(s[i]) \in Letter \cup Digit THEN ToLower(s[i]) ELSE "-"]

Solid(s) == {i \in DOMAIN s : s[i] # "-"}
TrimRight(s) == IF Solid(s) = {} THEN <<>> ELSE SubSeq(s, 1, Max(Solid(s)))
Trim(s) == IF Solid(s) = {} THEN <<>> ELSE SubSeq(s, Min(Solid(s)), Max(Solid(s)))
Cut(s, n) == IF Len(s) > n THEN SubSeq(s, 1, n) ELSE s

\* "job-" and the random suffix, by the kinds of their characters.
JobPrefix == <<"j", "-">>
Suffix    == <<"-", "h">>

\* Seeded fault: a long name is not cut.
EnvPrefixUncut(s) == Trim(SafeChars(s))
EnvPrefix(s) == Trim(Cut(Trim(SafeChars(s)), MaxPrefix))

newEnvID(name) ==
    LET p == EnvPrefix(name)
        q == IF p = <<>> \/ p[1] \notin Letter THEN TrimRight(JobPrefix \o p) ELSE p
    IN  q \o Suffix

Service == <<"j", "a", "b">>    \* "service", the label of a name without letters or digits

dnsLabel(s) ==
    LET p == TrimRight(Cut(Trim(SafeChars(s)), MaxLabel)) IN IF p = <<>> THEN Service ELSE p

\* A DNS-1123 label, and (for want of dots here) a host name.
DNSLabel(s) ==
    /\ s # <<>> /\ \A i \in DOMAIN s : s[i] \in Letter \cup Digit \cup {"-"}
    /\ s[1] # "-" /\ s[Len(s)] # "-"

---------------------------------------------------------------------------
(* Flags and options.                                                      *)

\* parseFlags and parseListen.
FlagsOk(f) ==
    /\ f.namespace # "" /\ f.instance # "" /\ f.reattachTimeout > 0
    /\ f.mode = "octal" /\ f.listen \in {"unix-absolute", "tcp-address"} /\ f.args = 0

OptionKeys == {"namespace", "podspec", "instance", "ready_timeout", "image_pull_policy",
               "service_resources", "labels"}

\* ParseLabels: blank entries are skipped, each other one is key=value.
LabelsOk(entries) == \A i \in DOMAIN entries : entries[i].blank \/ (entries[i].sep /\ entries[i].key # "")
LabelKeys(entries) == {entries[i].key : i \in {n \in DOMAIN entries : ~entries[n].blank}}
ParseLabels(entries) ==
    [k \in LabelKeys(entries) |->
        entries[Max({i \in DOMAIN entries : ~entries[i].blank /\ entries[i].key = k})].val]

\* Options.set: an unknown key or a bad value is an error.
SetOk(k, v) ==
    CASE k = "ready_timeout"     -> v.parsed /\ v.duration > 0
      [] k = "image_pull_policy" -> v \in {"Always", "IfNotPresent", "Never"}
      [] k = "service_resources" -> v # "malformed"
      [] k = "labels"            -> LabelsOk(v)
      [] OTHER                   -> k \in OptionKeys

OptionsOk(raw) == \A k \in DOMAIN raw : SetOk(k, raw[k])

Option(raw, k, default) == IF k \in DOMAIN raw THEN raw[k] ELSE default

\* Options as Create passes them to BuildJob, ready timeout aside.
Parse(raw, f) ==
    [namespace  |-> Option(raw, "namespace", f.namespace),
     podspec    |-> Option(raw, "podspec", f.podspec),
     instance   |-> Option(raw, "instance", f.instance),
     pullPolicy |-> Option(raw, "image_pull_policy", "IfNotPresent"),
     resources  |-> Option(raw, "service_resources", "none"),
     labels     |-> IF "labels" \in DOMAIN raw THEN ParseLabels(raw["labels"]) ELSE <<>>]

---------------------------------------------------------------------------
(* BuildJob.                                                               *)

Main   == <<"main">>
Helper == <<"helper">>
Named(label) == <<"svc">> \o label
Shared == "shared"
SharedMount == "/__w"
HelperVolume == "helper"
HelperMount == "/__helper"
MountAt(v, p) == [volume |-> v, path |-> p]

HasMain(ps) == \E i \in DOMAIN ps.containers : ps.containers[i] = Main

\* setupMain: main exists, and its first mount of the shared volume, else a new
\* one, is at SharedMount.
SharedMounts(ms) == {i \in DOMAIN ms : ms[i].volume = Shared}
setupMain(ps, b) ==
    [ps EXCEPT
        !.containers = IF HasMain(ps) THEN @ ELSE <<Main>> \o @,
        !.image = IF b.image # "" THEN b.image ELSE IF HasMain(ps) THEN @ ELSE "",
        !.mounts = LET ms == IF HasMain(ps) THEN @ ELSE <<>> IN
                   IF SharedMounts(ms) = {} THEN Append(ms, MountAt(Shared, SharedMount))
                   ELSE [ms EXCEPT ![Min(SharedMounts(ms))].path = SharedMount]]

\* parsePorts: the last part of each mapping must be a port, the protocol known.
PortsOk(sv) == \A p \in sv.ports : p.port \in 1 .. 65535 /\ p.protocol \in {"", "tcp", "udp", "sctp"}

addServices(ps, services) ==
    IF services = <<>> THEN ps
    ELSE [ps EXCEPT !.inits = @ \o [i \in DOMAIN services |-> Named(dnsLabel(services[i].name))],
                    !.hosts = @ \cup {services[i].name : i \in DOMAIN services}]

HelperReserved(ps) ==
    \/ \E i \in DOMAIN ps.containers : ps.containers[i] = Helper
    \/ \E i \in DOMAIN ps.inits : ps.inits[i] = Helper
    \/ \E i \in DOMAIN ps.volumes : ps.volumes[i] = HelperVolume

\* Seeded fault: the helper is installed after the init containers that are there.
addHelperLast(ps, image) ==
    IF image = "" THEN ps
    ELSE [ps EXCEPT !.inits = Append(@, Helper),
                    !.volumes = Append(@, HelperVolume),
                    !.mounts = Append(@, MountAt(HelperVolume, HelperMount))]
addHelper(ps, image) ==
    IF image = "" THEN ps
    ELSE [ps EXCEPT !.inits = <<Helper>> \o @,
                    !.volumes = Append(@, HelperVolume),
                    !.mounts = Append(@, MountAt(HelperVolume, HelperMount))]

\* Seeded fault: a class's own shared volume is not looked for.
addSharedAlways(ps) == [ps EXCEPT !.volumes = Append(@, Shared)]
addSharedVolume(ps) ==
    IF \E i \in DOMAIN ps.volumes : ps.volumes[i] = Shared THEN ps
    ELSE [ps EXCEPT !.volumes = Append(@, Shared)]

\* The ownership labels come last, so options cannot replace them.
Ownership(b) == [managed |-> "us", instance |-> b.instance, envid |-> b.envID]
Expand(v, b) == IF v = "${ENV_ID}" THEN b.envID ELSE v
jobLabels(b) ==
    [k \in DOMAIN b.labels \cup DOMAIN Ownership(b) |->
        IF k \in DOMAIN Ownership(b) THEN Ownership(b)[k] ELSE Expand(b.labels[k], b)]

\* BuildJob's errors, in setupMain, addServices and addHelper.
BuildOk(b) ==
    /\ HasMain(b.spec) \/ b.image # ""
    /\ \A i \in DOMAIN b.services : PortsOk(b.services[i])
    /\ b.helperImage # "" => ~HelperReserved(addServices(setupMain(b.spec, b), b.services))

\* A timeout in tenths of a second becomes whole seconds; 0 leaves it unset.
BuildJob(b) ==
    [name |-> b.envID, namespace |-> b.namespace, labels |-> jobLabels(b),
     deadline |-> IF b.timeout > 0 THEN b.timeout \div 10 ELSE -1,
     spec |-> addSharedVolume(addHelper(addServices(setupMain(b.spec, b), b.services), b.helperImage))]

---------------------------------------------------------------------------
(* The plugin and the API server.                                          *)

PlanInit ==
    /\ phase = "flags" /\ flags \in Flags /\ req \in Requests
    /\ in = Nothing /\ job = Nothing /\ sentTo = ""

Serve ==
    /\ phase = "flags"
    /\ phase' = IF FlagsOk(flags) THEN "serving" ELSE "refused"
    /\ UNCHANGED <<flags, req, in, job, sentTo>>

SpecPath == IF req.labelArg # "" THEN req.labelArg ELSE Parse(req.raw, flags).podspec

Input ==
    LET o == Parse(req.raw, flags) IN
    [spec |-> Classes[SpecPath], envID |-> newEnvID(req.name), instance |-> o.instance,
     namespace |-> o.namespace, image |-> req.image, services |-> req.services,
     timeout |-> req.timeout, labels |-> o.labels, helperImage |-> flags.helperImage]

\* The podspec file can be read and parsed.
Loadable(p) == p \in DOMAIN Classes

\* Create: bad options, no podspec or a bad one, and what BuildJob refuses are
\* InvalidArgument; else the environment is kept.
Create ==
    /\ phase = "serving"
    /\ IF OptionsOk(req.raw) /\ Loadable(SpecPath) /\ BuildOk(Input)
       THEN phase' = "created" /\ in' = Input
       ELSE phase' = "invalid" /\ UNCHANGED in
    /\ UNCHANGED <<flags, req, job, sentTo>>

Distinct(s) == \A i, k \in DOMAIN s : s[i] = s[k] => i = k

\* What the API server asks of a Job.
ServicesValid(b) ==
    /\ \A i \in DOMAIN b.services : DNSLabel(b.services[i].name)
    /\ Distinct(b.spec.inits \o [i \in DOMAIN b.services |-> Named(dnsLabel(b.services[i].name))]
                \o b.spec.containers)
SpecValid(ps) ==
    /\ Distinct(ps.inits \o ps.containers) /\ Distinct(ps.volumes)
    /\ Distinct([i \in DOMAIN ps.mounts |-> ps.mounts[i].path])
    /\ \A i \in DOMAIN ps.mounts : \E n \in DOMAIN ps.volumes : ps.volumes[n] = ps.mounts[i].volume
    /\ ps.image # "" /\ \A h \in ps.hosts : DNSLabel(h)
JobValid(j, ns) == DNSLabel(j.name) /\ j.namespace = ns /\ SpecValid(j.spec)

\* boot: BuildJob again, and backend.Create in the namespace of the flags.
Submit ==
    /\ phase = "created"
    /\ job' = BuildJob(in) /\ sentTo' = flags.namespace
    /\ phase' = IF JobValid(job', sentTo') THEN "accepted" ELSE "rejected"
    /\ UNCHANGED <<flags, req, in>>

PlanNext == Serve \/ Create \/ Submit
PlanSpec == PlanInit /\ [][PlanNext]_planVars

PlanTypeOK ==
    /\ phase \in {"off", "flags", "refused", "serving", "invalid", "created", "accepted", "rejected"}
    /\ phase \in {"created", "accepted", "rejected"} => in.envID \in Seq(Letter \cup Digit \cup {"-"})

Submitted == phase \in {"accepted", "rejected"}

\* The Job name and its pods' names are DNS labels within the length newEnvID
\* leaves for them, whatever the runner calls the job.
EnvIdValid ==
    Submitted => /\ DNSLabel(job.name) /\ job.name[1] \in Letter
                 /\ Len(job.name) <= MaxPrefix + Len(JobPrefix) + Len(Suffix)

\* A class that is a valid podspec once main and its image are there, for a job
\* whose services are valid next to its containers, makes a Job the API server
\* accepts: what BuildJob adds never clashes with what the class brought.
ClassFits(b) ==
    /\ Distinct(b.spec.inits \o b.spec.containers) /\ Distinct(b.spec.volumes)
    /\ HasMain(b.spec) \/ \A i \in DOMAIN b.spec.inits : b.spec.inits[i] # Main
    /\ b.spec.image # "" \/ b.image # ""
    /\ \A h \in b.spec.hosts : DNSLabel(h)
    /\ Distinct([i \in DOMAIN b.spec.mounts |-> b.spec.mounts[i].path])
    /\ \A i \in DOMAIN b.spec.mounts :
         \/ b.spec.mounts[i].volume = Shared
         \/ /\ b.spec.mounts[i].path \notin {SharedMount, HelperMount}
            /\ \E n \in DOMAIN b.spec.volumes : b.spec.volumes[n] = b.spec.mounts[i].volume
    /\ \A i, k \in SharedMounts(b.spec.mounts) : i = k
BuildKeepsValid ==
    phase = "rejected" => ~ClassFits(in) \/ ~ServicesValid(in) \/ job.namespace # sentTo

\* Every Job the API server accepts is one the plugin can work with and finds
\* again: main has the workspace at SharedMount, the helper, when there is one,
\* is installed before anything else runs and is where steps look for it, and
\* the labels Sweep and Delete select on are the plugin's.
JobUsable ==
    phase = "accepted" =>
        /\ HasMain(job.spec)
        /\ \E i \in DOMAIN job.spec.mounts : job.spec.mounts[i] = MountAt(Shared, SharedMount)
        /\ flags.helperImage # "" =>
             /\ job.spec.inits[1] = Helper
             /\ \E i \in DOMAIN job.spec.mounts : job.spec.mounts[i] = MountAt(HelperVolume, HelperMount)
        /\ job.labels.managed = "us" /\ job.labels.envid = in.envID /\ job.labels.instance = in.instance

\* Create comments that a bad service fails Create, not Start (server.go): no
\* Job of a fitting class is rejected for its services.
ServicesVetted == phase = "rejected" /\ ClassFits(in) => ServicesValid(in)

\* The namespace option is where Jobs are created (README.md).
NamespaceHonoured == Submitted => sentTo = in.namespace

===========================================================================
