---------------------------- MODULE ConfigStore ----------------------------
(***************************************************************************)
(* The configuration: the file, the live copy all requests read, and the   *)
(* DHCP server's own copy (nimbus-core/src/config/mod.rs, and the helpers  *)
(* of nimbus-api/src/lib.rs).  A configuration is abstracted to one field  *)
(* of each kind the handlers treat differently: the password's hash, which *)
(* only one handler may change, the blocking mode, which has a handler of  *)
(* its own, the upstreams, which may be invalid, and the DHCP section,     *)
(* which is copied.                                                        *)
(***************************************************************************)
EXTENDS Naturals, Functions

CONSTANTS
  Password,   \* hashes; 0 is no password
  EnvMode     \* NIMBUS_dns_blocking_mode, or "unset"

Mode    == {"null", "disabled"}
Section == {"webserver", "dns", "dhcp"}
Config  == [password : Password, mode : Mode, upstreams : BOOLEAN, dhcp : BOOLEAN]

SectionOf == [password |-> "webserver", mode |-> "dns", upstreams |-> "dns", dhcp |-> "dhcp"]

ASSUME ConfigAssumption == Password \subseteq Nat /\ 0 \in Password /\ EnvMode \in Mode \cup {"unset"}

VARIABLES
  config,      \* AppState::config
  file,        \* the file at config_path
  dhcpConfig   \* AppState::dhcp_config

configVars == <<config, file, dhcpConfig>>

Default == [password |-> 0, mode |-> "null", upstreams |-> TRUE, dhcp |-> FALSE]

Whole(c) == [state |-> "whole", config |-> c]
\* An empty file is a configuration: every section has defaults.
Empty   == [state |-> "empty", config |-> Default]
Garbled == [state |-> "garbled", config |-> Default]

File == {Whole(c) : c \in Config} \cup {Empty, Garbled}

ConfigTypeOK == config \in Config /\ file \in File /\ dhcpConfig \in BOOLEAN

\* Config::validate
Valid(c) == c.upstreams

\* apply_env_overrides
WithEnv(c) == IF EnvMode = "unset" THEN c ELSE [c EXCEPT !.mode = EnvMode]

\* Config::load: the result, or none if the file does not parse or is invalid.
Load(f) == IF f.state = "garbled" THEN {} ELSE {c \in {WithEnv(f.config)} : Valid(c)}

\* A patch is [set, nulled]: fields with their new values, and sections that are
\* null.  json_merge removes what is null; what is missing gets its default.
Merge(c, patch) ==
  [f \in DOMAIN SectionOf |->
     IF f \in DOMAIN patch.set THEN patch.set[f]
     ELSE IF SectionOf[f] \in patch.nulled THEN Default[f] ELSE c[f]]

Strip_Nothing(patch) == patch

\* strip_secrets_from_config looks only into a section that is an object.
Strip(patch) == [patch EXCEPT !.set = Restrict(@, DOMAIN @ \ {"password"})]

Mentions(patch, section) ==
  section \in patch.nulled \/ \E f \in DOMAIN patch.set : SectionOf[f] = section

\* std::fs::write opens and truncates the file, and then writes from its start.
\* If another write came in between, the end of the longer one is left.
Truncate == file' = Empty
WriteOut(c) == file' \in {Whole(c)} \cup (IF file = Empty THEN {} ELSE {Garbled})
=============================================================================
