-------------------------- MODULE MCControlCenter --------------------------
(* Small instances of ControlCenter: one request that asks anything, while
   another asks for the count. *)
EXTENDS ControlCenter

CONSTANTS r1, r2

MCRequests == {r1, r2}

Config(telegram, gb, ht, vps) == [telegram |-> telegram, gob |-> gb, http |-> ht, vps |-> vps]
Talks     == Config("good", FALSE, TRUE, TRUE)
Quiet     == Config("none", FALSE, TRUE, FALSE)
Malformed == Config("malformed", FALSE, TRUE, FALSE)
GobOnly   == Config("good", TRUE, FALSE, FALSE)
MCConfigs == {Talks, Quiet, Malformed, GobOnly}

Get(route, params) == [route |-> route, method |-> "GET", params |-> params]
Post(params)       == [route |-> "ping", method |-> "POST", params |-> params]

Anything ==
  {Get("swagger", "fine"), Get("ping", "fine"), Get("devices", "fine"),
   Get("update_dns", "fine"), Get("nextbus", "fine"),
   [route |-> "info", method |-> "OPTIONS", params |-> "fine"]}
  \union {Get("send_message", p) : p \in {"fine", "no api", "no text", "bad key"}}
  \union {Post(p) : p \in {"fine", "short id"}}

MCInputs == [r \in MCRequests |-> IF r = r1 THEN Anything ELSE {Get("info", "fine")}]

=============================================================================
