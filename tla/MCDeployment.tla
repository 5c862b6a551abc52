----------------------------- MODULE MCDeployment ------------------------------
(* Deployment on small sets, for TLC. *)
EXTENDS Deployment, TLC

CONSTANTS old, new, signing

MCParams == {old, new}
MCFlags ==
  {Nothing, "port" :> 0,
   ("port" :> 5000) @@ ("log_level" :> "debug")}

\* Values that are all right, that are on their own and not together, that no
\* rule admits, that do not parse, and a key that is not one.
MCWritable ==
  {<<"port", 65536>>, <<"pool", 1>>, <<"idle_pool", 5>>,
   <<"url", [usable |-> TRUE, password |-> "hunter2"]>>,
   <<"session_secret", signing>>, <<"password_hash", Garbage>>,
   <<"insecure_cookie", Malformed>>, <<"timezone", "Asia/Jakarta">>,
   <<"login_window", 0>>, <<Typo, 1>>}
================================================================================
