------------------------------ MODULE MCConnect ------------------------------
(* Parameters for Connect: one set for each kind of transport, and one for *)
(* each thing validate_session_params refuses.                             *)
EXTENDS Connect

Plain == [host |-> TRUE, address |-> FALSE, username |-> FALSE,
          password |-> FALSE, sslcert |-> FALSE, sslkey |-> FALSE,
          sslmode |-> "DISABLE", trust_callback |-> FALSE]

Secure == [Plain EXCEPT !.sslmode = "REQUIRE"]

SmallParams ==
  { Plain, Secure, [Secure EXCEPT !.trust_callback = TRUE],
    [Plain EXCEPT !.host = FALSE], [Plain EXCEPT !.address = TRUE],
    [Plain EXCEPT !.username = TRUE], [Secure EXCEPT !.sslkey = TRUE] }

==============================================================================
