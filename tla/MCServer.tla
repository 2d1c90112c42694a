------------------------------ MODULE MCServer ------------------------------
(* Requests that are counted while the process ends and starts; requests   *)
(* and updates that meet in the pool and the locks; logins.                *)
EXTENDS Server

CONSTANTS r1, r2, u1, u2, a, b, o1, o2

Config(accounts, k) == [accounts |-> accounts, known |-> k]
Load(requests, updates, operators, ends) ==
  [requests |-> requests, updates |-> updates, operators |-> operators, ends |-> ends,
   config |-> Config({a}, TRUE), bodies |-> {}]

(* Requests that are counted while the process ends and starts; logins in *)
(* the same; requests that meet updates, and updates that meet updates.    *)
MCLoads ==
  { Load({r1, r2}, {}, {}, TRUE), Load({}, {}, {o1, o2}, TRUE),
    [Load({r1}, {u1, u2}, {}, FALSE) EXCEPT !.bodies =
       {Config({}, TRUE), Config({a}, FALSE)}],
    [Load({r1, r2}, {u1}, {}, FALSE) EXCEPT !.bodies = {Config({a, b}, FALSE)}],
    [Load({r1}, {u1}, {}, TRUE) EXCEPT !.bodies = {Config({b}, TRUE)}],
    [Load({}, {u1, u2}, {}, FALSE) EXCEPT !.config = Config({}, TRUE), !.bodies =
       {Config({a, b}, TRUE), Config({b}, TRUE)}] }
=============================================================================
