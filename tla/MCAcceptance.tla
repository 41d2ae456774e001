---------------------------- MODULE MCAcceptance ----------------------------
(* Acceptance with the inventory, the sweeps and the seeds of the program. *)
EXTENDS Acceptance

Groups ==
    << <<"calibration", 0>>, <<"calibration", 1>>, <<"calibration", 2>>,
       <<"held_out", 100>>, <<"held_out", 101>> >>

Sweep ==
    [p \in {"scalar", "fp32bmm", "bestof", "bestof_hx", "amx"} |->
        IF p = "amx" THEN {1, 8} ELSE {1, 8, 16, 32, 64}]

=============================================================================
