----------------------------- MODULE MCParamMap -----------------------------
(* Instances of ParamMap for TLC: a register of five bits with an unsigned *)
(* parameter whose limits are narrower than its field, a signed one, and a *)
(* bit that belongs to none.                                               *)
EXTENDS ParamMap

MCLayout ==
    [count |-> [reg |-> 2, startbit |-> 0, bitlength |-> 2, type |-> "UINT",
                min |-> 0, max |-> 2],
     level |-> [reg |-> 2, startbit |-> 2, bitlength |-> 2, type |-> "INT",
                min |-> -2, max |-> 1]]

(* Among them a count beyond its limit, and the bit that belongs to none. *)
MCRaw == {{}, {0, 1}, {1, 3, 4}, {0, 2}}

MCInput == {-3, -2, 1, 4}
=============================================================================
