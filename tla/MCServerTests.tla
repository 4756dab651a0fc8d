---------------------------- MODULE MCServerTests ---------------------------
(* The tests with a correct relay, and with the mistakes they must find. *)
EXTENDS ServerTests

Correct == {"gate", "diff", "strict"} \X {"none"}
Claimed == Correct
             \cup {"gate"} \X {"echo", "over_full", "mute_drop", "blind_crc"}
             \cup {"diff"} \X {"echo", "over_full", "mute_drop", "guest_go",
                              "blind_crc", "hash_order"}
             \cup {"strict"} \X {"no_guard"}
=============================================================================
