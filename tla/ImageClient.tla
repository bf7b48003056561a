---------------------------- MODULE ImageClient -----------------------------
(***************************************************************************)
(* What those have in common that read or write image records: programs    *)
(* (ImageFile: firv, frfv, iibdbv; ImageWriter: cpfrf, mkfir, mkfrf) and   *)
(* callers of the libraries.                                               *)
(***************************************************************************)

VARIABLES
  client,   \* "program" or "caller"; of a writer "caller", "cpfrf" or "maker"
  at,       \* the place in the client
  status    \* what a program exits with

EXIT_SUCCESS == "EXIT_SUCCESS"
EXIT_FAILURE == "EXIT_FAILURE"

Exit(code) == at' = "exit" /\ status' = code

=============================================================================
