-------------------------------- MODULE Bdb --------------------------------
(***************************************************************************)
(* What every reader and writer of the libraries shares                    *)
(* (common/src/include/biomdimacro.h): the return codes and the size test  *)
(* that the OREAD/OSCAN/OPUSH macros make before they touch a file or a    *)
(* biometric data block (BDB).                                             *)
(***************************************************************************)
EXTENDS Naturals

READ_OK    == "READ_OK"
READ_EOF   == "READ_EOF"
READ_ERROR == "READ_ERROR"
READ_CODES == {READ_OK, READ_EOF, READ_ERROR}

WRITE_OK    == "WRITE_OK"
WRITE_ERROR == "WRITE_ERROR"
WRITE_CODES == {WRITE_OK, WRITE_ERROR}

\* A record is read from an open file or from a BDB in memory.
Sources == {"file", "buffer"}

(***************************************************************************)
(* OSCAN and OPUSH fail when bdb_current + size is beyond bdb_end and then *)
(* leave bdb_current alone; fread comes back short at the same place.      *)
(***************************************************************************)
Fits(current, size, end) == current + size <= end

=============================================================================
