----------------------------- MODULE MCPStream -----------------------------
(* Buffers of two characters, one of them for putback.                     *)
EXTENDS PStream

MCModes == {pstream({"in", "out"}), ipstream({"err"}), opstream({}),
            rpstream({"err"})}
=============================================================================
