---------------------------- MODULE MCVcfParser ----------------------------
(* VcfParser on all files of up to MaxLines lines, at every level, for     *)
(* both kinds of versions and both kinds of line ends.                     *)
EXTENDS VcfParser

Cfg(l, new, e) == [level |-> l, v43 |-> new, eol |-> e]

MCConfigs == Config
MCCarriageReturn == {Cfg("warning", TRUE, "CRLF")}
MCNewline == {Cfg("warning", TRUE, "LF")}
=============================================================================
