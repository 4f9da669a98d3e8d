------------------------ MODULE MCExplorerFreshness ------------------------
(* One explorer and any number of other browsers, which OtherOverview      *)
(* stands for: explorers share nothing but the server's cache and log.     *)
EXTENDS ExplorerFreshness
=============================================================================
