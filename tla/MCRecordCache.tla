--------------------------- MODULE MCRecordCache ---------------------------
(* RecordCache on two chromosomes, two positions and every capacity from   *)
(* unlimited to more than a record needs; records of one or two cores.     *)
EXTENDS RecordCache

MCCore == [chromosome : 1..2, position : 1..2, allele : {1}]
MCRecordCores == {<<c>> : c \in MCCore} \cup {<<c, d>> : c, d \in MCCore}
=============================================================================
