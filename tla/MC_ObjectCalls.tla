--------------------------- MODULE MC_ObjectCalls ---------------------------
(* Small programs of ObjectCalls for TLC, with the numbers of MPICH. *)
EXTENDS ObjectCalls

MCClassOf == [comm1 |-> "Comm", comm2 |-> "Comm", group1 |-> "Group", group2 |-> "Group",
              info |-> "Info", type1 |-> "Type", type2 |-> "Type", op |-> "Op", file |-> "File",
              request |-> "Request"]

\* Each class of objects with those its calls take, and two of a class; other
\* arguments of the calls are constants.
MCPrograms == {{"comm1", "comm2"}, {"comm1", "info"}, {"comm1", "request", "group1"},
               {"group1", "group2"}, {"type1", "type2"}, {"op", "type1"}, {"file", "info"},
               {"file", "type1"}}

MCIds == {1, 2, 3}
MCNull == [Comm |-> 67108864, Group |-> 134217728, Type |-> 201326592, Op |-> 402653184,
           Info |-> 469762048, File |-> 0, Request |-> 738197504]
MCWorld   == 1140850688
MCSelf    == 1140850689
MCInteger == 1275069445
MCThread  == [SINGLE |-> 0, FUNNELED |-> 1, SERIALIZED |-> 2, MULTIPLE |-> 3]
MCCompare == [IDENT |-> 0, CONGRUENT |-> 1, SIMILAR |-> 2, UNEQUAL |-> 3]
MCErr == [COMM |-> 5, GROUP |-> 8, REQUEST |-> 19, TYPE |-> 3, OP |-> 9, INFO |-> 28, FILE |-> 27,
          ARG |-> 12, UNKNOWN |-> 13, NO_MEM |-> 34, AMODE |-> 21, ACCESS |-> 20, PROC_FAILED |-> 101]

\* One mode of each kind of access, one with none and one with two.
MCModes == {{"RDONLY"}, {"RDWR", "CREATE"}, {"WRONLY", "APPEND"}, {"CREATE"}, {"RDONLY", "WRONLY"}}
=============================================================================
