------------------------------- MODULE MCLink --------------------------------
EXTENDS DiskFs

mcClients == {"shell", "display"}
mcText == <<"p", "q", "r">>
mcCalls ==
  [c \in mcClients |->
     IF c = "shell"
     THEN {"DiskStat", "DiskLs", "DiskMkdir", "DiskRm", "DiskRead", "DiskWrite", "DiskAppend"}
     ELSE {"DiskWrite"}]
mcFirstDisk == {Absent, [kind |-> "file", data |-> <<"x", "y", "z">>]}
=============================================================================
