----------------------------- MODULE MCIoModules -----------------------------
EXTENDS IoModules

Plan(a, b, c, d) == <<b, c, d>> @@ (0 :> a)

MCBackupPlans ==
    {Plan("read", "read", "read", "read"), Plan("check", "read", "keep", "check"),
     Plan("check", "check", "check", "read")}

MCRestorePlans ==
    {Plan("sparse", "sparse", "sparse", "sparse"),
     Plan("data", "sparse", "badmeta", "sparse"), Plan("missing", "data", "sparse", "data"),
     Plan("badmeta", "data", "data", "sparse")}
=============================================================================
