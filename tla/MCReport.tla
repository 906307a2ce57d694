------------------------------ MODULE MCReport ------------------------------
(* Report with the reads that later waves need, and the rest as one.        *)
EXTENDS Report
MCWaves == [route \in {"venues", "report", "report.pdf", "config/detail", "identity/trace"} |->
    CASE route = "venues" -> << {"venues"} >>
      [] route \in {"report", "report.pdf"} -> << {"pools"}, {"members"} >>
      [] route = "config/detail" -> << {"aps", "groups"}, {"objects"} >>
      [] OTHER -> << {"usernames"}, {"conditions"} >>]
=============================================================================
