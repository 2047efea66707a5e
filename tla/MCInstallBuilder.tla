-------------------------- MODULE MCInstallBuilder --------------------------
(***************************************************************************)
(* InstallBuilder for TLC: three links, one of an inline S3 setup on a     *)
(* custom image, one of the advanced panel behind a proxy, and one edited  *)
(* by hand until little of it parses.  Tabs and credentials are            *)
(* interchangeable.                                                        *)
(***************************************************************************)
EXTENDS InstallBuilder, TLC

MCOther == "other"
MCLinks ==
    {[storage |-> "s3", credsMode |-> "inline", db |-> "mysql", endpoint |-> "other",
      image |-> "custom", runMode |-> "pip"],
     [advancedOpen |-> TRUE, proxyMode |-> "nginx", proxyHostname |-> "other",
      tlsMode |-> "manual", autoMigrate |-> FALSE],
     [runMode |-> Garbage, db |-> "sqlite", bucket |-> "", replicas |-> 0,
      sessionTtlHours |-> 25, maxUploadMb |-> Garbage, advancedOpen |-> Garbage,
      proxyMode |-> Garbage]}
\* Tenths: one and a half, three, and less than nothing.
MCAmounts == {15, 30, -20}
\* One of the fields that the code treats alike stands for the others.
MCEdited == (UrlFields \cup CredKeys) \
    {"dbPort", "dbName", "dbUser", "tlsKeyPath", "maxUploadMb", "rateLimitBurst", "replicas",
     "sessionTtlHours", "challengeTtlMin", "credAwsRegion", "credAwsSecretAccessKey"}
Symmetry == Permutations(Tabs) \cup Permutations(Secrets)
=============================================================================
