--------------------------- MODULE MCProjectCommands ---------------------------
EXTENDS ProjectCommands, TLC

CONSTANTS dev, hub, s1, s2

\* `dev` is a scratch org in two lists, `hub` a production org that is the Dev
\* Hub; two more scratch orgs can be created.
MCDetails ==
    LET scratch == [lists |-> {"scratchOrgs", "nonScratchOrgs"}, isDevHub |-> FALSE,
                    scratchMark |-> TRUE, edition |-> "other", instance |-> "unknown"]
    IN  [o \in {dev, hub, s1, s2} |->
            IF o = hub THEN [lists |-> {"devHubs", "nonScratchOrgs"}, isDevHub |-> TRUE,
                             scratchMark |-> FALSE, edition |-> "production",
                             instance |-> "production"]
            ELSE scratch]
\* One step with a command, one with two, one with the dummy users behind it,
\* one without a configured value, one declared by the project.
MCBuiltin == <<"deploy", "permsets", "data", "altinn-scenario-users">>
MCCustom == <<"seed">>
MCNumCommands ==
    [s \in {"deploy", "permsets", "data", "altinn-scenario-users", "seed"} |->
        IF s = "altinn-scenario-users" THEN 2 ELSE 1]
MCStepSets ==
    {{"permsets", "data", "seed"}, {"deploy", "data", "altinn-scenario-users"}, {"deploy", "typo"}}
MCHolder0 == "feature" :> dev @@ "prod" :> hub
=============================================================================
