--------------------------- MODULE MCGiteeClient ---------------------------
(***************************************************************************)
(* The Gitee client with three callers: three that ask for the bot's name, *)
(* or one that reads a list, one that reads or adds to it and one that     *)
(* removes from it.                                                        *)
(***************************************************************************)
EXTENDS GiteeClient

CONSTANTS c1, c2, c3

MCCaller == {c1, c2, c3}

Three(x, y, z) == [c \in MCCaller |-> IF c = c1 THEN x ELSE IF c = c2 THEN y ELSE z]

MCWorkload ==
    { Three("BotName", "BotName", "BotName"),
      Three("GetPullRequests", "CreatePullRequest", "UpdatePullRequest"),
      Three("GetPRLabels", "AddPRLabel", "RemovePRLabel"),
      Three("ListPRComments", "CreatePRComment", "DeletePRComment"),
      Three("ListPrIssues", "GetRepos", "BotName") }

MCNewestFirst == {"pulls", "repos"}

=============================================================================
