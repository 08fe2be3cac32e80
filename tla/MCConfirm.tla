------------------------------ MODULE MCConfirm ------------------------------
EXTENDS Confirm, TLC

CONSTANTS h1, h2

MCHosts == {h1, h2}

\* The prompts whose loops stop at the end of stdin, all of them, and the
\* overwrite prompt alone.
MCPrompts == {"InstallationConfirm", "DeleteConfirm", "UpgradeConfirm", "MigrateCri"}
MCAllPrompts == MCPrompts \cup {"CheckFile"}
MCCheckFile == {"CheckFile"}

\* Lower-cased, trimmed answers: both spellings of yes and no, another word
\* and an empty line.
MCWords == {"yes", "y", "no", "n", "sure", ""}

\* `docker version` server versions as the pre-check records them:
\* 18.09.1, 19.03.15, 20.10.7, 24.0.7, and an output the regexp rejects.
MCDockerVersions ==
    { << <<1, 8>>, <<0, 9>>, <<1>> >>,
      << <<1, 9>>, <<0, 3>>, <<1, 5>> >>,
      << <<2, 0>>, <<1, 0>>, <<7>> >>,
      << <<2, 4>>, <<0>>, <<7>> >>,
      NoParse }

MCSymmetry == Permutations(MCHosts)
====
