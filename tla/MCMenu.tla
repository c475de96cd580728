------------------------------- MODULE MCMenu -------------------------------
\* Menu for TLC: two names in the window, and a label before, among and behind files.
EXTENDS Menu

MCDefaults == {"ram32k", "fdc", "vsp", "tipi", "1200", "internal"}
MCConfigs == {MCDefaults \cup {"pcode"}, MCDefaults \ {"1200", "fdc"}}
MCListings ==
  { <<>>, <<"label">>, <<"file", "dir", "file">>, <<"dir", "label", "file", "file", "dir">>,
    <<"label", "file", ".", "file", "label", "file">>, <<"file", "file", "label">> }
=============================================================================
