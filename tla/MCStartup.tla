------------------------------- MODULE MCStartup -------------------------------
(***************************************************************************)
(* Command lines that end the program at once, and ones that run it against *)
(* libraries, inputs, codecs, devices and a sender that work or do not.     *)
(***************************************************************************)
EXTENDS Startup

Arg(name, value) == [name |-> name, value |-> value]
Play == <<Arg("input", "movie.mp4")>>

Lines ==
    {Play,
     Play \o <<Arg("ndiLib", "dir")>>,
     Play \o <<Arg("hwaccel", "auto"), Arg("noAudio", "")>>,
     Play \o <<Arg("hwaccel", "vaapi"), Arg("threads", 128)>>,
     Play \o <<Arg("hwaccel", "quantum"), Arg("videoStream", 0)>>,
     Play \o <<Arg("audioStream", 0)>>,
     Play \o <<Arg("noVideo", ""), Arg("noAudio", "")>>,
     Play \o <<Arg("threads", 129), Arg("help", "")>>,
     Play \o <<Arg("help", ""), Arg("threads", 129)>>,
     Play \o <<Arg("audioRate", 7999)>>, Play \o <<Arg("word", "")>>,
     Play \o <<Arg("source", "")>>, Play \o <<Arg("input", "")>>}

Works == [libraries |-> <<"absent", "broken", "good">>, hinted |-> <<"good">>,
          opening |-> "opens",
          streams |-> <<[type |-> "video", cover |-> FALSE], [type |-> "audio", cover |-> FALSE]>>,
          codecs |-> {"video", "audio"},
          devices |-> [cuda |-> "unfit", vaapi |-> "works", vdpau |-> "fails"],
          sender |-> TRUE]

WorldsFound ==
    {Works,
     [Works EXCEPT !.libraries = <<"absent">>, !.hinted = <<"incomplete", "good">>],
     [Works EXCEPT !.libraries = <<"unsupported", "good">>],
     [Works EXCEPT !.libraries = <<"dead">>],
     [Works EXCEPT !.opening = "fails"], [Works EXCEPT !.opening = "hangs"],
     [Works EXCEPT !.streams[1].cover = TRUE],
     [Works EXCEPT !.streams[1].cover = TRUE, !.streams[2].type = "data"],
     [Works EXCEPT !.codecs = {"video"}], [Works EXCEPT !.codecs = {}],
     [Works EXCEPT !.devices["vaapi"] = "fails"],
     [Works EXCEPT !.sender = FALSE]}
=============================================================================
