------------------------ MODULE MCLibraryGeneration ------------------------
(* The requests the runs try: none, each way to ask for the two Teensys that
   share a build, one other platform, one outside the default, one unknown. *)
EXTENDS LibraryGeneration

SomeRequests == {{}, {"teensy35", "teensy36"}, {"teensy36"}, {"cortex_m0"},
                 {"esp32s3", "teensy4"}, {"unknown"}}
=============================================================================
