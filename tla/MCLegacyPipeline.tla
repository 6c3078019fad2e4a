-------------------------- MODULE MCLegacyPipeline --------------------------
(* Instances of LegacyPipeline: worlds that take every branch of the Stages. *)
EXTENDS LegacyPipeline

Speech == [audio |-> TRUE, speech |-> TRUE, words |-> TRUE, text |-> "text"]
Noise == [audio |-> TRUE, speech |-> TRUE, words |-> FALSE, text |-> "bitmap"]
Silent == [audio |-> FALSE, speech |-> FALSE, words |-> FALSE, text |-> "none"]

Talk == [video |-> Speech, events |-> "all", ocr |-> "all", hinted |-> TRUE,
         diarize |-> "turns", broken |-> 0]
CutShort == [Talk EXCEPT !.broken = Keyframes]
Mute == [Talk EXCEPT !.video = Silent, !.ocr = "disabled"]
Murmur == [video |-> Noise, events |-> "disabled", ocr |-> "caption-hints",
           hinted |-> FALSE, diarize |-> "refused", broken |-> 0]
Unheard == [Murmur EXCEPT !.video.speech = FALSE]

Whole == [stage |-> None, from |-> None, to |-> None]
Parts == {[Whole EXCEPT !.stage = Diarize], [Whole EXCEPT !.from = Captions, !.to = Ocr], [Whole EXCEPT !.from = Captions],
          [Whole EXCEPT !.from = Audio, !.to = Stt]}

MCRequests ==
  [default |->
     << [worlds |-> {Talk, Mute, Unheard}, selections |-> {Whole}],
        [worlds |-> {Talk, CutShort, Mute, Murmur}, selections |-> {Whole}],
        [worlds |-> {Talk, Mute}, selections |-> Parts] >>,
   reprocess |-> << [worlds |-> {Talk, CutShort}, selections |-> {Whole}] >>]
=============================================================================
