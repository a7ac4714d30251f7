---------------------------- MODULE VideoTimings ----------------------------
(***************************************************************************)
(* The tables of src/xlnx_libs/video_common: the timings of the standard   *)
(* video modes (xvidc_timings_table.c) and the enumerators of their        *)
(* identifiers (xvidc.h), both in the order of the source.                 *)
(*                                                                         *)
(* A mode's string is kept only as far as XVidC_IsVtmRb() tells strings    *)
(* apart: rb is 1 if it says (RB), else 0.                                 *)
(***************************************************************************)
EXTENDS Integers, Sequences

\* A row of the table: the enumerator it is for, the frame rate, the kind of
\* reduced blanking, the timing.
Mode(name, rate, rb, timing) == [name |-> name, rate |-> rate, rb |-> rb, t |-> timing]

\* Modes 0 to 23: the height is that of a field, field 1 has a total of its own.
InterlacedModes == <<
  Mode("720x480_60_I", 60, 0, <<720,19,62,57,858,0, 240,4,3,15,262, 5,3,15,263, 0>>),
  Mode("720x486_60_I", 60, 0, <<720,19,62,57,858,0, 243,1,3,15,262, 2,3,15,263, 0>>),
  Mode("720x576_50_I", 50, 0, <<720,12,63,69,864,0, 288,2,3,19,312, 3,3,19,313, 0>>),
  Mode("1440x480_60_I", 60, 0, <<1440,38,124,114,1716,0, 240,4,3,15,262, 5,3,15,263, 0>>),
  Mode("1440x480_120_I", 120, 0, <<1440,38,124,114,1716,0, 240,4,3,15,262, 5,3,15,263, 0>>),
  Mode("1440x480_240_I", 240, 0, <<1440,38,124,114,1716,0, 240,4,3,15,262, 5,3,15,263, 0>>),
  Mode("1440x576_50_I", 50, 0, <<1440,24,126,138,1728,0, 288,2,3,19,312, 3,3,19,313, 0>>),
  Mode("1440x576_100_I", 100, 0, <<1440,24,126,138,1728,0, 288,2,3,19,312, 3,3,19,313, 0>>),
  Mode("1440x576_200_I", 200, 0, <<1440,24,126,138,1728,0, 288,2,3,19,312, 3,3,19,313, 0>>),
  Mode("1920x1080_48_I", 48, 0, <<1920,371,88,371,2750,1, 540,2,5,15,562, 3,5,15,563, 1>>),
  Mode("1920x1080_50_I", 50, 0, <<1920,528,44,148,2640,1, 540,2,5,15,562, 3,5,15,563, 1>>),
  Mode("1920x1080_50_I_VT1250", 50, 0, <<1920,32,168,184,2304,1, 540,23,5,57,625, 23,5,57,625, 0>>),
  Mode("1920x1080_60_I", 60, 0, <<1920,88,44,148,2200,1, 540,2,5,15,562, 3,5,15,563, 1>>),
  Mode("1920x1080_96_I", 96, 0, <<1920,371,88,371,2750,1, 540,2,5,15,562, 3,5,15,563, 1>>),
  Mode("1920x1080_100_I", 100, 0, <<1920,528,44,148,2640,1, 540,2,5,15,562, 3,5,15,563, 1>>),
  Mode("1920x1080_120_I", 120, 0, <<1920,88,44,148,2200,1, 540,2,5,15,562, 3,5,15,563, 1>>),
  Mode("2048x1080_48_I", 48, 0, <<2048,329,44,329,2750,1, 540,2,5,15,562, 3,5,15,563, 1>>),
  Mode("2048x1080_50_I", 50, 0, <<2048,274,44,274,2640,1, 540,2,5,15,562, 3,5,15,563, 1>>),
  Mode("2048x1080_60_I", 60, 0, <<2048,66,20,66,2200,1, 540,2,5,15,562, 3,5,15,563, 1>>),
  Mode("2048x1080_96_I", 96, 0, <<2048,329,44,329,2750,1, 540,2,5,15,562, 3,5,15,563, 1>>),
  Mode("2048x1080_100_I", 100, 0, <<2048,274,44,274,2640,1, 540,2,5,15,562, 3,5,15,563, 1>>),
  Mode("2048x1080_120_I", 120, 0, <<2048,66,20,66,2200,1, 540,2,5,15,562, 3,5,15,563, 1>>),
  Mode("2880x480_60_I", 60, 0, <<2880,76,248,228,3432,0, 240,4,3,15,262, 5,3,15,263, 0>>),
  Mode("2880x576_50_I", 50, 0, <<2880,48,252,276,3456,0, 288,2,3,19,312, 3,3,19,313, 0>>) >>

\* Modes 24 to 73.
ProgressiveModes1 == <<
  Mode("640x350_85_P", 85, 0, <<640,32,64,96,832,1, 350,32,3,60,445, 0,0,0,0, 0>>),
  Mode("640x480_60_P", 60, 0, <<640,16,96,48,800,0, 480,10,2,33,525, 0,0,0,0, 0>>),
  Mode("640x480_72_P", 72, 0, <<640,24,40,128,832,0, 480,9,3,28,520, 0,0,0,0, 0>>),
  Mode("640x480_75_P", 75, 0, <<640,16,64,120,840,0, 480,1,3,16,500, 0,0,0,0, 0>>),
  Mode("640x480_85_P", 85, 0, <<640,56,56,80,832,0, 480,1,3,25,509, 0,0,0,0, 0>>),
  Mode("720x400_85_P", 85, 0, <<720,36,72,108,936,0, 400,1,3,42,446, 0,0,0,0, 1>>),
  Mode("720x480_60_P", 60, 0, <<720,16,62,60,858,0, 480,9,6,30,525, 0,0,0,0, 0>>),
  Mode("720x480_120_P", 120, 0, <<720,16,62,60,858,0, 480,9,6,30,525, 0,0,0,0, 0>>),
  Mode("720x480_240_P", 240, 0, <<720,16,62,60,858,0, 480,9,6,30,525, 0,0,0,0, 0>>),
  Mode("720x576_50_P", 50, 0, <<720,12,64,68,864,0, 576,5,5,39,625, 0,0,0,0, 0>>),
  Mode("720x576_100_P", 100, 0, <<720,12,64,68,864,0, 576,5,5,39,625, 0,0,0,0, 0>>),
  Mode("720x576_200_P", 200, 0, <<720,12,64,68,864,0, 576,5,5,39,625, 0,0,0,0, 0>>),
  Mode("800x600_56_P", 56, 0, <<800,24,72,128,1024,1, 600,1,2,22,625, 0,0,0,0, 1>>),
  Mode("800x600_60_P", 60, 0, <<800,40,128,88,1056,1, 600,1,4,23,628, 0,0,0,0, 1>>),
  Mode("800x600_72_P", 72, 0, <<800,56,120,64,1040,1, 600,37,6,23,666, 0,0,0,0, 1>>),
  Mode("800x600_75_P", 75, 0, <<800,16,80,160,1056,1, 600,1,3,21,625, 0,0,0,0, 1>>),
  Mode("800x600_85_P", 85, 0, <<800,32,64,152,1048,1, 600,1,3,27,631, 0,0,0,0, 1>>),
  Mode("800x600_120_P_RB", 120, 1, <<800,48,32,80,960,1, 600,3,4,29,636, 0,0,0,0, 0>>),
  Mode("848x480_60_P", 60, 0, <<848,16,112,112,1088,1, 480,6,8,23,517, 0,0,0,0, 1>>),
  Mode("1024x768_60_P", 60, 0, <<1024,24,136,160,1344,0, 768,3,6,29,806, 0,0,0,0, 0>>),
  Mode("1024x768_70_P", 70, 0, <<1024,24,136,144,1328,0, 768,3,6,29,806, 0,0,0,0, 0>>),
  Mode("1024x768_75_P", 75, 0, <<1024,16,96,176,1312,1, 768,1,3,28,800, 0,0,0,0, 1>>),
  Mode("1024x768_85_P", 85, 0, <<1024,48,96,208,1376,1, 768,1,3,36,808, 0,0,0,0, 1>>),
  Mode("1024x768_120_P_RB", 120, 1, <<1024,48,32,80,1184,1, 768,3,4,38,813, 0,0,0,0, 0>>),
  Mode("1152x864_75_P", 75, 0, <<1152,64,128,256,1600,1, 864,1,3,32,900, 0,0,0,0, 1>>),
  Mode("1280x720_24_P", 24, 0, <<1280,1760,40,220,3300,1, 720,5,5,20,750, 0,0,0,0, 1>>),
  Mode("1280x720_25_P", 25, 0, <<1280,2420,40,220,3960,1, 720,5,5,20,750, 0,0,0,0, 1>>),
  Mode("1280x720_30_P", 30, 0, <<1280,1760,40,220,3300,1, 720,5,5,20,750, 0,0,0,0, 1>>),
  Mode("1280x720_48_P", 48, 0, <<1280,960,40,220,2500,1, 720,5,5,20,750, 0,0,0,0, 1>>),
  Mode("1280x720_50_P", 50, 0, <<1280,440,40,220,1980,1, 720,5,5,20,750, 0,0,0,0, 1>>),
  Mode("1280x720_60_P", 60, 0, <<1280,110,40,220,1650,1, 720,5,5,20,750, 0,0,0,0, 1>>),
  Mode("1280x720_100_P", 100, 0, <<1280,440,40,220,1980,1, 720,5,5,20,750, 0,0,0,0, 1>>),
  Mode("1280x720_120_P", 120, 0, <<1280,110,40,220,1650,1, 720,5,5,20,750, 0,0,0,0, 1>>),
  Mode("1280x768_60_P", 60, 0, <<1280,64,128,192,1664,0, 768,3,7,20,798, 0,0,0,0, 1>>),
  Mode("1280x768_60_P_RB", 60, 1, <<1280,48,32,80,1440,1, 768,3,7,12,790, 0,0,0,0, 0>>),
  Mode("1280x768_75_P", 75, 0, <<1280,80,128,208,1696,0, 768,3,7,27,805, 0,0,0,0, 1>>),
  Mode("1280x768_85_P", 85, 0, <<1280,80,136,216,1712,0, 768,3,7,31,809, 0,0,0,0, 1>>),
  Mode("1280x768_120_P_RB", 120, 1, <<1280,48,32,80,1440,1, 768,3,7,35,813, 0,0,0,0, 0>>),
  Mode("1280x800_60_P", 60, 0, <<1280,72,128,200,1680,0, 800,3,6,22,831, 0,0,0,0, 1>>),
  Mode("1280x800_60_P_RB", 60, 1, <<1280,48,32,80,1440,1, 800,3,6,14,823, 0,0,0,0, 0>>),
  Mode("1280x800_75_P", 75, 0, <<1280,80,128,208,1696,0, 800,3,6,29,838, 0,0,0,0, 1>>),
  Mode("1280x800_85_P", 85, 0, <<1280,80,136,216,1712,0, 800,3,6,34,843, 0,0,0,0, 1>>),
  Mode("1280x800_120_P_RB", 120, 1, <<1280,48,32,80,1440,1, 800,3,6,38,847, 0,0,0,0, 0>>),
  Mode("1280x960_60_P", 60, 0, <<1280,96,112,312,1800,1, 960,1,3,36,1000, 0,0,0,0, 1>>),
  Mode("1280x960_85_P", 85, 0, <<1280,64,160,224,1728,1, 960,1,3,47,1011, 0,0,0,0, 1>>),
  Mode("1280x960_120_P_RB", 120, 1, <<1280,48,32,80,1440,1, 960,3,4,50,1017, 0,0,0,0, 0>>),
  Mode("1280x1024_60_P", 60, 0, <<1280,48,112,248,1688,1, 1024,1,3,38,1066, 0,0,0,0, 1>>),
  Mode("1280x1024_75_P", 75, 0, <<1280,16,144,248,1688,1, 1024,1,3,38,1066, 0,0,0,0, 1>>),
  Mode("1280x1024_85_P", 85, 0, <<1280,64,160,224,1728,1, 1024,1,3,44,1072, 0,0,0,0, 1>>),
  Mode("1280x1024_120_P_RB", 120, 1, <<1280,48,32,80,1440,1, 1024,3,7,50,1084, 0,0,0,0, 0>>) >>

\* Modes 74 to 123.
ProgressiveModes2 == <<
  Mode("1360x768_60_P", 60, 0, <<1360,64,112,256,1792,1, 768,3,6,18,795, 0,0,0,0, 1>>),
  Mode("1360x768_120_P_RB", 120, 1, <<1360,48,32,80,1520,1, 768,3,5,37,813, 0,0,0,0, 0>>),
  Mode("1366x768_60_P", 60, 0, <<1366,70,143,213,1792,1, 768,3,3,24,798, 0,0,0,0, 1>>),
  Mode("1366x768_60_P_RB", 60, 1, <<1366,14,56,64,1500,1, 768,1,3,28,800, 0,0,0,0, 1>>),
  Mode("1400x1050_60_P", 60, 0, <<1400,88,144,232,1864,0, 1050,3,4,32,1089, 0,0,0,0, 1>>),
  Mode("1400x1050_60_P_RB", 60, 1, <<1400,48,32,80,1560,1, 1050,3,4,23,1080, 0,0,0,0, 0>>),
  Mode("1400x1050_75_P", 75, 0, <<1400,104,144,248,1896,0, 1050,3,4,42,1099, 0,0,0,0, 1>>),
  Mode("1400x1050_85_P", 85, 0, <<1400,104,152,256,1912,0, 1050,3,4,48,1105, 0,0,0,0, 1>>),
  Mode("1400x1050_120_P_RB", 120, 1, <<1400,48,32,80,1560,1, 1050,3,4,55,1112, 0,0,0,0, 0>>),
  Mode("1440x240_60_P", 60, 0, <<1440,38,124,114,1716,0, 240,4,3,15,262, 0,0,0,0, 0>>),
  Mode("1440x240_60_P_VT263", 60, 0, <<1440,38,124,114,1716,0, 240,5,3,15,263, 0,0,0,0, 0>>),
  Mode("1440x288_50_P", 50, 0, <<1440,24,126,138,1728,0, 288,3,3,19,313, 0,0,0,0, 0>>),
  Mode("1440x288_50_P_VT314", 50, 0, <<1440,24,126,138,1728,0, 288,4,3,19,314, 0,0,0,0, 0>>),
  Mode("1440x288_50_P_VT312", 50, 0, <<1440,24,126,138,1728,0, 288,2,3,19,312, 0,0,0,0, 0>>),
  Mode("1440x480_60_P", 60, 0, <<1440,32,124,120,1716,0, 480,9,6,30,525, 0,0,0,0, 0>>),
  Mode("1440x576_50_P", 50, 0, <<1440,24,128,136,1728,0, 576,5,5,39,625, 0,0,0,0, 0>>),
  Mode("1440x900_60_P", 60, 0, <<1440,80,152,232,1904,0, 900,3,6,25,934, 0,0,0,0, 1>>),
  Mode("1440x900_60_P_RB", 60, 1, <<1440,48,32,80,1600,1, 900,3,6,17,926, 0,0,0,0, 0>>),
  Mode("1440x900_75_P", 75, 0, <<1440,96,152,248,1936,0, 900,3,6,33,942, 0,0,0,0, 1>>),
  Mode("1440x900_85_P", 85, 0, <<1440,104,152,256,1952,0, 900,3,6,39,948, 0,0,0,0, 1>>),
  Mode("1440x900_120_P_RB", 120, 1, <<1440,48,32,80,1600,1, 900,3,6,44,953, 0,0,0,0, 0>>),
  Mode("1600x1200_60_P", 60, 0, <<1600,64,192,304,2160,1, 1200,1,3,46,1250, 0,0,0,0, 1>>),
  Mode("1600x1200_65_P", 65, 0, <<1600,64,192,304,2160,1, 1200,1,3,46,1250, 0,0,0,0, 1>>),
  Mode("1600x1200_70_P", 70, 0, <<1600,64,192,304,2160,1, 1200,1,3,46,1250, 0,0,0,0, 1>>),
  Mode("1600x1200_75_P", 75, 0, <<1600,64,192,304,2160,1, 1200,1,3,46,1250, 0,0,0,0, 1>>),
  Mode("1600x1200_85_P", 85, 0, <<1600,64,192,304,2160,1, 1200,1,3,46,1250, 0,0,0,0, 1>>),
  Mode("1600x1200_120_P_RB", 120, 1, <<1600,48,32,80,1760,1, 1200,3,4,64,1271, 0,0,0,0, 0>>),
  Mode("1680x720_24_P", 24, 0, <<1680,1360,40,220,3300,1, 720,5,5,20,750, 0,0,0,0, 1>>),
  Mode("1680x720_25_P", 25, 0, <<1680,1228,40,220,3168,1, 720,5,5,20,750, 0,0,0,0, 1>>),
  Mode("1680x720_30_P", 30, 0, <<1680,700,40,220,2640,1, 720,5,5,20,750, 0,0,0,0, 1>>),
  Mode("1680x720_48_P", 48, 0, <<1680,810,40,220,2750,1, 720,5,5,20,750, 0,0,0,0, 1>>),
  Mode("1680x720_50_P", 50, 0, <<1680,260,40,220,2200,1, 720,5,5,20,750, 0,0,0,0, 1>>),
  Mode("1680x720_60_P", 60, 0, <<1680,260,40,220,2200,1, 720,5,5,20,750, 0,0,0,0, 1>>),
  Mode("1680x720_100_P", 100, 0, <<1680,60,40,220,2000,1, 720,5,5,95,825, 0,0,0,0, 1>>),
  Mode("1680x720_120_P", 120, 0, <<1680,60,40,220,2000,1, 720,5,5,95,825, 0,0,0,0, 1>>),
  Mode("1680x1050_50_P", 50, 0, <<1680,88,176,264,2208,0, 1050,3,6,24,1083, 0,0,0,0, 1>>),
  Mode("1680x1050_60_P", 60, 0, <<1680,104,176,280,2240,0, 1050,3,6,30,1089, 0,0,0,0, 1>>),
  Mode("1680x1050_60_P_RB", 60, 1, <<1680,48,32,80,1840,1, 1050,3,6,21,1080, 0,0,0,0, 0>>),
  Mode("1680x1050_75_P", 75, 0, <<1680,120,176,296,2272,0, 1050,3,6,40,1099, 0,0,0,0, 1>>),
  Mode("1680x1050_85_P", 85, 0, <<1680,128,176,304,2288,0, 1050,3,6,46,1105, 0,0,0,0, 1>>),
  Mode("1680x1050_120_P_RB", 120, 1, <<1680,48,32,80,1840,1, 1050,3,6,53,1112, 0,0,0,0, 0>>),
  Mode("1792x1344_60_P", 60, 0, <<1792,128,200,328,2448,0, 1344,1,3,46,1394, 0,0,0,0, 1>>),
  Mode("1792x1344_75_P", 75, 0, <<1792,96,216,352,2456,0, 1344,1,3,69,1417, 0,0,0,0, 1>>),
  Mode("1792x1344_120_P_RB", 120, 1, <<1792,48,32,80,1952,1, 1344,3,4,72,1423, 0,0,0,0, 0>>),
  Mode("1856x1392_60_P", 60, 0, <<1856,96,224,352,2528,0, 1392,1,3,43,1439, 0,0,0,0, 1>>),
  Mode("1856x1392_75_P", 75, 0, <<1856,128,224,352,2560,0, 1392,1,3,104,1500, 0,0,0,0, 1>>),
  Mode("1856x1392_120_P_RB", 120, 1, <<1856,48,32,80,2016,1, 1392,3,4,75,1474, 0,0,0,0, 0>>),
  Mode("1920x1080_24_P", 24, 0, <<1920,638,44,148,2750,1, 1080,4,5,36,1125, 0,0,0,0, 1>>),
  Mode("1920x1080_25_P", 25, 0, <<1920,528,44,148,2640,1, 1080,4,5,36,1125, 0,0,0,0, 1>>),
  Mode("1920x1080_30_P", 30, 0, <<1920,88,44,148,2200,1, 1080,4,5,36,1125, 0,0,0,0, 1>>) >>

\* Modes 124 to 173.
ProgressiveModes3 == <<
  Mode("1920x1080_48_P", 48, 0, <<1920,638,44,148,2750,1, 1080,4,5,36,1125, 0,0,0,0, 1>>),
  Mode("1920x1080_50_P", 50, 0, <<1920,528,44,148,2640,1, 1080,4,5,36,1125, 0,0,0,0, 1>>),
  Mode("1920x1080_60_P", 60, 0, <<1920,88,44,148,2200,1, 1080,4,5,36,1125, 0,0,0,0, 1>>),
  Mode("1920x1080_100_P", 100, 0, <<1920,528,44,148,2640,1, 1080,4,5,36,1125, 0,0,0,0, 1>>),
  Mode("1920x1080_120_P", 120, 0, <<1920,88,44,148,2200,1, 1080,4,5,36,1125, 0,0,0,0, 1>>),
  Mode("1920x1200_60_P", 60, 0, <<1920,136,200,336,2592,0, 1200,3,6,36,1245, 0,0,0,0, 1>>),
  Mode("1920x1200_60_P_RB", 60, 1, <<1920,48,32,80,2080,1, 1200,3,6,26,1235, 0,0,0,0, 0>>),
  Mode("1920x1200_75_P", 75, 0, <<1920,136,208,344,2608,0, 1200,3,6,46,1255, 0,0,0,0, 1>>),
  Mode("1920x1200_85_P", 85, 0, <<1920,144,208,352,2624,0, 1200,3,6,53,1262, 0,0,0,0, 1>>),
  Mode("1920x1200_120_P_RB", 120, 1, <<1920,48,32,80,2080,1, 1200,3,6,62,1271, 0,0,0,0, 0>>),
  Mode("1920x1440_60_P", 60, 0, <<1920,128,208,344,2600,0, 1440,1,3,56,1500, 0,0,0,0, 1>>),
  Mode("1920x1440_75_P", 75, 0, <<1920,144,224,352,2640,0, 1440,1,3,56,1500, 0,0,0,0, 1>>),
  Mode("1920x1440_120_P_RB", 120, 1, <<1920,48,32,80,2080,1, 1440,3,4,78,1525, 0,0,0,0, 0>>),
  Mode("1920x2160_60_P", 60, 0, <<1920,88,44,148,2200,1, 2160,20,10,60,2250, 0,0,0,0, 0>>),
  Mode("2048x1080_24_P", 24, 0, <<2048,510,44,148,2750,1, 1080,4,5,36,1125, 0,0,0,0, 1>>),
  Mode("2048x1080_25_P", 25, 0, <<2048,400,44,148,2640,1, 1080,4,5,36,1125, 0,0,0,0, 1>>),
  Mode("2048x1080_30_P", 30, 0, <<2048,66,20,66,2200,1, 1080,4,5,36,1125, 0,0,0,0, 1>>),
  Mode("2048x1080_48_P", 48, 0, <<2048,510,44,148,2750,1, 1080,4,5,36,1125, 0,0,0,0, 1>>),
  Mode("2048x1080_50_P", 50, 0, <<2048,400,44,148,2640,1, 1080,4,5,36,1125, 0,0,0,0, 1>>),
  Mode("2048x1080_60_P", 60, 0, <<2048,88,44,20,2200,1, 1080,4,5,36,1125, 0,0,0,0, 1>>),
  Mode("2048x1080_100_P", 100, 0, <<2048,528,44,148,2640,1, 1080,4,5,36,1125, 0,0,0,0, 1>>),
  Mode("2048x1080_120_P", 120, 0, <<2048,88,44,148,2200,1, 1080,4,5,36,1125, 0,0,0,0, 1>>),
  Mode("2560x1080_24_P", 24, 0, <<2560,998,44,148,3750,1, 1080,4,5,11,1100, 0,0,0,0, 1>>),
  Mode("2560x1080_25_P", 25, 0, <<2560,448,44,148,3200,1, 1080,4,5,36,1125, 0,0,0,0, 1>>),
  Mode("2560x1080_30_P", 30, 0, <<2560,768,44,148,3520,1, 1080,4,5,36,1125, 0,0,0,0, 1>>),
  Mode("2560x1080_48_P", 48, 0, <<2560,998,44,148,3750,1, 1080,4,5,11,1100, 0,0,0,0, 1>>),
  Mode("2560x1080_50_P", 50, 0, <<2560,548,44,148,3300,1, 1080,4,5,36,1125, 0,0,0,0, 1>>),
  Mode("2560x1080_60_P", 60, 0, <<2560,248,44,148,3000,1, 1080,4,5,11,1100, 0,0,0,0, 1>>),
  Mode("2560x1080_100_P", 100, 0, <<2560,218,44,148,2970,1, 1080,4,5,161,1250, 0,0,0,0, 1>>),
  Mode("2560x1080_120_P", 120, 0, <<2560,548,44,148,3300,1, 1080,4,5,161,1250, 0,0,0,0, 1>>),
  Mode("2560x1600_60_P", 60, 0, <<2560,192,280,472,3504,0, 1600,3,6,49,1658, 0,0,0,0, 1>>),
  Mode("2560x1600_60_P_RB", 60, 1, <<2560,48,32,80,2720,1, 1600,3,6,37,1646, 0,0,0,0, 0>>),
  Mode("2560x1600_75_P", 75, 0, <<2560,208,280,488,3536,0, 1600,3,6,63,1672, 0,0,0,0, 1>>),
  Mode("2560x1600_85_P", 85, 0, <<2560,208,280,488,3536,0, 1600,3,6,73,1682, 0,0,0,0, 1>>),
  Mode("2560x1600_120_P_RB", 120, 1, <<2560,48,32,80,2720,1, 1600,3,6,85,1694, 0,0,0,0, 0>>),
  Mode("2880x240_60_P", 60, 0, <<2880,76,248,228,3432,0, 240,4,3,15,262, 0,0,0,0, 0>>),
  Mode("2880x240_60_P_VT263", 60, 0, <<2880,76,248,228,3432,0, 240,5,3,15,263, 0,0,0,0, 0>>),
  Mode("2880x288_50_P", 50, 0, <<2880,48,252,276,3456,0, 288,3,3,19,313, 0,0,0,0, 0>>),
  Mode("2880x288_50_P_VT314", 50, 0, <<2880,48,252,276,3456,0, 288,4,3,19,314, 0,0,0,0, 0>>),
  Mode("2880x288_50_P_VT312", 50, 0, <<2880,48,252,276,3456,0, 288,2,3,19,312, 0,0,0,0, 0>>),
  Mode("2880x480_60_P", 60, 0, <<2880,64,248,240,3432,0, 480,9,6,30,525, 0,0,0,0, 0>>),
  Mode("2880x576_50_P", 50, 0, <<2880,48,256,272,3456,0, 576,5,5,39,625, 0,0,0,0, 0>>),
  Mode("3840x2160_24_P", 24, 0, <<3840,1276,88,296,5500,1, 2160,8,10,72,2250, 0,0,0,0, 1>>),
  Mode("3840x2160_25_P", 25, 0, <<3840,1056,88,296,5280,1, 2160,8,10,72,2250, 0,0,0,0, 1>>),
  Mode("3840x2160_30_P", 30, 0, <<3840,176,88,296,4400,1, 2160,8,10,72,2250, 0,0,0,0, 1>>),
  Mode("3840x2160_48_P", 48, 0, <<3840,1276,88,296,5500,1, 2160,8,10,72,2250, 0,0,0,0, 1>>),
  Mode("3840x2160_50_P", 50, 0, <<3840,1056,88,296,5280,1, 2160,8,10,72,2250, 0,0,0,0, 1>>),
  Mode("3840x2160_60_P", 60, 0, <<3840,176,88,296,4400,1, 2160,8,10,72,2250, 0,0,0,0, 1>>),
  Mode("3840x2160_60_P_RB", 60, 1, <<3840,48,32,80,4000,1, 2160,3,5,54,2222, 0,0,0,0, 0>>),
  Mode("3840x2160_100_P", 100, 0, <<3840,1056,88,296,5280,1, 2160,8,10,72,2250, 0,0,0,0, 1>>) >>

\* Modes 174 to 207.
ProgressiveModes4 == <<
  Mode("3840x2160_120_P", 120, 0, <<3840,176,88,296,4400,1, 2160,8,10,72,2250, 0,0,0,0, 1>>),
  Mode("4096x2160_24_P", 24, 0, <<4096,1020,88,296,5500,1, 2160,8,10,72,2250, 0,0,0,0, 1>>),
  Mode("4096x2160_25_P", 25, 0, <<4096,968,88,128,5280,1, 2160,8,10,72,2250, 0,0,0,0, 1>>),
  Mode("4096x2160_30_P", 30, 0, <<4096,88,88,128,4400,1, 2160,8,10,72,2250, 0,0,0,0, 1>>),
  Mode("4096x2160_48_P", 48, 0, <<4096,1020,88,296,5500,1, 2160,8,10,72,2250, 0,0,0,0, 1>>),
  Mode("4096x2160_50_P", 50, 0, <<4096,968,88,128,5280,1, 2160,8,10,72,2250, 0,0,0,0, 1>>),
  Mode("4096x2160_60_P", 60, 0, <<4096,88,88,128,4400,1, 2160,8,10,72,2250, 0,0,0,0, 1>>),
  Mode("4096x2160_60_P_RB", 60, 1, <<4096,8,32,40,4176,1, 2160,48,8,6,2222, 0,0,0,0, 0>>),
  Mode("4096x2160_100_P", 100, 0, <<4096,800,88,296,5280,1, 2160,8,10,72,2250, 0,0,0,0, 1>>),
  Mode("4096x2160_120_P", 120, 0, <<4096,88,88,128,4400,1, 2160,8,10,72,2250, 0,0,0,0, 1>>),
  Mode("5120x2160_24_P", 24, 0, <<5120,1996,88,296,7500,1, 2160,8,10,22,2200, 0,0,0,0, 1>>),
  Mode("5120x2160_25_P", 25, 0, <<5120,1696,88,296,7200,1, 2160,8,10,22,2200, 0,0,0,0, 1>>),
  Mode("5120x2160_30_P", 30, 0, <<5120,664,88,128,6000,1, 2160,8,10,22,2200, 0,0,0,0, 1>>),
  Mode("5120x2160_48_P", 48, 0, <<5120,746,88,296,6250,1, 2160,8,10,297,2475, 0,0,0,0, 1>>),
  Mode("5120x2160_50_P", 50, 0, <<5120,1096,88,296,6600,1, 2160,8,10,72,2250, 0,0,0,0, 1>>),
  Mode("5120x2160_60_P", 60, 0, <<5120,164,88,128,5500,1, 2160,8,10,72,2250, 0,0,0,0, 1>>),
  Mode("5120x2160_100_P", 100, 0, <<5120,1096,88,296,6600,1, 2160,8,10,72,2250, 0,0,0,0, 1>>),
  Mode("5120x2160_120_P", 120, 0, <<5120,164,88,128,5500,1, 2160,8,10,72,2250, 0,0,0,0, 1>>),
  Mode("7680x4320_24_P", 24, 0, <<7680,2552,176,592,11000,1, 4320,16,20,144,4500, 0,0,0,0, 1>>),
  Mode("7680x4320_25_P", 25, 0, <<7680,2352,176,592,10800,1, 4320,16,20,44,4400, 0,0,0,0, 1>>),
  Mode("7680x4320_30_P", 30, 0, <<7680,552,176,592,9000,1, 4320,16,20,44,4400, 0,0,0,0, 1>>),
  Mode("7680x4320_48_P", 48, 0, <<7680,2552,176,592,11000,1, 4320,16,20,144,4500, 0,0,0,0, 1>>),
  Mode("7680x4320_50_P", 50, 0, <<7680,2352,176,592,10800,1, 4320,16,20,44,4400, 0,0,0,0, 1>>),
  Mode("7680x4320_60_P", 60, 0, <<7680,552,176,592,9000,1, 4320,16,20,44,4400, 0,0,0,0, 1>>),
  Mode("7680x4320_100_P", 100, 0, <<7680,2112,176,592,10560,1, 4320,16,20,144,4500, 0,0,0,0, 1>>),
  Mode("7680x4320_120_P", 120, 0, <<7680,352,176,592,8800,1, 4320,16,20,144,4500, 0,0,0,0, 1>>),
  Mode("10240x4320_24_P", 24, 0, <<10240,1492,176,592,12500,1, 4320,16,20,594,4950, 0,0,0,0, 1>>),
  Mode("10240x4320_25_P", 25, 0, <<10240,2492,176,592,13500,1, 4320,16,20,44,4400, 0,0,0,0, 1>>),
  Mode("10240x4320_30_P", 30, 0, <<10240,288,176,296,11000,1, 4320,16,20,144,4500, 0,0,0,0, 1>>),
  Mode("10240x4320_48_P", 48, 0, <<10240,1492,176,592,12500,1, 4320,16,20,594,4950, 0,0,0,0, 1>>),
  Mode("10240x4320_50_P", 50, 0, <<10240,2492,176,592,13500,1, 4320,16,20,44,4400, 0,0,0,0, 1>>),
  Mode("10240x4320_60_P", 60, 0, <<10240,288,176,296,11000,1, 4320,16,20,144,4500, 0,0,0,0, 1>>),
  Mode("10240x4320_100_P", 100, 0, <<10240,2192,176,592,13200,1, 4320,16,20,144,4500, 0,0,0,0, 1>>),
  Mode("10240x4320_120_P", 120, 0, <<10240,288,176,296,11000,1, 4320,16,20,144,4500, 0,0,0,0, 1>>) >>

\* XVidC_VideoTimingModes
XVidC_VideoTimingModes ==
  InterlacedModes \o ProgressiveModes1 \o ProgressiveModes2 \o ProgressiveModes3 \o ProgressiveModes4

\* The enumerators of XVidC_VideoMode, the first of which is 0.
InterlacedIds == <<
  "720x480_60_I", "720x486_60_I", "720x576_50_I", "1440x480_60_I", "1440x480_120_I",
  "1440x480_240_I", "1440x576_50_I", "1440x576_100_I", "1440x576_200_I", "1920x1080_48_I",
  "1920x1080_50_I", "1920x1080_50_I_VT1250", "1920x1080_60_I", "1920x1080_96_I",
  "1920x1080_100_I", "1920x1080_120_I", "2048x1080_48_I", "2048x1080_50_I", "2048x1080_60_I",
  "2048x1080_96_I", "2048x1080_100_I", "2048x1080_120_I", "2880x480_60_I", "2880x576_50_I" >>

\* From XVIDC_VM_PROG_START.
ProgressiveIds1 == <<
  "640x350_85_P", "640x480_60_P", "640x480_72_P", "640x480_75_P", "640x480_85_P",
  "720x400_85_P", "720x480_60_P", "720x480_120_P", "720x480_240_P", "720x576_50_P",
  "720x576_100_P", "720x576_200_P", "800x600_56_P", "800x600_60_P", "800x600_72_P",
  "800x600_75_P", "800x600_85_P", "800x600_120_P_RB", "848x480_60_P", "1024x768_60_P",
  "1024x768_70_P", "1024x768_75_P", "1024x768_85_P", "1024x768_120_P_RB", "1152x864_75_P",
  "1280x720_24_P", "1280x720_25_P", "1280x720_30_P", "1280x720_48_P", "1280x720_50_P",
  "1280x720_60_P", "1280x720_100_P", "1280x720_120_P", "1280x768_60_P", "1280x768_60_P_RB",
  "1280x768_75_P", "1280x768_85_P", "1280x768_120_P_RB", "1280x800_60_P", "1280x800_60_P_RB",
  "1280x800_75_P", "1280x800_85_P", "1280x800_120_P_RB", "1280x960_60_P", "1280x960_85_P",
  "1280x960_120_P_RB", "1280x1024_60_P", "1280x1024_75_P", "1280x1024_85_P",
  "1280x1024_120_P_RB", "1360x768_60_P", "1360x768_120_P_RB", "1366x768_60_P",
  "1366x768_60_P_RB", "1400x1050_60_P", "1400x1050_60_P_RB", "1400x1050_75_P",
  "1400x1050_85_P", "1400x1050_120_P_RB", "1440x240_60_P", "1440x240_60_P_VT263",
  "1440x288_50_P", "1440x288_50_P_VT314", "1440x288_50_P_VT312", "1440x480_60_P",
  "1440x576_50_P", "1440x900_60_P", "1440x900_60_P_RB", "1440x900_75_P", "1440x900_85_P",
  "1440x900_120_P_RB", "1600x1200_60_P", "1600x1200_65_P", "1600x1200_70_P", "1600x1200_75_P",
  "1600x1200_85_P", "1600x1200_120_P_RB", "1680x720_24_P", "1680x720_25_P", "1680x720_30_P",
  "1680x720_48_P", "1680x720_50_P", "1680x720_60_P", "1680x720_100_P", "1680x720_120_P",
  "1680x1050_50_P", "1680x1050_60_P", "1680x1050_60_P_RB", "1680x1050_75_P", "1680x1050_85_P",
  "1680x1050_120_P_RB", "1792x1344_60_P" >>

\* Up to XVIDC_VM_NUM_SUPPORTED.
ProgressiveIds2 == <<
  "1792x1344_75_P", "1792x1344_120_P_RB", "1856x1392_60_P", "1856x1392_75_P",
  "1856x1392_120_P_RB", "1920x1080_24_P", "1920x1080_25_P", "1920x1080_30_P", "1920x1080_48_P",
  "1920x1080_50_P", "1920x1080_60_P", "1920x1080_100_P", "1920x1080_120_P", "1920x1200_60_P",
  "1920x1200_60_P_RB", "1920x1200_75_P", "1920x1200_85_P", "1920x1200_120_P_RB",
  "1920x1440_60_P", "1920x1440_75_P", "1920x1440_120_P_RB", "1920x2160_60_P", "2048x1080_24_P",
  "2048x1080_25_P", "2048x1080_30_P", "2048x1080_48_P", "2048x1080_50_P", "2048x1080_60_P",
  "2048x1080_100_P", "2048x1080_120_P", "2560x1080_24_P", "2560x1080_25_P", "2560x1080_30_P",
  "2560x1080_48_P", "2560x1080_50_P", "2560x1080_60_P", "2560x1080_100_P", "2560x1080_120_P",
  "2560x1600_60_P", "2560x1600_60_P_RB", "2560x1600_75_P", "2560x1600_85_P",
  "2560x1600_120_P_RB", "2880x240_60_P", "2880x240_60_P_VT263", "2880x288_50_P",
  "2880x288_50_P_VT314", "2880x288_50_P_VT312", "2880x480_60_P", "2880x576_50_P",
  "3840x2160_24_P", "3840x2160_25_P", "3840x2160_30_P", "3840x2160_48_P", "3840x2160_50_P",
  "3840x2160_60_P", "3840x2160_60_P_RB", "3840x2160_100_P", "3840x2160_120_P",
  "4096x2160_24_P", "4096x2160_25_P", "4096x2160_30_P", "4096x2160_48_P", "4096x2160_50_P",
  "4096x2160_60_P", "4096x2160_60_P_RB", "4096x2160_100_P", "4096x2160_120_P",
  "5120x2160_24_P", "5120x2160_25_P", "5120x2160_30_P", "5120x2160_48_P", "5120x2160_50_P",
  "5120x2160_60_P", "5120x2160_100_P", "5120x2160_120_P", "7680x4320_24_P", "7680x4320_25_P",
  "7680x4320_30_P", "7680x4320_48_P", "7680x4320_50_P", "7680x4320_60_P", "7680x4320_120_P",
  "7680x4320_100_P", "10240x4320_24_P", "10240x4320_25_P", "10240x4320_30_P",
  "10240x4320_48_P", "10240x4320_50_P", "10240x4320_60_P", "10240x4320_100_P",
  "10240x4320_120_P" >>

\* XVidC_VideoMode, up to XVIDC_VM_NUM_SUPPORTED
XVidC_VideoMode == InterlacedIds \o ProgressiveIds1 \o ProgressiveIds2

=============================================================================
