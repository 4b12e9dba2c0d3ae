--------------------------- MODULE MCLlmGateway ---------------------------
(* Texts, model calls and runs for LlmGateway. *)
EXTENDS LlmGateway

Text(words, station, speed, agv) ==
    [words |-> words, station |-> station, speed |-> speed, agv |-> agv]

MCTexts == { Text({"pause"}, "absent", "absent", "absent"),
             Text({"start", "speed"}, "absent", "absent", "bad"),
             Text({"start"}, "absent", "bad", "ok"),
             Text({"run"}, "bad", "absent", "absent"),
             Text({"add"}, "absent", "absent", "ok"),
             Text({"inspect"}, "ok", "absent", "absent") }

Written(tool, k, v) == [name |-> tool, args |-> Arg(k, v)]

MCModelCalls == { Written("run_station_task", "station_id", "ok"),
                  Written("run_station_task", "station_id", "badText"),
                  Written("set_sim_speed", "speed_multiplier", "okText"),
                  Written("set_sim_speed", "priority", "ok"),
                  Written("start_simulation", "agv_count", "bad"),
                  Written("move_to_station", "station_id", "ok"),
                  Written("inspect_station", "station_id", "flag") }

Kpis(b, t, w, c, u) == [ bottleneck_rate |-> b, throughput |-> t, avg_wait_time |-> w,
                         collision_risk |-> c, uptime |-> u ]

MCRuns == { [kpis |-> Kpis(300, 600, 100, 50, 95), verdict |-> "passed",
             grid |-> <<0, 0, 9, 1>>, mask |-> <<TRUE, TRUE, TRUE, TRUE>>],
            [kpis |-> Kpis(300, 400, 200, 150, 84), verdict |-> "failed",
             grid |-> <<1, 1, 1, 1>>, mask |-> NoMask],
            [kpis |-> Kpis(501, 590, NoKpi, 151, 96), verdict |-> "none",
             grid |-> <<0, 0, 0, 0>>, mask |-> NoMask],
            [kpis |-> NoKpis, verdict |-> "unlabelled", grid |-> <<>>, mask |-> NoMask],
            [kpis |-> SimulatedKpis(2), verdict |-> "unlabelled",
             grid |-> <<0, 3, 6, 0>>, mask |-> NoMask] }
===========================================================================
